------------------------------ MODULE MCService ------------------------------
(***************************************************************************)
(* Small instances, for TLC and in one run, of who may stamp and of what   *)
(* is around the sale: CredentialCache, Allowlist, RateLimits (its two     *)
(* limits apart) and Upstreams.  They share no state: part says which of   *)
(* them a behaviour is of, and the others stay where they are.             *)
(***************************************************************************)
EXTENDS CredentialCache, Upstreams, Allowlist, RateLimits, TLC

CONSTANTS c1, u1, a1, a2

VARIABLE part

\* Ticks of a few minutes: the entry of a key (a minute) ends with the tick that
\* follows it, the others (five minutes) live through one more.
Lifetimes == [p \in Paths |-> IF p = "hash" THEN 0 ELSE 1]

\* One range inside another.
Nested == {{a1}, {a1, a2}}

\* Neither a username nor a password, both, one that comes without the other, and
\* the password alone taken away.
FillingsTried == {<<"keep", "keep">>, <<"new", "new">>, <<"new", "keep">>, <<"keep", "clear">>}

ServiceInit ==
  /\ part \in {"keys", "names", "upstreams", "allowlist", "global", "tenant"}
  /\ Init
  /\ UpstreamsInit
  /\ AllowlistInit /\ (part # "allowlist" => noauth = "none")
  /\ RatesInit

ServiceNext ==
  /\ UNCHANGED part
  /\ \/ /\ part = "keys" /\ Next /\ row'[u1] = row[u1]
        /\ UNCHANGED <<upstreamsVars, allowlistVars, rateVars>>
     \/ /\ part = "names" /\ Next /\ row'[c1] = row[c1]
        /\ UNCHANGED <<upstreamsVars, allowlistVars, rateVars>>
     \/ /\ part = "upstreams" /\ UpstreamsNext
        /\ UNCHANGED <<vars, allowlistVars, rateVars>>
     \/ /\ part = "allowlist" /\ AllowlistNext
        /\ UNCHANGED <<vars, upstreamsVars, rateVars>>
     \/ /\ part = "global" /\ RatesNext /\ UNCHANGED burstVars
        /\ UNCHANGED <<vars, upstreamsVars, allowlistVars>>
     \/ /\ part = "tenant" /\ RatesNext /\ UNCHANGED globalVars
        /\ UNCHANGED <<vars, upstreamsVars, allowlistVars>>

ServiceSpec == ServiceInit /\ [][ServiceNext]_<<part, vars, upstreamsVars, allowlistVars, rateVars>>

\* Sound for safety: the properties tell none of these from another, as Upstream and
\* Tenants, or as Editors, Requests and Waiting.
Symmetric == Permutations(Upstream) \cup Permutations(Editors)
=============================================================================
