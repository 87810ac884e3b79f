------------------------------- MODULE Upstreams -------------------------------
(***************************************************************************)
(* The timestamping authorities a stamp may be bought from: how the        *)
(* administrators edit them, how a request comes to the default one, by    *)
(* way of Redis, and what it sends there, how many times.                  *)
(*                                                                         *)
(* Simplifications.  A URL is its host, the only part whose change matters *)
(* (SameHost), and it is on the list of allowed hosts: ValidateURL refuses *)
(* the others before anything is read.  A username or a password is the    *)
(* host it was entered for.  A form without a URL is entered for the host  *)
(* the row has when it is read.  SetDefault is one step: the unique index  *)
(* on the active default lets only one of two at once commit.  A row       *)
(* without a username is served with the credentials of the environment,   *)
(* by name or by fallback (resolveUpstreamCredentials): Environment.       *)
(* Timeouts and names of upstreams are left out.                           *)
(***************************************************************************)
EXTENDS Integers

CONSTANTS Upstream,      \* rows of tsa_upstreams
          Hosts,
          Environment,   \* the host of the .env, and the one its credentials are for
          Editors,       \* edits under way at once (a bound)
          Stamps,        \* stamps under way at once (a bound)
          Fillings,      \* how a form comes with a username and a password (a bound)
          Retries,       \* what max_retries may be
          EnvRetries,    \* max_retries of the .env
          DefaultLife,   \* lifetime of upstream:default, in ticks
          MaxLag,        \* ticks from a read to the write or the end it leads to
          MaxUpEdits,    \* edits in all (a bound)
          MaxUpFaults,   \* failures of Redis and Postgres (a bound)
          Void

Config == [host : Hosts, user : Hosts \cup {Void}, pass : Hosts \cup {Void},
           retries : Retries \cup {EnvRetries}, active : BOOLEAN]
\* A copy of what was the default, since when it has been held, and (history)
\* how long it has not been the default.
Copy   == [cfg : Config, age : Nat, old : Nat]
\* What an administrator fills in: nothing, "" or something new.
Form   == [host : Hosts \cup {Void}, how : Fillings, retries : Retries, active : BOOLEAN]
\* was: it was the default when it was read.
EditOf == [op : {"update", "delete"}, row : Upstream, new : Config, was : BOOLEAN]

ASSUME UpstreamsAssumption ==
  /\ Environment \in Hosts
  /\ Fillings \subseteq {"keep", "clear", "new"} \X {"keep", "clear", "new"}
  /\ Retries \subseteq Nat
  /\ EnvRetries \in Nat
  /\ DefaultLife \in Nat
  /\ MaxLag \in Nat
  /\ MaxUpEdits \in Nat
  /\ MaxUpFaults \in Nat
  /\ Void \notin Hosts \cup Upstream
  /\ Void \notin Config \cup Copy
  /\ Void \notin EditOf

VARIABLES
  stored,    \* tsa_upstreams, or Void
  default,   \* the row with is_default, or Void
  entry,     \* upstream:default, or Void
  edit,      \* the edits between their read and their write, or Void
  upDels,    \* deletions of the entry still to run
  fill,      \* what a request's goroutine is to write to Redis, or Void
  copy,      \* what a request has taken for the default, or Void
  place,     \* where it is
  posts,     \* the POSTs of this request, and how many the authority stamped
  upEdits,
  upFaults

upstreamsVars == <<stored, default, entry, edit, upDels, fill, copy, place, posts, upEdits, upFaults>>
stampVars == <<fill, copy, place, posts>>

UpFault == upFaults < MaxUpFaults /\ upFaults' = upFaults + 1

\* GetDefault.
DefaultIn(r, d) == IF d # Void /\ r[d] # Void /\ r[d].active THEN r[d] ELSE Void
Default == DefaultIn(stored, default)
EnvConfig == [host |-> Environment, user |-> Void, pass |-> Void, retries |-> EnvRetries,
              active |-> TRUE]

Fresh(c) == [cfg |-> c, age |-> 0, old |-> 0]
\* History: a copy of what is the default is not old.
Seen(p, d) == IF p # Void /\ p.cfg = d THEN [cfg |-> p.cfg, age |-> p.age, old |-> 0] ELSE p

-----------------------------------------------------------------------------
UpstreamsInit ==
  /\ stored = [i \in Upstream |-> Void]
  /\ default = Void
  /\ entry = Void
  /\ edit = [e \in Editors |-> Void]
  /\ upDels = 0
  /\ fill = [q \in Stamps |-> Void]
  /\ copy = [q \in Stamps |-> Void]
  /\ place = [q \in Stamps |-> "idle"]
  /\ posts = [q \in Stamps |-> [sent |-> 0, served |-> 0]]
  /\ upEdits = 0
  /\ upFaults = 0

-----------------------------------------------------------------------------
\* Edits.

CountEdit == upEdits < MaxUpEdits /\ upEdits' = upEdits + 1

\* To be conjoined to every write of the rows.
CopiesSeen ==
  /\ entry' = Seen(entry, Default')
  /\ fill' = [q \in Stamps |-> Seen(fill[q], Default')]
  /\ copy' = [q \in Stamps |-> Seen(copy[q], Default')]

\* A username or a password for the host h.
Filled(how, old, h) == IF how = "keep" THEN old ELSE IF how = "clear" THEN Void ELSE h

CreateUpstream(i, h, f, n) ==
  /\ stored[i] = Void
  /\ CountEdit
  /\ stored' = [stored EXCEPT ![i] =
       [host |-> h, user |-> Filled(f[1], Void, h), pass |-> Filled(f[2], Void, h),
        retries |-> n, active |-> TRUE]]
  /\ UNCHANGED default
  /\ CopiesSeen
  /\ UNCHANGED <<edit, upDels, place, posts, upFaults>>

\* Mutant: the credentials follow the upstream to its new host.
AppliedKeeping(c, f) ==
  LET h == IF f.host = Void THEN c.host ELSE f.host
  IN  [host |-> h, user |-> Filled(f.how[1], c.user, h), pass |-> Filled(f.how[2], c.pass, h),
       retries |-> f.retries, active |-> f.active]

\* UpdateUpstream: with another host the stored credentials are dropped first,
\* and a username that comes without a password is dropped after.
Applied(c, f) ==
  LET h       == IF f.host = Void THEN c.host ELSE f.host
      cleared == h # c.host /\ (c.user # Void \/ c.pass # Void)
      user    == Filled(f.how[1], IF cleared THEN Void ELSE c.user, h)
      pass    == Filled(f.how[2], IF cleared THEN Void ELSE c.pass, h)
  IN  [host |-> h, user |-> IF cleared /\ pass = Void THEN Void ELSE user, pass |-> pass,
       retries |-> f.retries, active |-> f.active]

\* The read.  max_retries that is not in the request is 0 and is written.
UpdateUpstream(e, i, f) ==
  /\ edit[e] = Void
  /\ stored[i] # Void
  /\ CountEdit
  /\ edit' = [edit EXCEPT ![e] =
       [op |-> "update", row |-> i, new |-> Applied(stored[i], f), was |-> default = i]]
  /\ UNCHANGED <<stored, default, entry, upDels, stampVars, upFaults>>

WithActive(c, active) == [host |-> c.host, user |-> c.user, pass |-> c.pass,
                          retries |-> c.retries, active |-> active]

\* DeleteUpstream deactivates.
DeleteUpstream(e, i) ==
  /\ edit[e] = Void
  /\ stored[i] # Void
  /\ CountEdit
  /\ edit' = [edit EXCEPT ![e] =
       [op |-> "delete", row |-> i, new |-> WithActive(stored[i], FALSE), was |-> default = i]]
  /\ UNCHANGED <<stored, default, entry, upDels, stampVars, upFaults>>

\* UpstreamRepository.Update writes back the whole row as it was read, but for
\* is_default.  UpdateUpstream invalidates if the row is the default now,
\* DeleteUpstream if it was when it was read.
WriteBack(e) ==
  /\ edit[e] # Void
  /\ stored' = [stored EXCEPT ![edit[e].row] = edit[e].new]
  /\ upDels' = IF IF edit[e].op = "update" THEN default = edit[e].row ELSE edit[e].was
             THEN upDels + 1 ELSE upDels
  /\ edit' = [edit EXCEPT ![e] = Void]
  /\ UNCHANGED default
  /\ CopiesSeen
  /\ UNCHANGED <<place, posts, upEdits, upFaults>>

\* SetDefault, which also activates; with an id that no row has, nothing is default.
SetDefault(i) ==
  /\ CountEdit
  /\ default' = IF stored[i] = Void THEN Void ELSE i
  /\ stored' = IF stored[i] = Void THEN stored
            ELSE [stored EXCEPT ![i] = WithActive(stored[i], TRUE)]
  /\ upDels' = upDels + 1
  /\ CopiesSeen
  /\ UNCHANGED <<edit, place, posts, upFaults>>

\* The goroutine that deletes the entry; a failure is ignored.
InvalidateDefaultUpstream ==
  /\ upDels > 0
  /\ upDels' = upDels - 1
  /\ \/ entry' = Void /\ UNCHANGED upFaults
     \/ UpFault /\ UNCHANGED entry
  /\ UNCHANGED <<stored, default, edit, stampVars, upEdits>>

-----------------------------------------------------------------------------
\* Stamps.

Settle(q, where) == place' = [place EXCEPT ![q] = where]

\* Mutant: a hit gives the entry a new lifetime.
GetAndExtend(q) ==
  /\ place[q] = "idle"
  /\ \/ /\ entry # Void
        /\ copy' = [copy EXCEPT ![q] = [cfg |-> entry.cfg, age |-> 0, old |-> entry.old]]
        /\ entry' = [cfg |-> entry.cfg, age |-> 0, old |-> entry.old]
        /\ Settle(q, "send")
     \/ /\ entry = Void
        /\ Settle(q, "select")
        /\ UNCHANGED <<copy, entry>>
  /\ UNCHANGED <<stored, default, edit, upDels, fill, posts, upEdits, upFaults>>

\* The cache first; a miss and a failure of Redis are the same.
GetDefaultUpstream(q) ==
  /\ place[q] = "idle"
  /\ \/ /\ entry # Void
        /\ copy' = [copy EXCEPT ![q] = [cfg |-> entry.cfg, age |-> 0, old |-> entry.old]]
        /\ Settle(q, "send")
        /\ UNCHANGED upFaults
     \/ /\ entry = Void
        /\ Settle(q, "select")
        /\ UNCHANGED <<copy, upFaults>>
     \/ /\ entry # Void
        /\ UpFault
        /\ Settle(q, "select")
        /\ UNCHANGED copy
  /\ UNCHANGED <<stored, default, entry, edit, upDels, fill, posts, upEdits>>

\* A default in Postgres is sent to Redis by a goroutine.
SelectDefault(q) ==
  /\ place[q] = "select"
  /\ Default # Void
  /\ fill[q] = Void
  /\ copy' = [copy EXCEPT ![q] = Fresh(Default)]
  /\ fill' = [fill EXCEPT ![q] = Fresh(Default)]
  /\ Settle(q, "send")
  /\ UNCHANGED <<stored, default, entry, edit, upDels, posts, upEdits, upFaults>>

\* None there, or Postgres fails: the .env.
UseEnvironment(q) ==
  /\ place[q] = "select"
  /\ \/ Default = Void /\ UNCHANGED upFaults
     \/ Default # Void /\ UpFault
  /\ copy' = [copy EXCEPT ![q] = Fresh(EnvConfig)]
  /\ Settle(q, "send")
  /\ UNCHANGED <<stored, default, entry, edit, upDels, fill, posts, upEdits>>

SetDefaultUpstream(q) ==
  /\ fill[q] # Void
  /\ \/ /\ entry' = [cfg |-> fill[q].cfg, age |-> 0, old |-> fill[q].old]
        /\ UNCHANGED upFaults
     \/ UpFault /\ UNCHANGED entry
  /\ fill' = [fill EXCEPT ![q] = Void]
  /\ UNCHANGED <<stored, default, edit, upDels, copy, place, posts, upEdits>>

\* Mutant: one attempt more.
MayRetryOnceMore(q, sent) == sent <= copy[q].cfg.retries + 1

MayRetry(q, sent) == sent <= copy[q].cfg.retries

\* What may come of a POST: a stamp; an answer below 500 that is none ("denied": a
\* 401, a 404, a rejection); a 5xx; an answer that is lost, of a request that was
\* served; nothing.
Outcomes == {"stamp", "denied", "5xx", "lost", "unreached"}

\* An iteration of Send: doRequest, what the loop does with its result, and what
\* Process makes of it.  doRequest has no error for an HTTP answer, whatever its
\* status: it ends the loop, and below 500 it is a success.
Send(q, outcome) ==
  LET p == [sent   |-> posts[q].sent + 1,
            served |-> posts[q].served + IF outcome \in {"stamp", "lost"} THEN 1 ELSE 0]
  IN  /\ place[q] = "send"
      /\ posts' = [posts EXCEPT ![q] = p]
      /\ Settle(q, CASE outcome \in {"stamp", "denied"} -> "success"
                     [] outcome = "5xx" -> "refused"
                     [] outcome \in {"lost", "unreached"} ->
                          IF MayRetry(q, p.sent) THEN "send" ELSE "failed")
      /\ UNCHANGED <<stored, default, entry, edit, upDels, fill, copy, upEdits, upFaults>>

\* The client goes away while Send waits before another attempt.
ClientGone(q) ==
  /\ place[q] = "send"
  /\ posts[q].sent > 0
  /\ Settle(q, "gone")
  /\ UNCHANGED <<stored, default, entry, edit, upDels, fill, copy, posts, upEdits, upFaults>>

Ended == {"success", "refused", "failed", "gone"}

EndStamp(q) ==
  /\ place[q] \in Ended
  /\ Settle(q, "idle")
  /\ copy' = [copy EXCEPT ![q] = Void]
  /\ posts' = [posts EXCEPT ![q] = [sent |-> 0, served |-> 0]]
  /\ UNCHANGED <<stored, default, entry, edit, upDels, fill, upEdits, upFaults>>

-----------------------------------------------------------------------------
\* Time, and a restart of the backend.

Aging(p) == [cfg |-> p.cfg, age |-> p.age + 1, old |-> IF p.cfg = Default THEN 0 ELSE p.old + 1]
Older1(p) == IF p = Void THEN Void ELSE Aging(p)

\* Mutant: SET without EX.
EntryKept(p) == p # Void

EntryLives(p) == p # Void /\ p.age < DefaultLife

UpstreamsTick ==
  /\ \A q \in Stamps : /\ copy[q] # Void => copy[q].age < MaxLag
                       /\ fill[q] # Void => fill[q].age < MaxLag
  /\ entry' = IF EntryLives(entry) THEN Aging(entry) ELSE Void
  /\ copy' = [q \in Stamps |-> Older1(copy[q])]
  /\ fill' = [q \in Stamps |-> Older1(fill[q])]
  /\ UNCHANGED <<stored, default, edit, upDels, place, posts, upEdits, upFaults>>

UpstreamsCrash ==
  /\ UpFault
  /\ edit' = [e \in Editors |-> Void]
  /\ upDels' = 0
  /\ fill' = [q \in Stamps |-> Void]
  /\ copy' = [q \in Stamps |-> Void]
  /\ place' = [q \in Stamps |-> "idle"]
  /\ posts' = [q \in Stamps |-> [sent |-> 0, served |-> 0]]
  /\ UNCHANGED <<stored, default, entry, upEdits>>

UpstreamsNext ==
  \/ \E i \in Upstream :
       \/ \E h \in Hosts, f \in Fillings, n \in Retries : CreateUpstream(i, h, f, n)
       \/ \E e \in Editors : DeleteUpstream(e, i) \/ \E f \in Form : UpdateUpstream(e, i, f)
       \/ SetDefault(i)
  \/ \E e \in Editors : WriteBack(e)
  \/ InvalidateDefaultUpstream
  \/ \E q \in Stamps :
       \/ GetDefaultUpstream(q) \/ SelectDefault(q) \/ UseEnvironment(q) \/ SetDefaultUpstream(q)
       \/ \E outcome \in Outcomes : Send(q, outcome)
       \/ ClientGone(q) \/ EndStamp(q)
  \/ UpstreamsTick
  \/ UpstreamsCrash

UpstreamsSpec == UpstreamsInit /\ [][UpstreamsNext]_upstreamsVars

-----------------------------------------------------------------------------
\* The kinds of the state, the ages of the copies and what is held where.
UpstreamsTypeOK ==
  /\ stored \in [Upstream -> Config \cup {Void}]
  /\ default \in Upstream \cup {Void}
  /\ default # Void => stored[default] # Void
  /\ entry \in Copy \cup {Void}
  /\ fill \in [Stamps -> Copy \cup {Void}]
  /\ copy \in [Stamps -> Copy \cup {Void}]
  /\ entry # Void => entry.age <= DefaultLife
  /\ edit \in [Editors -> EditOf \cup {Void}]
  /\ \A e \in Editors : edit[e] # Void => stored[edit[e].row] # Void
  /\ upDels \in Nat
  /\ \A q \in Stamps :
       /\ fill[q] # Void => fill[q].age <= MaxLag
       /\ copy[q] # Void => copy[q].age <= MaxLag
       /\ place[q] \in {"idle", "select"} <=> copy[q] = Void
  /\ place \in [Stamps -> {"idle", "select", "send"} \cup Ended]
  /\ posts \in [Stamps -> [sent : Nat, served : Nat]]
  /\ upEdits \in 0..MaxUpEdits
  /\ upFaults \in 0..MaxUpFaults

Copies == {entry} \cup {fill[q] : q \in Stamps} \cup {copy[q] : q \in Stamps}
AtHome(c) == c.user \in {Void, c.host} /\ c.pass \in {Void, c.host}

\* "el proxy no pueda replicar la credencial vieja hacia el host nuevo" (config.go):
\* whatever edits run at once and write each other's rows back, and whatever copy
\* a request got hold of, a stored username or password goes to no host but the
\* one it was entered for.
CredentialsStayHome ==
  /\ \A i \in Upstream : stored[i] # Void => AtHome(stored[i])
  /\ \A p \in Copies \ {Void} : AtHome(p.cfg)

\* A request is served by what was the default not longer ago than an entry lives
\* and two reads may lag: a lost or overtaken invalidation, or a late SET of an
\* old default, does no more harm than that.  (Or by the .env.)
DefaultRecent ==
  \A q \in Stamps : copy[q] # Void => copy[q].old <= DefaultLife + 2 * MaxLag

\* One request is asked of the authority at most once more than the retries of
\* the default it uses, whatever is written to that row meanwhile, and stamped no
\* more often than that (a stamp whose answer is lost, nobody pays); it is given up
\* with no answer only after the last of them.
SendsCounted ==
  \A q \in Stamps :
    /\ copy[q] # Void => posts[q].sent <= copy[q].cfg.retries + 1
    /\ posts[q].served <= posts[q].sent
    /\ place[q] = "failed" => posts[q].sent = copy[q].cfg.retries + 1

\* "No reintentar en errores 4xx del upstream" (client.go:143), where Send returns
\* an error for them: what is sold, the authority stamped.
SoldWasServed == \A q \in Stamps : place[q] = "success" => posts[q].served > 0
=============================================================================
