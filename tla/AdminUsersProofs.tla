---------------------------- MODULE AdminUsersProofs ----------------------------
(***************************************************************************)
(* Proofs about AdminUsers: for any users, tenants and requests, and any   *)
(* number of failing statements.                                           *)
(***************************************************************************)
EXTENDS AdminUsers, FiniteSetTheorems, TLAPS

-----------------------------------------------------------------------------
\* Types.

RowsType ==
  /\ status \in [Accounts -> {"none", "active", "inactive", "deleted"}]
  /\ roles \in [Accounts -> SUBSET Roles]
  /\ scope \in [Accounts -> SUBSET clients]
  /\ clients \subseteq Clients

\* What a handler has at each place, when cl are the tenants there are.
Legal(c, cl) ==
  /\ c.op = "delete" <=> c.wish = NoOne
  /\ c.at \in {"role", "scope"} => c.op # "delete"
  /\ c.keptScope \subseteq cl

CallsType ==
  /\ call \in [Handlers -> Call \cup {NoOne}]
  /\ \A h \in Handlers : call[h] # NoOne => Legal(call[h], clients)

NotesType ==
  /\ word \in [Accounts -> Wish \cup {NoOne}]
  /\ marred \subseteq Accounts
  /\ overtaken \in BOOLEAN
  /\ writes \in 0..MaxWrites
  /\ dbErrors \in 0..MaxDbErrors

UsersInvType == RowsType /\ CallsType /\ NotesType

LEMMA TypeFollows == UsersInvType => UsersTypeOK
BY DEF UsersInvType, RowsType, CallsType, NotesType, Legal, UsersTypeOK

LEMMA TypeNext ==
  UsersInvType' <=> RowsType' /\ CallsType' /\ NotesType'
BY DEF UsersInvType

\* What a step leaves of a handler that is not its own, its company aside.
Alike(c, d) == /\ d.at = c.at /\ d.op = c.op /\ d.user = c.user
               /\ d.wish = c.wish /\ d.active = c.active

LEMMA CallFields ==
  ASSUME NEW c \in Call
  PROVE  /\ c # NoOne /\ c.at \in Places /\ c.op \in Ops /\ c.user \in Accounts
         /\ c.wish \in Wish \cup {NoOne} /\ c.active \in BOOLEAN /\ c.alone \in BOOLEAN
         /\ c.keptRoles \in SUBSET Roles /\ c.keptScope \in SUBSET Clients
BY UsersAssumption DEF Call

\* A handler with some of its fields written.
LEMMA WithPlace ==
  ASSUME NEW c \in Call, NEW p \in Places
  PROVE  LET d == [c EXCEPT !.at = p]
         IN  /\ d \in Call /\ d.at = p /\ d.op = c.op /\ d.user = c.user /\ d.wish = c.wish
             /\ d.active = c.active /\ d.alone = c.alone
             /\ d.keptRoles = c.keptRoles /\ d.keptScope = c.keptScope
BY DEF Call

LEMMA WithCompany ==
  ASSUME NEW c \in Call, NEW b \in BOOLEAN
  PROVE  LET d == [c EXCEPT !.alone = b]
         IN  /\ d \in Call /\ Alike(c, d) /\ d.alone = b
             /\ d.keptRoles = c.keptRoles /\ d.keptScope = c.keptScope
BY DEF Call, Alike

LEMMA WithBoth ==
  ASSUME NEW c \in Call, NEW b \in BOOLEAN
  PROVE  LET d == [c EXCEPT !.at = "role", !.alone = b]
         IN  /\ d \in Call /\ d.at = "role" /\ d.op = c.op /\ d.user = c.user /\ d.wish = c.wish
             /\ d.active = c.active /\ d.alone = b
             /\ d.keptRoles = c.keptRoles /\ d.keptScope = c.keptScope
BY DEF Call, Places

LEMMA WithRoles ==
  ASSUME NEW c \in Call, NEW r \in Roles
  PROVE  LET d == [c EXCEPT !.keptRoles = @ \cup {r}]
         IN  /\ d \in Call /\ Alike(c, d) /\ d.alone = c.alone
             /\ d.keptRoles = c.keptRoles \cup {r} /\ d.keptScope = c.keptScope
BY DEF Call, Alike

LEMMA WithScope ==
  ASSUME NEW c \in Call, NEW s \in SUBSET Clients
  PROVE  LET d == [c EXCEPT !.keptScope = @ \cup s]
         IN  /\ d \in Call /\ Alike(c, d) /\ d.alone = c.alone
             /\ d.keptRoles = c.keptRoles /\ d.keptScope = c.keptScope \cup s
BY DEF Call, Alike

LEMMA WithoutClient ==
  ASSUME NEW c \in Call, NEW t
  PROVE  LET d == [c EXCEPT !.keptScope = @ \ {t}]
         IN  /\ d \in Call /\ Alike(c, d) /\ d.alone = c.alone
             /\ d.keptRoles = c.keptRoles /\ d.keptScope = c.keptScope \ {t}
BY DEF Call, Alike

LEMMA WishFields ==
  ASSUME NEW w \in Wish
  PROVE  /\ w.role \in Roles /\ w.scope \in SUBSET Clients
         /\ w.role = "viewer" => \E t \in Clients : w.scope = {t}
         /\ w.role # "viewer" => w.scope = {}
         /\ w # NoOne
BY UsersAssumption DEF Wish, Roles
-----------------------------------------------------------------------------
\* What each step does to the handlers.
LEMMA Others ==
  ASSUME CallsType, NEW h \in Handlers, NEW d \in Call \cup {NoOne}, call' = [call EXCEPT ![h] = d]
  PROVE  /\ call' \in [Handlers -> Call \cup {NoOne}] /\ call'[h] = d
         /\ \A k \in Handlers : k # h => call'[k] = call[k]
BY DEF CallsType

LEMMA FinishFacts ==
  ASSUME CallsType, NEW h \in Handlers, Finish(h)
  PROVE  /\ call' \in [Handlers -> Call \cup {NoOne}] /\ call'[h] = NoOne
         /\ \A k \in Handlers : k # h => call'[k] = call[k]
BY Others DEF Finish

\* Begin, for what the guard has found.
LEMMA BeginFacts ==
  ASSUME CallsType, NEW h \in Handlers, NEW op \in Ops, NEW u \in Accounts, NEW w \in Wish \cup {NoOne},
         NEW active \in BOOLEAN, Begin(h, op, u, w, active)
  PROVE  /\ call' \in [Handlers -> Call \cup {NoOne}] /\ call'[h] # NoOne /\ call'[h] \in Call
         /\ \A k \in Handlers : k # h => call'[k] = call[k]
         /\ call[h] = NoOne
         /\ call'[h].op = op /\ call'[h].user = u /\ call'[h].wish = w
         /\ call'[h].alone /\ call'[h].keptRoles = {} /\ call'[h].keptScope = {}
<1>1. PICK p \in {"count", "write"} :
        call' = [call EXCEPT ![h] =
             [at |-> p, op |-> op, user |-> u, wish |-> w, active |-> active, alone |-> TRUE,
              keptRoles |-> {}, keptScope |-> {}]]
  BY DEF Begin
<1> DEFINE d == [at |-> p, op |-> op, user |-> u, wish |-> w, active |-> active, alone |-> TRUE,
                 keptRoles |-> {}, keptScope |-> {}]
<1>2. call' = [call EXCEPT ![h] = d]
  BY <1>1
<1>3. d \in Call
  BY DEF Call, Places
<1>4. /\ d.op = op /\ d.user = u /\ d.wish = w /\ d.active = active /\ d.alone
      /\ d.keptRoles = {} /\ d.keptScope = {}
  OBVIOUS
<1> HIDE DEF d
<1>5. /\ call' \in [Handlers -> Call \cup {NoOne}] /\ call'[h] = d
      /\ \A k \in Handlers : k # h => call'[k] = call[k]
  BY <1>2, <1>3, Others
<1>6. /\ call[h] = NoOne
  BY DEF Begin
<1>7. d # NoOne
  BY <1>3, CallFields
<1>. QED BY <1>3, <1>4, <1>5, <1>6, <1>7

LEMMA BeginNotes ==
  ASSUME CallsType, NEW h \in Handlers, NEW op \in Ops, NEW u \in Accounts, NEW w \in Wish \cup {NoOne},
         NEW active \in BOOLEAN, Begin(h, op, u, w, active)
  PROVE  /\ call'[h].active = active /\ (op = "create" => status[u] = "none" /\ active)
         /\ \/ call'[h].at = "count"
            \/ call'[h].at = "write" /\ overtaken'
            \/ /\ call'[h].at = "write"
               /\ \/ op = "create" \/ u \notin Existing \/ "superadmin" \notin roles[u]
                  \/ Stays(op, w, active)
         /\ overtaken' \in BOOLEAN /\ (overtaken => overtaken') /\ dbErrors' \in {dbErrors, dbErrors + 1}
         /\ dbErrors' # dbErrors => dbErrors < MaxDbErrors
<1> DEFINE asked == op # "create" /\ u \in Existing /\ "superadmin" \in roles[u] /\ ~Stays(op, w, active)
<1>1. PICK unread \in BOOLEAN :
        /\ unread => (asked /\ dbErrors < MaxDbErrors)
        /\ dbErrors' = IF unread THEN dbErrors + 1 ELSE dbErrors
        /\ overtaken' = (overtaken \/ unread)
        /\ call' = [call EXCEPT ![h] =
             [at |-> IF asked /\ ~unread THEN "count" ELSE "write", op |-> op, user |-> u,
              wish |-> w, active |-> active, alone |-> TRUE, keptRoles |-> {}, keptScope |-> {}]]
  BY DEF Begin
<1>2. call'[h].active = active /\ call'[h].at = IF asked /\ ~unread THEN "count" ELSE "write"
  BY <1>1 DEF CallsType
<1>3. overtaken' \in BOOLEAN /\ (overtaken => overtaken')
  BY <1>1
<1>4. /\ dbErrors' \in {dbErrors, dbErrors + 1}
      /\ dbErrors' # dbErrors => dbErrors < MaxDbErrors
  BY <1>1
<1>5. \/ call'[h].at = "count"
      \/ call'[h].at = "write" /\ overtaken'
      \/ call'[h].at = "write" /\ ~asked
  BY <1>1, <1>2
<1>6. op = "create" => status[u] = "none" /\ active
  BY DEF Begin
<1>. QED BY <1>2, <1>3, <1>4, <1>5, <1>6

LEMMA CountFacts ==
  ASSUME CallsType, NEW h \in Handlers, Count(h)
  PROVE  /\ call[h] # NoOne /\ call[h].at = "count"
         /\ \/ Cardinality(ActiveWith("superadmin")) <= 1 /\ Finish(h)
            \/ /\ ~(Cardinality(ActiveWith("superadmin")) <= 1)
               /\ call' \in [Handlers -> Call \cup {NoOne}]
               /\ \A k \in Handlers : k # h => call'[k] = call[k]
               /\ call[h] \in Call /\ call'[h] \in Call /\ call'[h] # NoOne /\ call'[h].at = "write"
               /\ call'[h].op = call[h].op /\ call'[h].user = call[h].user
               /\ call'[h].wish = call[h].wish /\ call'[h].active = call[h].active
               /\ call'[h].alone = call[h].alone
               /\ call'[h].keptRoles = call[h].keptRoles /\ call'[h].keptScope = call[h].keptScope
<1>1. call[h] # NoOne /\ call[h].at = "count" /\ call[h] \in Call
  BY DEF Count, CallsType
<1>2. CASE Cardinality(ActiveWith("superadmin")) <= 1
  BY <1>1, <1>2 DEF Count
<1>3. CASE ~(Cardinality(ActiveWith("superadmin")) <= 1)
  <2> DEFINE c == call[h]
             d == [c EXCEPT !.at = "write"]
  <2>1. call' = [call EXCEPT ![h] = d]
    BY <1>3 DEF Count
  <2>2. /\ d \in Call /\ d.at = "write" /\ d.op = c.op /\ d.user = c.user /\ d.wish = c.wish
        /\ d.active = c.active /\ d.alone = c.alone
        /\ d.keptRoles = c.keptRoles /\ d.keptScope = c.keptScope
    BY <1>1, WithPlace DEF Places
  <2> HIDE DEF d
  <2>. QED BY <1>1, <1>3, <2>1, <2>2, Others, CallFields
<1>. QED BY <1>1, <1>2, <1>3

\* A handler goes on to the roles, and those already there are no longer alone.
LEMMA EnterFacts ==
  ASSUME CallsType, NEW h \in Handlers, call[h] # NoOne, Enter(h)
  PROVE  /\ call' \in [Handlers -> Call \cup {NoOne}]
         /\ call[h] \in Call /\ call'[h] \in Call /\ call'[h] # NoOne /\ call'[h].at = "role"
         /\ call'[h].op = call[h].op /\ call'[h].user = call[h].user
         /\ call'[h].wish = call[h].wish /\ call'[h].active = call[h].active
         /\ call'[h].alone = (Writing(call[h].user) = {})
         /\ call'[h].keptRoles = call[h].keptRoles /\ call'[h].keptScope = call[h].keptScope
         /\ \A k \in Handlers : k # h /\ k \notin Writing(call[h].user) => call'[k] = call[k]
         /\ \A k \in Writing(call[h].user) : k # h =>
              /\ call[k] # NoOne /\ call'[k] # NoOne /\ call[k] \in Call /\ call'[k] \in Call
              /\ Alike(call[k], call'[k]) /\ call'[k].alone = FALSE
              /\ call'[k].keptRoles = call[k].keptRoles /\ call'[k].keptScope = call[k].keptScope
         /\ marred' = IF Writing(call[h].user) = {} THEN marred ELSE marred \cup {call[h].user}
<1> DEFINE u == call[h].user
           alone == Writing(u) = {}
           c == call[h]
           d == [c EXCEPT !.at = "role", !.alone = alone]
           e(k) == [call[k] EXCEPT !.alone = FALSE]
<1>1. c \in Call /\ Writing(u) \subseteq Handlers
  BY DEF CallsType, Writing
<1>2. /\ call' = [k \in Handlers |-> IF k = h THEN d ELSE IF k \in Writing(u) THEN e(k) ELSE call[k]]
      /\ marred' = IF alone THEN marred ELSE marred \cup {u}
  BY DEF Enter
<1>3. /\ d \in Call /\ d.at = "role" /\ d.op = c.op /\ d.user = c.user /\ d.wish = c.wish
      /\ d.active = c.active /\ d.alone = alone
      /\ d.keptRoles = c.keptRoles /\ d.keptScope = c.keptScope
  <2>1. alone \in BOOLEAN
    OBVIOUS
  <2> HIDE DEF alone
  <2>. QED BY <1>1, <2>1, WithBoth
<1>4. ASSUME NEW k \in Writing(u)
      PROVE  /\ call[k] # NoOne /\ call[k] \in Call /\ e(k) \in Call /\ e(k) # NoOne
             /\ Alike(call[k], e(k)) /\ e(k).alone = FALSE
             /\ e(k).keptRoles = call[k].keptRoles /\ e(k).keptScope = call[k].keptScope
  <2>1. call[k] # NoOne /\ call[k] \in Call
    BY <1>1 DEF Writing, CallsType
  <2>. QED BY <2>1, WithCompany, CallFields
<1> HIDE DEF d, e, alone
<1>5. call'[h] = d
  BY <1>2
<1>6. \A k \in Handlers : k # h => call'[k] = IF k \in Writing(u) THEN e(k) ELSE call[k]
  BY <1>2
<1>7. call' \in [Handlers -> Call \cup {NoOne}]
  BY <1>2, <1>3, <1>4 DEF CallsType
<1>8. \A k \in Writing(u) : k # h =>
              /\ call[k] # NoOne /\ call'[k] # NoOne /\ call[k] \in Call /\ call'[k] \in Call
              /\ Alike(call[k], call'[k]) /\ call'[k].alone = FALSE
              /\ call'[k].keptRoles = call[k].keptRoles /\ call'[k].keptScope = call[k].keptScope
  BY <1>1, <1>4, <1>6
<1>9. \A k \in Handlers : k # h /\ k \notin Writing(u) => call'[k] = call[k]
  BY <1>6
<1>10. d # NoOne
  BY <1>3, CallFields
<1>11. marred' = IF Writing(u) = {} THEN marred ELSE marred \cup {u}
  BY <1>2 DEF alone
<1>12. d.alone = (Writing(u) = {})
  BY <1>3 DEF alone
<1>. QED BY <1>1, <1>3, <1>5, <1>7, <1>8, <1>9, <1>10, <1>11, <1>12

LEMMA RoleFacts ==
  ASSUME CallsType, NEW h \in Handlers, SetRole(h)
  PROVE  LET c == call[h]
             last == c.op = "create" /\ c.wish.role # "viewer"
         IN  /\ c # NoOne /\ c \in Call /\ c.at = "role" /\ c.wish \in Wish
             /\ call' \in [Handlers -> Call \cup {NoOne}]
             /\ \E kept \in {{}, c.keptRoles} : roles' = [roles EXCEPT ![c.user] = kept \cup {c.wish.role}]
             /\ last => call'[h] = NoOne /\ Conclude(h)
             /\ ~last => /\ call'[h] \in Call /\ call'[h] # NoOne /\ call'[h].at = "scope"
                         /\ call'[h].op = c.op /\ call'[h].user = c.user
                         /\ call'[h].wish = c.wish /\ call'[h].active = c.active
                         /\ call'[h].alone = c.alone
                         /\ call'[h].keptRoles = c.keptRoles /\ call'[h].keptScope = c.keptScope
                         /\ UNCHANGED <<word, marred>>
             /\ \A k \in Handlers : k # h /\ k \notin Rivals(h) => call'[k] = call[k]
             /\ \A k \in Rivals(h) :
                  /\ k # h /\ k \in Handlers
                  /\ call[k] # NoOne /\ call'[k] # NoOne /\ call[k] \in Call /\ call'[k] \in Call
                  /\ Alike(call[k], call'[k]) /\ call'[k].alone = call[k].alone
                  /\ call'[k].keptScope = call[k].keptScope
<1> DEFINE c == call[h]
           last == c.op = "create" /\ c.wish.role # "viewer"
           d == IF last THEN NoOne ELSE [c EXCEPT !.at = "scope"]
           e(k) == [call[k] EXCEPT !.keptRoles = @ \cup {c.wish.role}]
<1>1. c # NoOne /\ c \in Call /\ c.at = "role" /\ Rivals(h) \subseteq Handlers
  BY DEF SetRole, At, CallsType, Rivals
<1>2. c.wish \in Wish
  BY <1>1, CallFields DEF CallsType, Legal
<1>3. c.wish.role \in Roles
  BY <1>2, WishFields
<1>4. call' = [k \in Handlers |-> IF k = h THEN d ELSE IF k \in Rivals(h) THEN e(k) ELSE call[k]]
  BY DEF SetRole
<1>5. ~last => /\ d \in Call /\ d # NoOne /\ d.at = "scope" /\ d.op = c.op /\ d.user = c.user /\ d.wish = c.wish
               /\ d.active = c.active /\ d.alone = c.alone
               /\ d.keptRoles = c.keptRoles /\ d.keptScope = c.keptScope
  <2>1. "scope" \in Places
    BY DEF Places
  <2>. QED BY <1>1, <2>1, WithPlace, CallFields
<1>6. last => d = NoOne
  OBVIOUS
<1>7. ASSUME NEW k \in Rivals(h)
      PROVE  /\ k # h /\ k \in Handlers /\ call[k] # NoOne /\ call[k] \in Call /\ e(k) \in Call /\ e(k) # NoOne
             /\ Alike(call[k], e(k)) /\ e(k).alone = call[k].alone /\ e(k).keptScope = call[k].keptScope
  <2>1. k # h /\ k \in Handlers /\ call[k] # NoOne /\ call[k] \in Call
    BY DEF Rivals, At, CallsType
  <2>. QED BY <1>3, <2>1, WithRoles, CallFields
<1>8. \E kept \in {{}, c.keptRoles} : roles' = [roles EXCEPT ![c.user] = kept \cup {c.wish.role}]
  BY DEF SetRole, ReplaceRole
<1>9. (last => Conclude(h)) /\ (~last => UNCHANGED <<word, marred>>)
  BY DEF SetRole
<1> HIDE DEF d, e, last
<1>10. call'[h] = d
  BY <1>4
<1>11. \A k \in Handlers : k # h => call'[k] = IF k \in Rivals(h) THEN e(k) ELSE call[k]
  BY <1>4
<1>12. call' \in [Handlers -> Call \cup {NoOne}]
  BY <1>4, <1>5, <1>6, <1>7 DEF CallsType
<1>13. \A k \in Rivals(h) :
                  /\ k # h /\ k \in Handlers
                  /\ call[k] # NoOne /\ call'[k] # NoOne /\ call[k] \in Call /\ call'[k] \in Call
                  /\ Alike(call[k], call'[k]) /\ call'[k].alone = call[k].alone
                  /\ call'[k].keptScope = call[k].keptScope
  BY <1>7, <1>11
<1>14. \A k \in Handlers : k # h /\ k \notin Rivals(h) => call'[k] = call[k]
  BY <1>11
<1>15. last => call'[h] = NoOne /\ Conclude(h)
  BY <1>6, <1>9, <1>10
<1>16. ~last => /\ call'[h] \in Call /\ call'[h] # NoOne /\ call'[h].at = "scope"
                /\ call'[h].op = c.op /\ call'[h].user = c.user
                /\ call'[h].wish = c.wish /\ call'[h].active = c.active
                /\ call'[h].alone = c.alone
                /\ call'[h].keptRoles = c.keptRoles /\ call'[h].keptScope = c.keptScope
                /\ UNCHANGED <<word, marred>>
  BY <1>5, <1>9, <1>10
<1>. QED BY <1>1, <1>2, <1>8, <1>12, <1>13, <1>14, <1>15, <1>16 DEF last

LEMMA ScopeFacts ==
  ASSUME CallsType, NEW h \in Handlers, SetTenantScope(h)
  PROVE  LET c == call[h]
         IN  /\ c # NoOne /\ c \in Call /\ c.at = "scope" /\ c.wish \in Wish /\ c.wish.scope \subseteq clients
             /\ call' \in [Handlers -> Call \cup {NoOne}] /\ call'[h] = NoOne
             /\ \E kept \in {{}, c.keptScope} : scope' = [scope EXCEPT ![c.user] = kept \cup c.wish.scope]
             /\ \A k \in Handlers : k # h /\ k \notin Rivals(h) => call'[k] = call[k]
             /\ \A k \in Rivals(h) :
                  /\ k # h /\ k \in Handlers
                  /\ call[k] # NoOne /\ call'[k] # NoOne /\ call[k] \in Call /\ call'[k] \in Call
                  /\ Alike(call[k], call'[k]) /\ call'[k].alone = call[k].alone
                  /\ call'[k].keptScope = call[k].keptScope \cup c.wish.scope
<1> DEFINE c == call[h]
           e(k) == [call[k] EXCEPT !.keptScope = @ \cup c.wish.scope]
<1>1. c # NoOne /\ c \in Call /\ c.at = "scope" /\ c.wish.scope \subseteq clients
  BY DEF SetTenantScope, At, CallsType
<1>2. c.wish \in Wish
  BY <1>1, CallFields DEF CallsType, Legal
<1>3. c.wish.scope \in SUBSET Clients
  BY <1>2, WishFields
<1>4. call' = [k \in Handlers |-> IF k = h THEN NoOne ELSE IF k \in Rivals(h) THEN e(k) ELSE call[k]]
  BY DEF SetTenantScope
<1>5. ASSUME NEW k \in Rivals(h)
      PROVE  /\ k # h /\ k \in Handlers /\ call[k] # NoOne /\ call[k] \in Call /\ e(k) \in Call /\ e(k) # NoOne
             /\ Alike(call[k], e(k)) /\ e(k).alone = call[k].alone
             /\ e(k).keptScope = call[k].keptScope \cup c.wish.scope
  <2>1. k # h /\ k \in Handlers /\ call[k] # NoOne /\ call[k] \in Call
    BY DEF Rivals, At, CallsType
  <2>. QED BY <1>3, <2>1, WithScope, CallFields
<1>6. \E kept \in {{}, c.keptScope} : scope' = [scope EXCEPT ![c.user] = kept \cup c.wish.scope]
  BY DEF SetTenantScope
<1> HIDE DEF e
<1>7. call'[h] = NoOne /\ \A k \in Handlers : k # h => call'[k] = IF k \in Rivals(h) THEN e(k) ELSE call[k]
  BY <1>4
<1>8. call' \in [Handlers -> Call \cup {NoOne}]
  BY <1>4, <1>5 DEF CallsType
<1>9. \A k \in Rivals(h) :
                  /\ k # h /\ k \in Handlers
                  /\ call[k] # NoOne /\ call'[k] # NoOne /\ call[k] \in Call /\ call'[k] \in Call
                  /\ Alike(call[k], call'[k]) /\ call'[k].alone = call[k].alone
                  /\ call'[k].keptScope = call[k].keptScope \cup c.wish.scope
  BY <1>5, <1>7
<1>. QED BY <1>1, <1>2, <1>6, <1>7, <1>8, <1>9

LEMMA ClientFacts ==
  ASSUME CallsType, NEW t \in Clients, DeleteClient(t)
  PROVE  /\ call' \in [Handlers -> Call \cup {NoOne}]
         /\ \A k \in Handlers :
              \/ call[k] = NoOne /\ call'[k] = NoOne
              \/ /\ call[k] # NoOne /\ call'[k] # NoOne /\ call[k] \in Call /\ call'[k] \in Call
                 /\ Alike(call[k], call'[k]) /\ call'[k].alone = call[k].alone
                 /\ call'[k].keptRoles = call[k].keptRoles
                 /\ call'[k].keptScope = call[k].keptScope \ {t}
<1> DEFINE e(k) == [call[k] EXCEPT !.keptScope = @ \ {t}]
<1>1. call' = [k \in Handlers |-> IF call[k] = NoOne THEN NoOne ELSE e(k)]
  BY DEF DeleteClient
<1>2. ASSUME NEW k \in Handlers, call[k] # NoOne
      PROVE  /\ call[k] \in Call /\ e(k) \in Call /\ e(k) # NoOne
             /\ Alike(call[k], e(k)) /\ e(k).alone = call[k].alone
             /\ e(k).keptRoles = call[k].keptRoles /\ e(k).keptScope = call[k].keptScope \ {t}
  <2>1. call[k] \in Call
    BY <1>2 DEF CallsType
  <2>. QED BY <2>1, WithoutClient, CallFields
<1> HIDE DEF e
<1>3. \A k \in Handlers : call'[k] = IF call[k] = NoOne THEN NoOne ELSE e(k)
  BY <1>1
<1>4. call' \in [Handlers -> Call \cup {NoOne}]
  BY <1>1, <1>2
<1>. QED BY <1>2, <1>3, <1>4
-----------------------------------------------------------------------------
\* The types hold at every step.
LEMMA CallsNext ==
  ASSUME call' \in [Handlers -> Call \cup {NoOne}],
         \A k \in Handlers : call'[k] # NoOne => Legal(call'[k], clients')
  PROVE  CallsType'
BY DEF CallsType, Legal

LEMMA LegalLike ==
  ASSUME NEW c, NEW d, NEW cl, Legal(c, cl), Alike(c, d), d.keptScope \subseteq cl
  PROVE  Legal(d, cl)
BY DEF Legal, Alike

LEMMA FinishType ==
  ASSUME UsersInvType, NEW h \in Handlers, Finish(h), clients' = clients
  PROVE  CallsType'
<1>1. CallsType
  BY DEF UsersInvType
<1>2. /\ call' \in [Handlers -> Call \cup {NoOne}]
      /\ \A k \in Handlers : call'[k] # NoOne => call'[k] = call[k]
  BY <1>1, FinishFacts
<1>. QED BY <1>1, <1>2, CallsNext DEF CallsType

LEMMA OvertakenType == ASSUME NEW h, NEW s, overtaken \in BOOLEAN, NoteOvertaken(h, s)
                       PROVE  overtaken' \in BOOLEAN /\ (overtaken => overtaken')
BY DEF NoteOvertaken

LEMMA ConcludeType ==
  ASSUME NotesType, NEW h \in Handlers, call[h] \in Call, Conclude(h)
  PROVE  word' \in [Accounts -> Wish \cup {NoOne}] /\ marred' \subseteq Accounts
<1>1. call[h].user \in Accounts /\ call[h].wish \in Wish \cup {NoOne}
  BY CallFields
<1>. QED BY <1>1 DEF Conclude, NotesType

LEMMA BeginType ==
  ASSUME UsersInvType, NEW h \in Handlers, NEW op \in Ops, NEW u \in Accounts, NEW w \in Wish \cup {NoOne},
         NEW active \in BOOLEAN, Begin(h, op, u, w, active)
  PROVE  UsersInvType'
<1>1. RowsType /\ CallsType /\ NotesType
  BY DEF UsersInvType
<1>2. UNCHANGED <<status, roles, scope, clients, word, marred>> /\ writes < MaxWrites /\ writes' = writes + 1
  BY DEF Begin
<1>3. /\ call' \in [Handlers -> Call \cup {NoOne}]
      /\ \A k \in Handlers : k # h => call'[k] = call[k]
      /\ call'[h].op = op /\ call'[h].wish = w /\ call'[h].keptScope = {}
  BY <1>1, BeginFacts
<1>11. op = "delete" <=> w = NoOne
  BY DEF Begin
<1>9. call'[h].at \in {"count", "write"} /\ overtaken' \in BOOLEAN
  BY <1>1, BeginNotes
<1>10. /\ dbErrors' \in {dbErrors, dbErrors + 1}
       /\ dbErrors' # dbErrors => dbErrors < MaxDbErrors
  BY <1>1, BeginNotes
<1>4. Legal(call'[h], clients')
  BY <1>3, <1>9, <1>11 DEF Legal
<1>5. \A k \in Handlers : call'[k] # NoOne => Legal(call'[k], clients')
  BY <1>1, <1>2, <1>3, <1>4 DEF CallsType
<1>6. CallsType'
  BY <1>3, <1>5, CallsNext
<1>7. NotesType'
  BY <1>1, <1>2, <1>9, <1>10, UsersAssumption DEF NotesType
<1>8. RowsType'
  BY <1>1, <1>2 DEF RowsType
<1>. QED BY <1>6, <1>7, <1>8, TypeNext

LEMMA CountType ==
  ASSUME UsersInvType, NEW h \in Handlers, Count(h)
  PROVE  UsersInvType'
<1>1. RowsType /\ CallsType /\ NotesType
  BY DEF UsersInvType
<1>2. UNCHANGED <<status, roles, scope, clients, word, marred, overtaken, writes, dbErrors>>
  BY DEF Count
<1>3. RowsType' /\ NotesType'
  BY <1>1, <1>2 DEF RowsType, NotesType
<1>4. CallsType'
  <2>1. CASE Finish(h)
    BY <1>2, <2>1, FinishType
  <2>2. CASE ~Finish(h)
    <3>1. /\ call' \in [Handlers -> Call \cup {NoOne}]
          /\ \A k \in Handlers : k # h => call'[k] = call[k]
          /\ call[h] # NoOne /\ call[h] \in Call /\ call'[h].at = "write"
          /\ call'[h].op = call[h].op /\ call'[h].wish = call[h].wish
          /\ call'[h].keptScope = call[h].keptScope
      BY <1>1, <2>2, CountFacts
    <3>2. Legal(call'[h], clients)
      BY <1>1, <3>1 DEF CallsType, Legal
    <3>. QED BY <1>1, <1>2, <3>1, <3>2, CallsNext DEF CallsType
  <2>. QED BY <2>1, <2>2
<1>. QED BY <1>3, <1>4, TypeNext

LEMMA EnterType ==
  ASSUME UsersInvType, NEW h \in Handlers, Serves(h, "create") \/ Serves(h, "update"), Enter(h),
         UNCHANGED <<roles, scope, clients, word, writes, dbErrors>>,
         NoteOvertaken(h, Supers(status', roles)),
         NEW st \in {"active", "inactive"}, status' = [status EXCEPT ![call[h].user] = st]
  PROVE  UsersInvType'
<1>1. RowsType /\ CallsType /\ NotesType
  BY DEF UsersInvType
<1> DEFINE u == call[h].user
<1>2. call[h] # NoOne /\ call[h].op # "delete"
  BY DEF Serves, At
<1>3. /\ call' \in [Handlers -> Call \cup {NoOne}]
      /\ call[h] \in Call /\ call'[h].at = "role"
      /\ call'[h].op = call[h].op /\ call'[h].wish = call[h].wish
      /\ call'[h].keptScope = call[h].keptScope
      /\ \A k \in Handlers : k # h /\ k \notin Writing(u) => call'[k] = call[k]
      /\ \A k \in Writing(u) : k # h =>
              /\ call[k] # NoOne /\ Alike(call[k], call'[k]) /\ call'[k].keptScope = call[k].keptScope
      /\ marred' \in {marred, marred \cup {u}}
  BY <1>1, <1>2, EnterFacts
<1>4. u \in Accounts
  BY <1>3, CallFields
<1>5. Legal(call'[h], clients)
  BY <1>1, <1>2, <1>3 DEF CallsType, Legal
<1>6. ASSUME NEW k \in Handlers, call'[k] # NoOne, k # h
      PROVE  Legal(call'[k], clients)
  <2>1. CASE k \in Writing(u)
    <3>1. Legal(call[k], clients)
      BY <1>1, <1>3, <1>6, <2>1 DEF CallsType
    <3>. QED BY <1>3, <1>6, <2>1, <3>1, LegalLike DEF Legal
  <2>2. CASE k \notin Writing(u)
    BY <1>1, <1>3, <1>6, <2>2 DEF CallsType
  <2>. QED BY <2>1, <2>2
<1>7. CallsType'
  BY <1>3, <1>5, <1>6, CallsNext
<1>8. NotesType'
  BY <1>1, <1>3, <1>4, OvertakenType DEF NotesType
<1>9. RowsType'
  BY <1>1, <1>4 DEF RowsType
<1>. QED BY <1>7, <1>8, <1>9, TypeNext

LEMMA EndType ==
  ASSUME UsersInvType, NEW h \in Handlers, SoftDelete(h) \/ Refuse(h) \/ ScopeRefused(h) \/ Fail(h)
  PROVE  UsersInvType'
<1>1. RowsType /\ CallsType /\ NotesType
  BY DEF UsersInvType
<1>2. call[h] # NoOne /\ Finish(h) /\ UNCHANGED <<roles, scope, clients, word, writes>>
  BY DEF SoftDelete, Refuse, ScopeRefused, Fail, Serves, At
<1>3. call[h].user \in Accounts
  BY <1>1, <1>2, CallFields DEF CallsType
<1>4. CallsType'
  BY <1>2, FinishType
<1>5. RowsType'
  BY <1>1, <1>2, <1>3 DEF SoftDelete, Refuse, ScopeRefused, Fail, RowsType
<1>6. marred' \in {marred, marred \cup {call[h].user}}
  BY DEF SoftDelete, Refuse, ScopeRefused, Fail
<1>7. overtaken' \in BOOLEAN
  BY <1>1, OvertakenType DEF SoftDelete, Refuse, ScopeRefused, Fail, NotesType
<1>8. dbErrors' = dbErrors \/ (dbErrors < MaxDbErrors /\ dbErrors' = dbErrors + 1)
  BY DEF SoftDelete, Refuse, ScopeRefused, Fail
<1>9. dbErrors' \in 0..MaxDbErrors
  BY <1>1, <1>8, UsersAssumption DEF NotesType
<1>10. NotesType'
  BY <1>1, <1>2, <1>3, <1>6, <1>7, <1>9 DEF NotesType
<1>. QED BY <1>4, <1>5, <1>10, TypeNext

LEMMA SetRoleType ==
  ASSUME UsersInvType, NEW h \in Handlers, SetRole(h)
  PROVE  UsersInvType'
<1>1. RowsType /\ CallsType /\ NotesType
  BY DEF UsersInvType
<1> DEFINE c == call[h]
           last == c.op = "create" /\ c.wish.role # "viewer"
<1>2. UNCHANGED <<status, scope, clients, writes, dbErrors>> /\ NoteOvertaken(h, Supers(status, roles'))
  BY DEF SetRole
<1>3. /\ c # NoOne /\ c \in Call /\ c.wish \in Wish
      /\ call' \in [Handlers -> Call \cup {NoOne}]
      /\ \E kept \in {{}, c.keptRoles} : roles' = [roles EXCEPT ![c.user] = kept \cup {c.wish.role}]
      /\ \A k \in Handlers : k # h /\ k \notin Rivals(h) => call'[k] = call[k]
      /\ \A k \in Rivals(h) : /\ k \in Handlers /\ call[k] # NoOne /\ Alike(call[k], call'[k])
                              /\ call'[k].keptScope = call[k].keptScope
  BY <1>1, RoleFacts
<1>4. /\ last => call'[h] = NoOne /\ Conclude(h)
      /\ ~last => /\ call'[h].op = c.op /\ call'[h].wish = c.wish /\ call'[h].keptScope = c.keptScope
                  /\ UNCHANGED <<word, marred>>
  BY <1>1, RoleFacts
<1>5. c.user \in Accounts /\ c.keptRoles \subseteq Roles /\ c.wish.role \in Roles
  BY <1>3, CallFields, WishFields
<1>6. RowsType'
  BY <1>1, <1>2, <1>3, <1>5 DEF RowsType
<1>7. word' \in [Accounts -> Wish \cup {NoOne}] /\ marred' \subseteq Accounts
  BY <1>1, <1>3, <1>4, ConcludeType DEF NotesType
<1>8. NotesType'
  BY <1>1, <1>2, <1>7, OvertakenType DEF NotesType
<1>9. call'[h] # NoOne => Legal(call'[h], clients)
  <2>1. SUFFICES ASSUME ~last PROVE Legal(call'[h], clients)
    BY <1>4
  <2>2. c.op # "delete" /\ Legal(c, clients)
    BY <1>1, <1>3, UsersAssumption DEF CallsType, Legal
  <2>. QED BY <1>4, <2>1, <2>2 DEF Legal
<1>10. \A k \in Rivals(h) : Legal(call'[k], clients)
  <2>1. \A k \in Rivals(h) : Legal(call[k], clients)
    BY <1>1, <1>3 DEF CallsType
  <2>. QED BY <1>3, <2>1, LegalLike DEF Legal
<1>11. \A k \in Handlers : call'[k] # NoOne => Legal(call'[k], clients)
  BY <1>1, <1>3, <1>9, <1>10 DEF CallsType
<1>12. CallsType'
  BY <1>2, <1>3, <1>11, CallsNext
<1>. QED BY <1>6, <1>8, <1>12, TypeNext

LEMMA SetScopeType ==
  ASSUME UsersInvType, NEW h \in Handlers, SetTenantScope(h)
  PROVE  UsersInvType'
<1>1. RowsType /\ CallsType /\ NotesType
  BY DEF UsersInvType
<1> DEFINE c == call[h]
<1>2. UNCHANGED <<status, roles, clients, overtaken, writes, dbErrors>> /\ Conclude(h)
  BY DEF SetTenantScope
<1>3. /\ c # NoOne /\ c \in Call /\ c.wish \in Wish /\ c.wish.scope \subseteq clients
      /\ call' \in [Handlers -> Call \cup {NoOne}] /\ call'[h] = NoOne
      /\ \E kept \in {{}, c.keptScope} : scope' = [scope EXCEPT ![c.user] = kept \cup c.wish.scope]
      /\ \A k \in Handlers : k # h /\ k \notin Rivals(h) => call'[k] = call[k]
      /\ \A k \in Rivals(h) : /\ k \in Handlers /\ call[k] # NoOne /\ Alike(call[k], call'[k])
                              /\ call'[k].keptScope = call[k].keptScope \cup c.wish.scope
  BY <1>1, ScopeFacts
<1>4. c.user \in Accounts /\ c.keptScope \subseteq clients
  BY <1>1, <1>3, CallFields DEF CallsType, Legal
<1>5. RowsType'
  BY <1>1, <1>2, <1>3, <1>4 DEF RowsType
<1>6. NotesType'
  BY <1>1, <1>2, <1>3, ConcludeType DEF NotesType
<1>7. \A k \in Rivals(h) : Legal(call'[k], clients)
  <2>1. \A k \in Rivals(h) : Legal(call[k], clients)
    BY <1>1, <1>3 DEF CallsType
  <2>2. \A k \in Rivals(h) : call'[k].keptScope \subseteq clients
    BY <1>3, <2>1 DEF Legal
  <2>. QED BY <1>3, <2>1, <2>2, LegalLike
<1>8. \A k \in Handlers : call'[k] # NoOne => Legal(call'[k], clients)
  BY <1>1, <1>3, <1>7 DEF CallsType
<1>9. CallsType'
  BY <1>2, <1>3, <1>8, CallsNext
<1>. QED BY <1>5, <1>6, <1>9, TypeNext

LEMMA DeleteClientType ==
  ASSUME UsersInvType, NEW t \in Clients, DeleteClient(t)
  PROVE  UsersInvType'
<1>1. RowsType /\ CallsType /\ NotesType
  BY DEF UsersInvType
<1>2. /\ clients' = clients \ {t} /\ scope' = [u \in Accounts |-> scope[u] \ {t}]
      /\ writes < MaxWrites /\ writes' = writes + 1
      /\ marred' = marred \cup {u \in Accounts : t \in scope[u]}
      /\ UNCHANGED <<status, roles, word, overtaken, dbErrors>>
  BY DEF DeleteClient
<1>3. RowsType'
  BY <1>1, <1>2 DEF RowsType
<1>4. NotesType'
  BY <1>1, <1>2, UsersAssumption DEF NotesType
<1>5. ASSUME NEW k \in Handlers, call'[k] # NoOne
      PROVE  Legal(call'[k], clients')
  <2>1. /\ call[k] # NoOne /\ Alike(call[k], call'[k]) /\ call'[k].keptScope = call[k].keptScope \ {t}
    BY <1>1, <1>5, ClientFacts
  <2>2. Legal(call[k], clients)
    BY <1>1, <2>1 DEF CallsType
  <2>. QED BY <1>2, <2>1, <2>2 DEF Legal, Alike
<1>6. CallsType'
  BY <1>1, <1>5, ClientFacts, CallsNext
<1>. QED BY <1>3, <1>4, <1>6, TypeNext

LEMMA UsersStepType ==
  ASSUME UsersInvType, [UsersNext]_usersVars
  PROVE  UsersInvType'
<1>1. CASE UNCHANGED usersVars
  BY <1>1 DEF usersVars, UsersInvType, RowsType, CallsType, NotesType, Legal
<1>2. ASSUME NEW h \in Handlers, InsertUser(h)
      PROVE  UsersInvType'
  BY <1>2, EnterType DEF InsertUser
<1>3. ASSUME NEW h \in Handlers, UpdateUser(h)
      PROVE  UsersInvType'
  <2>1. PICK st \in {"active", "inactive"} : status' = [status EXCEPT ![call[h].user] = st]
    BY <1>3 DEF UpdateUser
  <2>. QED BY <1>3, <2>1, EnterType DEF UpdateUser
<1>. QED BY <1>1, <1>2, <1>3, BeginType, CountType, EndType, SetRoleType, SetScopeType, DeleteClientType
         DEF UsersNext

LEMMA UsersInitType == UsersInit => UsersInvType
<1>. SUFFICES ASSUME UsersInit PROVE UsersInvType
  OBVIOUS
<1>1. /\ clients = Clients /\ status \in [Accounts -> {"none", "active"}]
      /\ word \in [Accounts -> Wish \cup {NoOne}]
      /\ roles = [u \in Accounts |-> IF word[u] = NoOne THEN {} ELSE {word[u].role}]
      /\ scope = [u \in Accounts |-> IF word[u] = NoOne THEN {} ELSE word[u].scope]
  BY DEF UsersInit
<1>2. \A u \in Accounts : word[u] # NoOne => word[u].role \in Roles /\ word[u].scope \in SUBSET Clients
  BY <1>1, WishFields
<1>3. RowsType
  BY <1>1, <1>2 DEF RowsType
<1>4. CallsType
  BY DEF UsersInit, CallsType
<1>5. overtaken \in BOOLEAN
  BY DEF UsersInit
<1>6. NotesType
  BY <1>1, <1>5, UsersAssumption DEF UsersInit, NotesType
<1>. QED BY <1>3, <1>4, <1>6 DEF UsersInvType

\* The state keeps its kinds, with any number of handlers and of failures: above
\* all no scope names a tenant that has been deleted.
THEOREM UsersTypeCorrect == UsersSpec => []UsersTypeOK
BY UsersInitType, UsersStepType, TypeFollows, PTL DEF UsersSpec
-----------------------------------------------------------------------------
\* A superadmin is left.

\* The superadmins there are, and those there will be.
Tops == Supers(status, roles)

\* What h may still take away leaves another superadmin.
Guarded(h) ==
  (/\ call[h] # NoOne /\ call[h].at \in {"write", "role"}
   /\ ~Stays(call[h].op, call[h].wish, call[h].active))
  => \E v \in Tops : v # call[h].user

SuperInv == overtaken \/ (Tops # {} /\ \A h \in Handlers : Guarded(h))

\* What the guard asks for: more than one superadmin, so one besides the target.
LEMMA AnotherOne ==
  ASSUME NEW S, IsFiniteSet(S), ~(Cardinality(S) <= 1), NEW u
  PROVE  \E v \in S : v # u
<1>1. SUFFICES ASSUME \A v \in S : v = u PROVE FALSE
  OBVIOUS
<1>2. S = {} \/ S = {u}
  BY <1>1
<1>3. Cardinality({}) = 0 /\ Cardinality({u}) = 1
  BY FS_EmptySet, FS_Singleton
<1>. QED BY <1>2, <1>3

LEMMA TopsAre == ActiveWith("superadmin") = Tops
BY DEF ActiveWith, Tops, Supers

\* A handler that reads, or that is not past its guard, harms nobody.
LEMMA SuperQuiet ==
  ASSUME SuperInv, UNCHANGED <<status, roles>>, overtaken => overtaken',
         \A k \in Handlers : (call'[k] # NoOne /\ call'[k].at \in {"write", "role"}) =>
           /\ call[k] # NoOne /\ call[k].at \in {"write", "role"}
           /\ call'[k].op = call[k].op /\ call'[k].user = call[k].user
           /\ call'[k].wish = call[k].wish /\ call'[k].active = call[k].active
  PROVE  SuperInv'
<1>1. Tops' = Tops
  BY DEF Tops, Supers
<1>2. ASSUME NEW k \in Handlers, Guarded(k)
      PROVE  Guarded(k)'
  BY <1>1, <1>2 DEF Guarded, Stays
<1>. QED BY <1>1, <1>2 DEF SuperInv

\* A write of h past its guard.
LEMMA SuperWrite ==
  ASSUME SuperInv, NEW h \in Handlers, call[h] # NoOne, call[h].at \in {"write", "role"},
         overtaken => overtaken',
         overtaken' \/ Tops \subseteq Tops' \/ PastGuard \ {h} = {},
         \A v \in Accounts \ {call[h].user} : status'[v] = status[v] /\ roles'[v] = roles[v],
         Stays(call[h].op, call[h].wish, call[h].active) => Tops \subseteq Tops',
         \A k \in Handlers : call'[k] # NoOne =>
           /\ call[k] # NoOne
           /\ call'[k].op = call[k].op /\ call'[k].user = call[k].user
           /\ call'[k].wish = call[k].wish /\ call'[k].active = call[k].active
           /\ k # h => call'[k].at = call[k].at
  PROVE  SuperInv'
<1>1. SUFFICES ASSUME ~overtaken' PROVE Tops' # {} /\ \A k \in Handlers : Guarded(k)'
  BY DEF SuperInv
<1>2. Tops # {} /\ \A k \in Handlers : Guarded(k)
  BY <1>1 DEF SuperInv
<1>3. \A v \in Tops : v # call[h].user => v \in Tops'
  BY DEF Tops, Supers
<1>4. Tops \subseteq Tops' \/ \E v \in Tops : v # call[h].user
  BY <1>2 DEF Guarded
<1>5. Tops' # {}
  BY <1>2, <1>3, <1>4
<1>6. Guarded(h)'
  BY <1>2, <1>3 DEF Guarded, Stays
<1>7. ASSUME NEW k \in Handlers, k # h
      PROVE  Guarded(k)'
  <2>1. CASE Tops \subseteq Tops'
    BY <1>2, <1>7, <2>1 DEF Guarded, Stays
  <2>2. CASE PastGuard \ {h} = {}
    BY <1>7, <2>2 DEF Guarded, PastGuard
  <2>. QED BY <1>1, <2>1, <2>2
<1>. QED BY <1>5, <1>6, <1>7

LEMMA BeginSuper ==
  ASSUME UsersInvType, SuperInv, NEW h \in Handlers, NEW op \in Ops, NEW u \in Accounts,
         NEW w \in Wish \cup {NoOne}, NEW active \in BOOLEAN, Begin(h, op, u, w, active)
  PROVE  SuperInv'
<1>1. CallsType /\ UNCHANGED <<status, roles>>
  BY DEF UsersInvType, Begin
<1>2. /\ call'[h].op = op /\ call'[h].user = u /\ call'[h].wish = w
      /\ \A k \in Handlers : k # h => call'[k] = call[k]
  BY <1>1, BeginFacts
<1>3. /\ call'[h].active = active /\ (op = "create" => status[u] = "none") /\ (overtaken => overtaken')
      /\ \/ call'[h].at = "count"
         \/ call'[h].at = "write" /\ overtaken'
         \/ /\ call'[h].at = "write"
            /\ \/ op = "create" \/ u \notin Existing \/ "superadmin" \notin roles[u]
               \/ Stays(op, w, active)
  BY <1>1, BeginNotes
<1>4. SUFFICES ASSUME ~overtaken' PROVE Tops' # {} /\ \A k \in Handlers : Guarded(k)'
  BY DEF SuperInv
<1>5. Tops' = Tops
  BY <1>1 DEF Tops, Supers
<1>6. Tops # {} /\ \A k \in Handlers : Guarded(k)
  BY <1>3, <1>4 DEF SuperInv
<1>7. ASSUME NEW k \in Handlers, k # h
      PROVE  Guarded(k)'
  BY <1>2, <1>5, <1>6, <1>7 DEF Guarded
<1>8. Guarded(h)'
  <2>1. SUFFICES ASSUME call'[h].at = "write", ~Stays(op, w, active) PROVE \E v \in Tops : v # u
    BY <1>2, <1>3, <1>4, <1>5 DEF Guarded
  <2>2. op = "create" \/ u \notin Existing \/ "superadmin" \notin roles[u]
    BY <1>3, <1>4, <2>1
  <2>3. u \notin Tops
    BY <1>3, <2>2 DEF Tops, Supers, Existing
  <2>. QED BY <1>6, <2>3
<1>. QED BY <1>5, <1>6, <1>7, <1>8

LEMMA CountSuper ==
  ASSUME UsersInvType, SuperInv, NEW h \in Handlers, Count(h)
  PROVE  SuperInv'
<1>1. CallsType /\ UNCHANGED <<status, roles, overtaken>>
  BY DEF UsersInvType, Count
<1>2. CASE Finish(h)
  <2>1. call'[h] = NoOne /\ \A k \in Handlers : k # h => call'[k] = call[k]
    BY <1>1, <1>2, FinishFacts
  <2>. QED BY <1>1, <2>1, SuperQuiet
<1>3. CASE ~Finish(h)
  <2>1. /\ ~(Cardinality(ActiveWith("superadmin")) <= 1)
        /\ \A k \in Handlers : k # h => call'[k] = call[k]
        /\ call'[h].user = call[h].user
    BY <1>1, <1>3, CountFacts
  <2>2. IsFiniteSet(Tops)
    BY FS_Subset, UsersAssumption DEF Tops, Supers
  <2>3. Tops' = Tops
    BY <1>1 DEF Tops, Supers
  <2>4. \A u : \E v \in Tops : v # u
    BY <2>1, <2>2, TopsAre, AnotherOne
  <2>5. Guarded(h)'
    BY <2>3, <2>4 DEF Guarded
  <2>6. \A k \in Handlers : k # h => (Guarded(k) => Guarded(k)')
    BY <2>1, <2>3 DEF Guarded
  <2>. QED BY <1>1, <2>3, <2>5, <2>6 DEF SuperInv
<1>. QED BY <1>2, <1>3
LEMMA NotedLoss ==
  ASSUME NEW h, NoteOvertaken(h, Tops')
  PROVE  overtaken' \/ Tops \subseteq Tops' \/ PastGuard \ {h} = {}
BY TopsAre DEF NoteOvertaken

LEMMA EnterSuper ==
  ASSUME UsersInvType, SuperInv, NEW h \in Handlers, Serves(h, "create") \/ Serves(h, "update"), Enter(h),
         roles' = roles, NoteOvertaken(h, Supers(status', roles)),
         NEW st, status' = [status EXCEPT ![call[h].user] = st],
         st = "active" \/ (Serves(h, "update") /\ ~call[h].active)
  PROVE  SuperInv'
<1>1. CallsType /\ RowsType /\ overtaken \in BOOLEAN
  BY DEF UsersInvType, NotesType
<1> DEFINE u == call[h].user
<1>2. call[h] # NoOne /\ call[h].at = "write"
  BY DEF Serves, At
<1>3. /\ call'[h].op = call[h].op /\ call'[h].user = u
      /\ call'[h].wish = call[h].wish /\ call'[h].active = call[h].active
      /\ \A k \in Handlers : k # h /\ k \notin Writing(u) => call'[k] = call[k]
      /\ \A k \in Writing(u) : k # h => call[k] # NoOne /\ Alike(call[k], call'[k])
  BY <1>1, <1>2, EnterFacts
<1>4. \A k \in Handlers : call'[k] # NoOne =>
           /\ call[k] # NoOne
           /\ call'[k].op = call[k].op /\ call'[k].user = call[k].user
           /\ call'[k].wish = call[k].wish /\ call'[k].active = call[k].active
           /\ k # h => call'[k].at = call[k].at
  <2>1. \A k \in Handlers : k # h /\ call'[k] # NoOne => call[k] # NoOne /\ Alike(call[k], call'[k])
    BY <1>3 DEF Alike
  <2>. QED BY <1>2, <1>3, <2>1 DEF Alike
<1>5. NoteOvertaken(h, Tops')
  BY DEF Tops
<1>6. overtaken' \/ Tops \subseteq Tops' \/ PastGuard \ {h} = {}
  BY <1>5, NotedLoss
<1>7. overtaken => overtaken'
  BY <1>1, <1>5, OvertakenType
<1>8. \A v \in Accounts \ {u} : status'[v] = status[v] /\ roles'[v] = roles[v]
  BY <1>1 DEF RowsType
<1>9. Stays(call[h].op, call[h].wish, call[h].active) => Tops \subseteq Tops'
  <2>1. SUFFICES ASSUME call[h].active PROVE Tops \subseteq Tops'
    BY DEF Stays
  <2>2. st = "active"
    BY <2>1
  <2>. QED BY <1>1, <2>2 DEF Tops, Supers, RowsType
<1>. QED BY <1>2, <1>4, <1>6, <1>7, <1>8, <1>9, SuperWrite

LEMMA DeleteSuper ==
  ASSUME UsersInvType, SuperInv, NEW h \in Handlers, SoftDelete(h)
  PROVE  SuperInv'
<1>1. CallsType /\ RowsType /\ overtaken \in BOOLEAN
  BY DEF UsersInvType, NotesType
<1>2. /\ call[h] # NoOne /\ call[h].at = "write" /\ call[h].op = "delete" /\ Finish(h) /\ roles' = roles
      /\ status' = [status EXCEPT ![call[h].user] = "deleted"]
  BY DEF SoftDelete, Serves, At
<1>3. call'[h] = NoOne /\ \A k \in Handlers : k # h => call'[k] = call[k]
  BY <1>1, <1>2, FinishFacts
<1>4. NoteOvertaken(h, Tops')
  BY <1>2 DEF SoftDelete, Tops
<1>5. overtaken' \/ Tops \subseteq Tops' \/ PastGuard \ {h} = {}
  BY <1>4, NotedLoss
<1>6. overtaken => overtaken'
  BY <1>1, <1>4, OvertakenType
<1>7. \A v \in Accounts \ {call[h].user} : status'[v] = status[v] /\ roles'[v] = roles[v]
  BY <1>1, <1>2 DEF RowsType
<1>8. ~Stays(call[h].op, call[h].wish, call[h].active)
  BY <1>2 DEF Stays
<1>. QED BY <1>2, <1>3, <1>5, <1>6, <1>7, <1>8, SuperWrite

LEMMA SetRoleSuper ==
  ASSUME UsersInvType, SuperInv, NEW h \in Handlers, SetRole(h)
  PROVE  SuperInv'
<1>1. CallsType /\ RowsType /\ overtaken \in BOOLEAN
  BY DEF UsersInvType, NotesType
<1> DEFINE c == call[h]
           last == c.op = "create" /\ c.wish.role # "viewer"
<1>2. /\ c # NoOne /\ c.at = "role" /\ c.wish \in Wish /\ c \in Call
      /\ \E kept \in {{}, c.keptRoles} : roles' = [roles EXCEPT ![c.user] = kept \cup {c.wish.role}]
      /\ last => call'[h] = NoOne
      /\ ~last => /\ call'[h].op = c.op /\ call'[h].user = c.user
                  /\ call'[h].wish = c.wish /\ call'[h].active = c.active
      /\ \A k \in Handlers : k # h /\ k \notin Rivals(h) => call'[k] = call[k]
      /\ \A k \in Rivals(h) : call[k] # NoOne /\ Alike(call[k], call'[k])
  BY <1>1, RoleFacts
<1>3. \A k \in Handlers : call'[k] # NoOne =>
           /\ call[k] # NoOne
           /\ call'[k].op = call[k].op /\ call'[k].user = call[k].user
           /\ call'[k].wish = call[k].wish /\ call'[k].active = call[k].active
           /\ k # h => call'[k].at = call[k].at
  <2>1. \A k \in Handlers : k # h /\ call'[k] # NoOne => call[k] # NoOne /\ Alike(call[k], call'[k])
    BY <1>2 DEF Alike
  <2>. QED BY <1>2, <2>1 DEF Alike
<1>4. status' = status
  BY DEF SetRole
<1>5. NoteOvertaken(h, Tops')
  BY <1>4 DEF SetRole, Tops
<1>6. overtaken' \/ Tops \subseteq Tops' \/ PastGuard \ {h} = {}
  BY <1>5, NotedLoss
<1>7. overtaken => overtaken'
  BY <1>1, <1>5, OvertakenType
<1>8. \A v \in Accounts \ {c.user} : status'[v] = status[v] /\ roles'[v] = roles[v]
  BY <1>1, <1>2, <1>4 DEF RowsType
<1>9. Stays(c.op, c.wish, c.active) => Tops \subseteq Tops'
  <2>1. SUFFICES ASSUME c.wish.role = "superadmin" PROVE Tops \subseteq Tops'
    BY DEF Stays
  <2>2. c.user \in Accounts
    BY <1>2, CallFields
  <2>3. "superadmin" \in roles'[c.user]
    BY <1>1, <1>2, <2>1, <2>2 DEF RowsType
  <2>. QED BY <1>4, <1>8, <2>3 DEF Tops, Supers
<1>. QED BY <1>2, <1>3, <1>6, <1>7, <1>8, <1>9, SuperWrite

LEMMA UsersStepSuper ==
  ASSUME UsersInvType, SuperInv, [UsersNext]_usersVars
  PROVE  SuperInv'
<1>1. CallsType
  BY DEF UsersInvType
<1>2. ASSUME NEW h \in Handlers, InsertUser(h)
      PROVE  SuperInv'
  BY <1>2, EnterSuper DEF InsertUser
<1>3. ASSUME NEW h \in Handlers, UpdateUser(h)
      PROVE  SuperInv'
  <2>1. PICK st : /\ status' = [status EXCEPT ![call[h].user] = st]
                  /\ st = "active" \/ ~call[h].active
    BY <1>3 DEF UpdateUser
  <2>2. Serves(h, "update") /\ Enter(h) /\ roles' = roles /\ NoteOvertaken(h, Supers(status', roles))
    BY <1>3 DEF UpdateUser
  <2>. QED BY <2>1, <2>2, EnterSuper
<1>4. ASSUME NEW h \in Handlers, Refuse(h) \/ ScopeRefused(h) \/ Fail(h)
      PROVE  SuperInv'
  <2>1. Finish(h) /\ UNCHANGED <<status, roles, overtaken>>
    BY <1>4 DEF Refuse, ScopeRefused, Fail
  <2>2. call'[h] = NoOne /\ \A k \in Handlers : k # h => call'[k] = call[k]
    BY <1>1, <2>1, FinishFacts
  <2>. QED BY <2>1, <2>2, SuperQuiet
<1>5. ASSUME NEW h \in Handlers, SetTenantScope(h)
      PROVE  SuperInv'
  <2>1. UNCHANGED <<status, roles, overtaken>>
    BY <1>5 DEF SetTenantScope
  <2>2. /\ call'[h] = NoOne
        /\ \A k \in Handlers : k # h /\ k \notin Rivals(h) => call'[k] = call[k]
        /\ \A k \in Rivals(h) : call[k] # NoOne /\ Alike(call[k], call'[k])
    BY <1>1, <1>5, ScopeFacts
  <2>3. \A k \in Handlers : call'[k] # NoOne => call[k] # NoOne /\ Alike(call[k], call'[k])
    BY <2>2 DEF Alike
  <2>. QED BY <2>1, <2>3, SuperQuiet DEF Alike
<1>6. ASSUME NEW t \in Clients, DeleteClient(t)
      PROVE  SuperInv'
  <2>1. UNCHANGED <<status, roles, overtaken>>
    BY <1>6 DEF DeleteClient
  <2>2. \A k \in Handlers : call'[k] # NoOne => call[k] # NoOne /\ Alike(call[k], call'[k])
    BY <1>1, <1>6, ClientFacts
  <2>. QED BY <2>1, <2>2, SuperQuiet DEF Alike
<1>7. CASE UNCHANGED usersVars
  BY <1>7, SuperQuiet DEF usersVars
<1>. QED BY <1>2, <1>3, <1>4, <1>5, <1>6, <1>7, BeginSuper, CountSuper, DeleteSuper, SetRoleSuper DEF UsersNext

LEMMA UsersInitSuper == UsersInit => SuperInv
<1>. SUFFICES ASSUME UsersInit PROVE Tops # {} /\ \A h \in Handlers : Guarded(h)
  BY DEF SuperInv
<1>1. PICK u \in Accounts : roles[u] = {"superadmin"}
  BY DEF UsersInit
<1>2. status[u] = "active"
  BY <1>1 DEF UsersInit
<1>3. u \in Tops
  BY <1>1, <1>2 DEF Tops, Supers
<1>4. \A h \in Handlers : call[h] = NoOne
  BY DEF UsersInit
<1>. QED BY <1>3, <1>4 DEF Guarded

LEMMA SuperFollows == SuperInv => SuperadminLeft
BY TopsAre DEF SuperInv, SuperadminLeft

\* For any number of users and of requests at once, an active superadmin is left
\* -- unless one was lost behind another request's guard, or a guard was skipped:
\* what is past its guard and may still take a superadmin away leaves another.
THEOREM SuperadminCorrect == UsersSpec => []SuperadminLeft
BY UsersInitType, UsersStepType, UsersInitSuper, UsersStepSuper, SuperFollows, PTL DEF UsersSpec
-----------------------------------------------------------------------------
\* Edits end in what one administrator asked for.

\* A handler that writes alone writes over nobody, and its role stands while it
\* writes its tenant; one that does not has marred the user.
HandlerInv(k) ==
  call[k] # NoOne =>
    /\ call[k].at \in {"count", "write"} => call[k].keptRoles = {} /\ call[k].keptScope = {}
    /\ call[k].at \in {"role", "scope"} =>
         /\ status[call[k].user] # "none"
         /\ ~call[k].alone => call[k].user \in marred
         /\ call[k].alone =>
              /\ Writing(call[k].user) = {k}
              /\ call[k].keptRoles = {} /\ call[k].keptScope = {}
              /\ call[k].at = "scope" => roles[call[k].user] = {call[k].wish.role}
              /\ call[k].at = "role" /\ call[k].op = "create" => scope[call[k].user] = {}

RowInv(u) ==
  /\ status[u] = "none" => roles[u] = {} /\ scope[u] = {}
  /\ u \notin marred /\ word[u] # NoOne =>
       /\ scope[u] = word[u].scope
       /\ (\A h \in Writing(u) : call[h].at = "role") => roles[u] = {word[u].role}

WordInv == (\A k \in Handlers : HandlerInv(k)) /\ (\A u \in Accounts : RowInv(u))

Past(c) == c # NoOne /\ c.at \in {"role", "scope"}

LEMMA WritingAre ==
  ASSUME NEW u
  PROVE  /\ \A k : k \in Writing(u) <=> k \in Handlers /\ Past(call[k]) /\ call[k].user = u
         /\ \A k : k \in Writing(u)' <=> k \in Handlers /\ Past(call'[k]) /\ call'[k].user = u
BY DEF Writing, Past

LEMMA TwoAreNotAlone ==
  ASSUME WordInv, NEW u, NEW h \in Writing(u), NEW k \in Writing(u), k # h
  PROVE  ~call[k].alone /\ ~call[h].alone /\ u \in marred
<1>1. /\ h \in Handlers /\ Past(call[h]) /\ call[h].user = u
      /\ k \in Handlers /\ Past(call[k]) /\ call[k].user = u
  BY WritingAre
<1>2. HandlerInv(h) /\ HandlerInv(k)
  BY <1>1 DEF WordInv
<1>3. Writing(call[h].user) = Writing(u) /\ Writing(call[k].user) = Writing(u)
  BY <1>1
<1>4. Writing(u) # {h} /\ Writing(u) # {k}
  OBVIOUS
<1>. QED BY <1>1, <1>2, <1>3, <1>4 DEF HandlerInv, Past

\* A step of h that concerns the user u alone.
Focus(h, u) ==
  /\ call'[h] = NoOne \/ (call'[h] # NoOne /\ call'[h].user = u)
  /\ \A k \in Handlers : k # h /\ k \notin Writing(u) => call'[k] = call[k]
  /\ \A k \in Writing(u) : k # h => call'[k] # NoOne /\ Alike(call[k], call'[k])

LEMMA WritingFocus ==
  ASSUME NEW h \in Handlers, NEW u, call[h] # NoOne, call[h].user = u, Focus(h, u)
  PROVE  /\ \A v : v # u => Writing(v)' = Writing(v)
         /\ Writing(u)' = (Writing(u) \ {h}) \cup (IF Past(call'[h]) THEN {h} ELSE {})
<1>1. \A v : \A k \in Handlers : k # h => (k \in Writing(v)' <=> k \in Writing(v))
  BY WritingAre DEF Focus, Alike, Past
<1>2. \A v : v # u => h \notin Writing(v) /\ h \notin Writing(v)'
  BY WritingAre DEF Focus, Past
<1>3. h \in Writing(u)' <=> Past(call'[h])
  BY WritingAre DEF Focus, Past
<1>4. \A v : Writing(v) \subseteq Handlers /\ Writing(v)' \subseteq Handlers
  BY WritingAre
<1>5. ASSUME NEW v, v # u
      PROVE  Writing(v)' = Writing(v)
  BY <1>1, <1>2, <1>4, <1>5
<1>6. Writing(u)' = (Writing(u) \ {h}) \cup (IF Past(call'[h]) THEN {h} ELSE {})
  BY <1>1, <1>3, <1>4
<1>. QED BY <1>5, <1>6

\* What is left to show of such a step: that h and u come out right.
LEMMA WordFocus ==
  ASSUME UsersInvType, WordInv, NEW h \in Handlers, NEW u \in Accounts,
         call[h] # NoOne, call[h].user = u, Focus(h, u),
         \A k \in Writing(u) : k # h => ~call'[k].alone /\ u \in marred',
         \A v \in Accounts \ {u} :
           /\ status'[v] = status[v] /\ roles'[v] = roles[v] /\ scope'[v] = scope[v]
           /\ word'[v] = word[v] /\ (v \in marred' <=> v \in marred),
         status'[u] # "none", HandlerInv(h)', RowInv(u)'
  PROVE  WordInv'
<1>1. \A v : v # u => Writing(v)' = Writing(v)
  BY WritingFocus
<1>2. ASSUME NEW k \in Handlers, k # h
      PROVE  HandlerInv(k)'
  <2>1. CASE k \in Writing(u)
    BY <1>2, <2>1, WritingAre DEF Focus, HandlerInv, Past, Alike
  <2>2. CASE k \notin Writing(u) /\ call[k] # NoOne
    <3>1. call'[k] = call[k] /\ HandlerInv(k)
      BY <1>2, <2>2 DEF Focus, WordInv
    <3>2. call[k].user \in Accounts
      BY <2>2, CallFields DEF UsersInvType, CallsType
    <3>3. CASE ~Past(call[k])
      BY <3>1, <3>3, <3>2 DEF HandlerInv, Past
    <3>4. CASE Past(call[k])
      <4>1. PICK v \in Accounts : v = call[k].user
        BY <3>2
      <4>2. v # u
        BY <2>2, <3>4, <4>1, WritingAre
      <4>3. /\ status'[v] = status[v] /\ roles'[v] = roles[v] /\ scope'[v] = scope[v]
            /\ (v \in marred' <=> v \in marred) /\ Writing(v)' = Writing(v)
        BY <1>1, <4>2
      <4>4. call'[k].user = v /\ call[k].user = v /\ call'[k] = call[k]
        BY <3>1, <4>1
      <4>. QED BY <3>1, <3>4, <4>3, <4>4 DEF HandlerInv, Past
    <3>. QED BY <3>3, <3>4
  <2>3. CASE k \notin Writing(u) /\ call[k] = NoOne
    BY <1>2, <2>3 DEF Focus, HandlerInv
  <2>. QED BY <2>1, <2>2, <2>3
<1>3. ASSUME NEW v \in Accounts, v # u
      PROVE  RowInv(v)'
  <2>1. Writing(v)' = Writing(v) /\ \A k \in Writing(v) : call'[k] = call[k]
    <3>1. \A k \in Writing(v) : k \in Handlers /\ k # h /\ k \notin Writing(u)
      BY <1>3, WritingAre
    <3>. QED BY <1>1, <1>3, <3>1 DEF Focus
  <2>2. RowInv(v)
    BY DEF WordInv
  <2>. QED BY <1>3, <2>1, <2>2 DEF RowInv
<1>. QED BY <1>2, <1>3 DEF WordInv
\* A step of h before its handler writes rows that the others know of.
LEMMA WordQuiet ==
  ASSUME UsersInvType, WordInv, NEW h \in Handlers, ~Past(call[h]), ~Past(call'[h]),
         call'[h] # NoOne => call'[h].keptRoles = {} /\ call'[h].keptScope = {},
         \A k \in Handlers : k # h => call'[k] = call[k],
         \A v \in Accounts : status'[v] = "none" => status[v] = "none",
         UNCHANGED <<roles, scope, word, marred>>
  PROVE  WordInv'
<1>1. \A v : Writing(v)' = Writing(v)
  <2>1. \A v : \A k : k \in Writing(v)' <=> k \in Writing(v)
    BY WritingAre DEF Past
  <2>. QED BY <2>1, WritingAre
<1>2. ASSUME NEW k \in Handlers
      PROVE  HandlerInv(k)'
  <2>1. CASE k = h
    BY <2>1 DEF HandlerInv, Past
  <2>2. CASE k # h /\ call[k] # NoOne
    <3>1. call'[k] = call[k] /\ HandlerInv(k)
      BY <2>2 DEF WordInv
    <3>2. PICK v \in Accounts : v = call[k].user
      BY <2>2, CallFields DEF UsersInvType, CallsType
    <3>3. Writing(v)' = Writing(v) /\ (status'[v] = "none" => status[v] = "none")
      BY <1>1
    <3>4. call'[k].user = v /\ call[k].user = v
      BY <3>1, <3>2
    <3>. QED BY <3>1, <3>3, <3>4 DEF HandlerInv
  <2>3. CASE k # h /\ call[k] = NoOne
    BY <2>3 DEF HandlerInv
  <2>. QED BY <2>1, <2>2, <2>3
<1>3. ASSUME NEW v \in Accounts
      PROVE  RowInv(v)'
  <2>1. \A k \in Writing(v) : call'[k] = call[k]
    BY WritingAre
  <2>2. RowInv(v) /\ Writing(v)' = Writing(v)
    BY <1>1 DEF WordInv
  <2>. QED BY <2>1, <2>2 DEF RowInv
<1>. QED BY <1>2, <1>3 DEF WordInv

LEMMA BeginWord ==
  ASSUME UsersInvType, WordInv, NEW h \in Handlers, NEW op \in Ops, NEW u \in Accounts,
         NEW w \in Wish \cup {NoOne}, NEW active \in BOOLEAN, Begin(h, op, u, w, active)
  PROVE  WordInv'
<1>1. CallsType /\ UNCHANGED <<status, roles, scope, word, marred>>
  BY DEF UsersInvType, Begin
<1>2. /\ call[h] = NoOne /\ call'[h].keptRoles = {} /\ call'[h].keptScope = {}
      /\ \A k \in Handlers : k # h => call'[k] = call[k]
  BY <1>1, BeginFacts
<1>3. call'[h].at \in {"count", "write"}
  BY <1>1, BeginNotes
<1>4. ~Past(call[h]) /\ ~Past(call'[h])
  BY <1>2, <1>3 DEF Past
<1>. QED BY <1>1, <1>2, <1>4, WordQuiet

LEMMA CountWord ==
  ASSUME UsersInvType, WordInv, NEW h \in Handlers, Count(h)
  PROVE  WordInv'
<1>1. CallsType /\ UNCHANGED <<status, roles, scope, word, marred>>
  BY DEF UsersInvType, Count
<1>2. call[h] # NoOne /\ call[h].at = "count" /\ call[h].keptRoles = {} /\ call[h].keptScope = {}
  BY DEF Count, WordInv, HandlerInv
<1>3. /\ \A k \in Handlers : k # h => call'[k] = call[k]
      /\ \/ call'[h] = NoOne
         \/ /\ call'[h].at = "write"
            /\ call'[h].keptRoles = call[h].keptRoles /\ call'[h].keptScope = call[h].keptScope
  BY <1>1, CountFacts, FinishFacts
<1>4. ~Past(call[h]) /\ ~Past(call'[h])
  BY <1>2, <1>3 DEF Past
<1>5. call'[h] # NoOne => call'[h].keptRoles = {} /\ call'[h].keptScope = {}
  BY <1>2, <1>3
<1>. QED BY <1>1, <1>3, <1>4, <1>5, WordQuiet

\* A handler that ends before it has written roles or tenants.
LEMMA QuitWord ==
  ASSUME UsersInvType, WordInv, NEW h \in Handlers,
         SoftDelete(h) \/ Refuse(h) \/ (Fail(h) /\ ~Past(call[h]))
  PROVE  WordInv'
<1>1. CallsType /\ RowsType
  BY DEF UsersInvType
<1>2. call[h] # NoOne /\ ~Past(call[h]) /\ Finish(h) /\ UNCHANGED <<roles, scope, word, marred>>
  BY DEF SoftDelete, Refuse, Fail, Serves, At, Past
<1>3. call'[h] = NoOne /\ \A k \in Handlers : k # h => call'[k] = call[k]
  BY <1>1, <1>2, FinishFacts
<1>4. \A v \in Accounts : status'[v] = "none" => status[v] = "none"
  BY <1>1 DEF SoftDelete, Refuse, Fail, RowsType
<1>5. ~Past(call'[h])
  BY <1>3 DEF Past
<1>. QED BY <1>2, <1>3, <1>4, <1>5, WordQuiet

LEMMA EnterWord ==
  ASSUME UsersInvType, WordInv, NEW h \in Handlers, Serves(h, "create") \/ Serves(h, "update"), Enter(h),
         UNCHANGED <<roles, scope, word>>,
         Serves(h, "create") => status[call[h].user] = "none",
         NEW st \in {"active", "inactive"}, status' = [status EXCEPT ![call[h].user] = st]
  PROVE  WordInv'
<1>1. CallsType /\ RowsType
  BY DEF UsersInvType
<1>2. call[h] # NoOne /\ call[h].at = "write" /\ (call[h].op = "create" => Serves(h, "create"))
  BY DEF Serves, At
<1>3. PICK u \in Accounts : u = call[h].user
  BY <1>1, <1>2, CallFields DEF CallsType
<1>4. /\ call'[h] # NoOne /\ call'[h].at = "role" /\ call'[h].user = u
      /\ call'[h].op = call[h].op
      /\ call'[h].alone = (Writing(u) = {})
      /\ call'[h].keptRoles = call[h].keptRoles /\ call'[h].keptScope = call[h].keptScope
      /\ \A k \in Handlers : k # h /\ k \notin Writing(u) => call'[k] = call[k]
      /\ \A k \in Writing(u) : k # h =>
           /\ call'[k] # NoOne /\ Alike(call[k], call'[k]) /\ call'[k].alone = FALSE
      /\ marred' = IF Writing(u) = {} THEN marred ELSE marred \cup {u}
  BY <1>1, <1>2, <1>3, EnterFacts
<1>5. Focus(h, u) /\ Past(call'[h]) /\ call[h].user = u /\ h \notin Writing(u)
  BY <1>2, <1>3, <1>4, WritingAre DEF Focus, Past
<1>6. Writing(u)' = Writing(u) \cup {h}
  BY <1>2, <1>5, WritingFocus
<1>7. status'[u] # "none" /\ \A v \in Accounts \ {u} : status'[v] = status[v]
  BY <1>1, <1>3 DEF RowsType
<1>8. HandlerInv(h) /\ RowInv(u)
  BY DEF WordInv
<1>9. \A v \in Accounts \ {u} : v \in marred' <=> v \in marred
  BY <1>4
<1>10. \A k \in Writing(u) : k # h => ~call'[k].alone /\ u \in marred'
  BY <1>4
<1>11. HandlerInv(h)'
  <2>1. call'[h].keptRoles = {} /\ call'[h].keptScope = {}
    BY <1>2, <1>4, <1>8 DEF HandlerInv
  <2>2. ~call'[h].alone => u \in marred'
    BY <1>4
  <2>3. call'[h].alone => Writing(u)' = {h}
    BY <1>4, <1>6
  <2>4. call'[h].op = "create" => scope'[u] = {}
    BY <1>2, <1>3, <1>4, <1>8 DEF RowInv
  <2>. QED BY <1>4, <1>7, <2>1, <2>2, <2>3, <2>4 DEF HandlerInv
<1>12. RowInv(u)'
  <2>1. SUFFICES ASSUME u \notin marred', word'[u] # NoOne
                 PROVE  scope'[u] = word'[u].scope /\ roles'[u] = {word'[u].role}
    BY <1>7 DEF RowInv
  <2>2. Writing(u) = {} /\ u \notin marred
    BY <1>4, <2>1
  <2>. QED BY <1>8, <2>1, <2>2 DEF RowInv
<1>. QED BY <1>2, <1>5, <1>7, <1>9, <1>10, <1>11, <1>12, WordFocus
\* What Conclude leaves of the notes about the other users, and of its own.
LEMMA ConcludeFacts ==
  ASSUME NotesType, NEW h \in Handlers, NEW u \in Accounts, call[h].user = u, Conclude(h)
  PROVE  /\ \A v \in Accounts \ {u} : word'[v] = word[v] /\ (v \in marred' <=> v \in marred)
         /\ call[h].alone => word'[u] = call[h].wish /\ u \notin marred'
         /\ ~call[h].alone => word' = word /\ marred' = marred
BY DEF Conclude, NotesType

LEMMA SetRoleWord ==
  ASSUME UsersInvType, WordInv, NEW h \in Handlers, SetRole(h)
  PROVE  WordInv'
<1>1. CallsType /\ RowsType /\ NotesType
  BY DEF UsersInvType
<1> DEFINE c == call[h]
           last == c.op = "create" /\ c.wish.role # "viewer"
<1>2. UNCHANGED <<status, scope>>
  BY DEF SetRole
<1>3. /\ c # NoOne /\ c \in Call /\ c.at = "role" /\ c.wish \in Wish
      /\ \E kept \in {{}, c.keptRoles} : roles' = [roles EXCEPT ![c.user] = kept \cup {c.wish.role}]
      /\ last => call'[h] = NoOne /\ Conclude(h)
      /\ ~last => /\ call'[h] # NoOne /\ call'[h].at = "scope" /\ call'[h].user = c.user
                  /\ call'[h].wish = c.wish /\ call'[h].alone = c.alone
                  /\ call'[h].keptRoles = c.keptRoles /\ call'[h].keptScope = c.keptScope
                  /\ UNCHANGED <<word, marred>>
      /\ \A k \in Handlers : k # h /\ k \notin Rivals(h) => call'[k] = call[k]
  BY <1>1, RoleFacts
<1>4. \A k \in Rivals(h) : call'[k] # NoOne /\ Alike(call[k], call'[k]) /\ call'[k].alone = call[k].alone
  BY <1>1, RoleFacts
<1>5. PICK u \in Accounts : u = c.user
  BY <1>3, CallFields
<1>6. /\ call[h].user = u /\ Past(c) /\ h \in Writing(u) /\ HandlerInv(h) /\ RowInv(u)
  BY <1>3, <1>5, WritingAre DEF WordInv, Past
<1>7. status[u] # "none"
  BY <1>3, <1>6 DEF HandlerInv
<1>8. Rivals(h) \subseteq Writing(u)
  BY <1>3, <1>6, WritingAre DEF Rivals, At, Past
<1>9. \A k \in Writing(u) : k # h =>
        call'[k] # NoOne /\ Alike(call[k], call'[k]) /\ (call'[k].alone <=> call[k].alone)
  <2>1. \A k \in Writing(u) : k \in Handlers /\ call[k] # NoOne
    BY WritingAre DEF Past
  <2>. QED BY <1>3, <1>4, <2>1 DEF Alike
<1>10. Focus(h, u)
  BY <1>3, <1>6, <1>8, <1>9 DEF Focus
<1>11. \A v \in Accounts \ {u} : word'[v] = word[v] /\ (v \in marred' <=> v \in marred)
  BY <1>1, <1>3, <1>6, ConcludeFacts
<1>12. ~c.alone => word' = word /\ marred' = marred
  BY <1>1, <1>3, <1>6, ConcludeFacts
<1>13. \A k \in Writing(u) : k # h => ~call'[k].alone /\ u \in marred'
  BY <1>6, <1>9, <1>12, TwoAreNotAlone
<1>14. \A v \in Accounts \ {u} : roles'[v] = roles[v]
  BY <1>1, <1>3, <1>5 DEF RowsType
<1>15. HandlerInv(h)' /\ RowInv(u)'
  <2>1. CASE ~c.alone
    <3>1. u \in marred'
      BY <1>3, <1>6, <1>12, <2>1 DEF HandlerInv
    <3>2. HandlerInv(h)'
      BY <1>2, <1>3, <1>6, <1>7, <2>1, <3>1 DEF HandlerInv
    <3>. QED BY <1>2, <1>7, <3>1, <3>2 DEF RowInv
  <2>2. CASE c.alone
    <3>1. /\ Writing(u) = {h} /\ c.keptRoles = {} /\ c.keptScope = {}
          /\ c.op = "create" => scope[u] = {}
      BY <1>3, <1>6, <2>2 DEF HandlerInv
    <3>2. roles'[u] = {c.wish.role}
      BY <1>1, <1>3, <1>5, <3>1 DEF RowsType
    <3>3. Writing(u)' = IF Past(call'[h]) THEN {h} ELSE {}
      BY <1>3, <1>6, <1>10, <3>1, WritingFocus
    <3>4. CASE last
      <4>1. word'[u] = c.wish /\ call'[h] = NoOne
        BY <1>1, <1>3, <1>6, <2>2, <3>4, ConcludeFacts
      <4>2. c.wish.scope = {} /\ scope'[u] = {}
        BY <1>2, <1>3, <3>1, <3>4, WishFields
      <4>. QED BY <1>2, <1>7, <3>2, <4>1, <4>2 DEF HandlerInv, RowInv
    <3>5. CASE ~last
      <4>1. /\ call'[h] # NoOne /\ call'[h].at = "scope" /\ call'[h].user = u
            /\ call'[h].wish = c.wish
            /\ call'[h].keptRoles = {} /\ call'[h].keptScope = {}
            /\ UNCHANGED <<word, marred>>
        BY <1>3, <1>5, <3>1, <3>5
      <4>2. Writing(u)' = {h}
        BY <3>3, <4>1 DEF Past
      <4>3. HandlerInv(h)'
        BY <1>2, <1>3, <1>7, <2>2, <3>2, <3>5, <4>1, <4>2 DEF HandlerInv
      <4>4. RowInv(u)'
        BY <1>2, <1>6, <1>7, <4>1, <4>2 DEF RowInv
      <4>. QED BY <4>3, <4>4
    <3>. QED BY <3>4, <3>5
  <2>. QED BY <2>1, <2>2
<1>16. \A v \in Accounts \ {u} :
           /\ status'[v] = status[v] /\ roles'[v] = roles[v] /\ scope'[v] = scope[v]
           /\ word'[v] = word[v] /\ (v \in marred' <=> v \in marred)
  BY <1>2, <1>11, <1>14
<1>17. status'[u] # "none"
  BY <1>2, <1>7
<1>. QED BY <1>3, <1>6, <1>10, <1>13, <1>15, <1>16, <1>17, WordFocus

LEMMA SetScopeWord ==
  ASSUME UsersInvType, WordInv, NEW h \in Handlers, SetTenantScope(h)
  PROVE  WordInv'
<1>1. CallsType /\ RowsType /\ NotesType
  BY DEF UsersInvType
<1> DEFINE c == call[h]
<1>2. UNCHANGED <<status, roles>> /\ Conclude(h) /\ c.at = "scope"
  BY DEF SetTenantScope, At
<1>3. /\ c # NoOne /\ c \in Call /\ call'[h] = NoOne
      /\ \E kept \in {{}, c.keptScope} : scope' = [scope EXCEPT ![c.user] = kept \cup c.wish.scope]
      /\ \A k \in Handlers : k # h /\ k \notin Rivals(h) => call'[k] = call[k]
  BY <1>1, ScopeFacts
<1>4. \A k \in Rivals(h) : call'[k] # NoOne /\ Alike(call[k], call'[k]) /\ call'[k].alone = call[k].alone
  BY <1>1, ScopeFacts
<1>5. PICK u \in Accounts : u = c.user
  BY <1>3, CallFields
<1>6. /\ call[h].user = u /\ Past(c) /\ h \in Writing(u) /\ HandlerInv(h) /\ RowInv(u)
  BY <1>2, <1>3, <1>5, WritingAre DEF WordInv, Past
<1>7. status[u] # "none"
  BY <1>2, <1>3, <1>6 DEF HandlerInv
<1>8. Rivals(h) \subseteq Writing(u)
  BY <1>2, <1>6, WritingAre DEF Rivals, At, Past
<1>9. \A k \in Writing(u) : k # h =>
        call'[k] # NoOne /\ Alike(call[k], call'[k]) /\ (call'[k].alone <=> call[k].alone)
  <2>1. \A k \in Writing(u) : k \in Handlers /\ call[k] # NoOne
    BY WritingAre DEF Past
  <2>. QED BY <1>3, <1>4, <2>1 DEF Alike
<1>10. Focus(h, u)
  BY <1>3, <1>8, <1>9 DEF Focus
<1>11. /\ \A v \in Accounts \ {u} : word'[v] = word[v] /\ (v \in marred' <=> v \in marred)
       /\ c.alone => word'[u] = c.wish
       /\ ~c.alone => marred' = marred
  BY <1>1, <1>2, <1>6, ConcludeFacts
<1>13. \A k \in Writing(u) : k # h => ~call'[k].alone /\ u \in marred'
  BY <1>6, <1>9, <1>11, TwoAreNotAlone
<1>14. \A v \in Accounts \ {u} : scope'[v] = scope[v]
  BY <1>1, <1>3, <1>5 DEF RowsType
<1>15. HandlerInv(h)'
  BY <1>3 DEF HandlerInv
<1>16. RowInv(u)'
  <2>1. CASE ~c.alone
    <3>1. u \in marred'
      BY <1>2, <1>3, <1>6, <1>11, <2>1 DEF HandlerInv
    <3>. QED BY <1>2, <1>7, <3>1 DEF RowInv
  <2>2. CASE c.alone
    <3>1. c.keptScope = {} /\ roles[u] = {c.wish.role}
      BY <1>2, <1>3, <1>6, <2>2 DEF HandlerInv
    <3>2. scope' = [scope EXCEPT ![u] = c.wish.scope]
      <4>1. PICK kept \in {{}, c.keptScope} : scope' = [scope EXCEPT ![u] = kept \cup c.wish.scope]
        BY <1>3, <1>5
      <4>2. kept \cup c.wish.scope = c.wish.scope
        BY <3>1
      <4>. QED BY <4>1, <4>2
    <3>3. scope'[u] = c.wish.scope
      BY <1>1, <3>2 DEF RowsType
    <3>4. word'[u] = c.wish
      BY <1>11, <2>2
    <3>. QED BY <1>2, <1>7, <3>1, <3>3, <3>4 DEF RowInv
  <2>. QED BY <2>1, <2>2
<1>17. \A v \in Accounts \ {u} :
           /\ status'[v] = status[v] /\ roles'[v] = roles[v] /\ scope'[v] = scope[v]
           /\ word'[v] = word[v] /\ (v \in marred' <=> v \in marred)
  BY <1>2, <1>11, <1>14
<1>18. status'[u] # "none"
  BY <1>2, <1>7
<1>. QED BY <1>3, <1>6, <1>10, <1>13, <1>15, <1>16, <1>17, <1>18, WordFocus

\* A handler cut short between its writes.
LEMMA DropWord ==
  ASSUME UsersInvType, WordInv, NEW h \in Handlers, ScopeRefused(h) \/ (Fail(h) /\ Past(call[h]))
  PROVE  WordInv'
<1>1. CallsType /\ RowsType /\ NotesType
  BY DEF UsersInvType
<1>2. /\ call[h] # NoOne /\ Past(call[h]) /\ Finish(h) /\ UNCHANGED <<status, roles, scope, word>>
      /\ marred' = marred \cup {call[h].user}
  BY DEF ScopeRefused, Fail, Past, At
<1>3. call'[h] = NoOne /\ \A k \in Handlers : k # h => call'[k] = call[k]
  BY <1>1, <1>2, FinishFacts
<1>4. PICK u \in Accounts : u = call[h].user
  BY <1>1, <1>2, CallFields DEF CallsType
<1>5. call[h].user = u /\ h \in Writing(u) /\ u \in marred' /\ HandlerInv(h)
  BY <1>2, <1>4, WritingAre DEF WordInv
<1>6. \A k \in Writing(u) : k # h => ~call'[k].alone /\ call'[k] = call[k] /\ call[k] # NoOne
  BY <1>3, <1>5, TwoAreNotAlone, WritingAre DEF Past
<1>7. Focus(h, u)
  BY <1>3, <1>6 DEF Focus, Alike
<1>8. status'[u] # "none"
  BY <1>2, <1>4, <1>5 DEF HandlerInv, Past
<1>9. \A v \in Accounts \ {u} : v \in marred' <=> v \in marred
  BY <1>2, <1>4
<1>10. HandlerInv(h)' /\ RowInv(u)'
  BY <1>3, <1>5, <1>8 DEF HandlerInv, RowInv
<1>. QED BY <1>2, <1>5, <1>6, <1>7, <1>8, <1>9, <1>10, WordFocus

LEMMA DeleteClientWord ==
  ASSUME UsersInvType, WordInv, NEW t \in Clients, DeleteClient(t)
  PROVE  WordInv'
<1>1. CallsType /\ RowsType
  BY DEF UsersInvType
<1>2. /\ UNCHANGED <<status, roles, word>> /\ marred' = marred \cup {u \in Accounts : t \in scope[u]}
      /\ scope' = [u \in Accounts |-> scope[u] \ {t}]
  BY DEF DeleteClient
<1>3. \A k \in Handlers :
        \/ call[k] = NoOne /\ call'[k] = NoOne
        \/ /\ call[k] # NoOne /\ call'[k] # NoOne
           /\ Alike(call[k], call'[k]) /\ (call'[k].alone <=> call[k].alone)
           /\ call'[k].keptRoles = call[k].keptRoles /\ call'[k].keptScope = call[k].keptScope \ {t}
  BY <1>1, ClientFacts
<1>4. \A v : Writing(v)' = Writing(v)
  <2>1. ASSUME NEW v
        PROVE  Writing(v)' = Writing(v)
    <3>1. \A k \in Handlers : k \in Writing(v)' <=> k \in Writing(v)
      BY <1>3, WritingAre DEF Past, Alike
    <3>2. Writing(v) \subseteq Handlers /\ Writing(v)' \subseteq Handlers
      BY WritingAre
    <3>. QED BY <3>1, <3>2
  <2>. QED BY <2>1
<1>5. ASSUME NEW k \in Handlers
      PROVE  HandlerInv(k)'
  <2>1. CASE call[k] = NoOne
    BY <1>3, <2>1 DEF HandlerInv
  <2>2. CASE call[k] # NoOne
    <3>1. PICK v \in Accounts : v = call[k].user
      BY <1>1, <2>2, CallFields DEF CallsType
    <3>2. /\ call[k].user = v /\ call'[k].user = v /\ Writing(v)' = Writing(v) /\ HandlerInv(k)
          /\ scope'[v] = scope[v] \ {t}
      BY <1>2, <1>3, <1>4, <2>2, <3>1 DEF Alike, WordInv
    <3>3. call[k].keptScope = {} => call'[k].keptScope = {}
      BY <1>3, <2>2
    <3>. QED BY <1>2, <1>3, <2>2, <3>2, <3>3 DEF HandlerInv, Alike
  <2>. QED BY <2>1, <2>2
<1>6. ASSUME NEW v \in Accounts
      PROVE  RowInv(v)'
  <2>1. \A k \in Writing(v) : call'[k].at = call[k].at
    BY <1>3, WritingAre DEF Alike, Past
  <2>2. RowInv(v) /\ Writing(v)' = Writing(v) /\ scope'[v] = scope[v] \ {t}
    BY <1>2, <1>4 DEF WordInv
  <2>3. v \notin marred' => v \notin marred /\ scope'[v] = scope[v]
    BY <1>2, <2>2
  <2>4. scope[v] = {} => scope'[v] = {}
    BY <2>2
  <2>. QED BY <1>2, <2>1, <2>2, <2>3, <2>4 DEF RowInv
<1>. QED BY <1>5, <1>6 DEF WordInv

LEMMA UsersStepWord ==
  ASSUME UsersInvType, WordInv, [UsersNext]_usersVars
  PROVE  WordInv'
<1>1. ASSUME NEW h \in Handlers, InsertUser(h)
      PROVE  WordInv'
  BY <1>1, EnterWord DEF InsertUser
<1>2. ASSUME NEW h \in Handlers, UpdateUser(h)
      PROVE  WordInv'
  <2>1. PICK st \in {"active", "inactive"} : status' = [status EXCEPT ![call[h].user] = st]
    BY <1>2 DEF UpdateUser
  <2>2. ~Serves(h, "create") /\ Serves(h, "update") /\ Enter(h) /\ UNCHANGED <<roles, scope, word>>
    BY <1>2 DEF UpdateUser, Serves
  <2>. QED BY <2>1, <2>2, EnterWord
<1>3. ASSUME NEW h \in Handlers, Fail(h)
      PROVE  WordInv'
  BY <1>3, QuitWord, DropWord
<1>4. CASE UNCHANGED usersVars
  BY <1>4 DEF usersVars, WordInv, HandlerInv, RowInv, Writing
<1>. QED BY <1>1, <1>2, <1>3, <1>4, BeginWord, CountWord, QuitWord, DropWord, SetRoleWord, SetScopeWord,
            DeleteClientWord DEF UsersNext

LEMMA UsersInitWord == UsersInit => WordInv
<1>. SUFFICES ASSUME UsersInit PROVE WordInv
  OBVIOUS
<1>1. \A k \in Handlers : call[k] = NoOne
  BY DEF UsersInit
<1>2. \A k \in Handlers : HandlerInv(k)
  BY <1>1 DEF HandlerInv
<1>3. ASSUME NEW u \in Accounts
      PROVE  RowInv(u)
  BY DEF UsersInit, RowInv
<1>. QED BY <1>2, <1>3 DEF WordInv

LEMMA WordFollows == UsersInvType /\ WordInv => OneWord
BY DEF WordInv, RowInv, OneWord

LEMMA ConfinedFollows == UsersInvType /\ WordInv => ViewerConfined
<1>. SUFFICES ASSUME UsersInvType, WordInv, NEW u \in Accounts \ marred,
                     NEW asked, asked = {word[u]} \cup {call[h].wish : h \in Writing(u)},
                     \A w \in asked : w # NoOne /\ w.role = "viewer"
              PROVE  Visible(u, roles[u]) \subseteq UNION {w.scope : w \in asked}
  BY DEF ViewerConfined
<1>1. word[u] # NoOne /\ word[u] \in Wish /\ word[u].role = "viewer"
  BY DEF UsersInvType, NotesType
<1>2. scope[u] = word[u].scope /\ scope[u] # {}
  BY <1>1, WishFields DEF WordInv, RowInv
<1>3. roles[u] = {"viewer"}
  <2>1. CASE \A h \in Writing(u) : call[h].at = "role"
    BY <1>1, <2>1 DEF WordInv, RowInv
  <2>2. CASE \E h \in Writing(u) : call[h].at # "role"
    <3>1. PICK h \in Writing(u) : call[h].at # "role"
      BY <2>2
    <3>2. h \in Handlers /\ call[h] # NoOne /\ call[h].at = "scope" /\ call[h].user = u
      BY <3>1, WritingAre DEF Past
    <3>3. HandlerInv(h)
      BY <3>2 DEF WordInv
    <3>4. roles[u] = {call[h].wish.role}
      BY <3>2, <3>3 DEF HandlerInv
    <3>. QED BY <3>4
  <2>. QED BY <2>1, <2>2
<1>4. Visible(u, roles[u]) = scope[u]
  BY <1>2, <1>3 DEF Visible
<1>. QED BY <1>2, <1>4

\* For any number of overlapping edits, a user at rest that no two of them wrote
\* at once has the role and the tenant of one request: a handler that writes
\* alone finds nothing of another's to keep, and what it wrote stands until it ends.
THEOREM WordCorrect == UsersSpec => []OneWord
BY UsersInitType, UsersStepType, UsersInitWord, UsersStepWord, WordFollows, PTL DEF UsersSpec

\* And while edits replace the tenant of a viewer, at no instant do its reports
\* show a tenant that none of them names.
THEOREM ViewerCorrect == UsersSpec => []ViewerConfined
BY UsersInitType, UsersStepType, UsersInitWord, UsersStepWord, ConfinedFollows, PTL DEF UsersSpec
=============================================================================
