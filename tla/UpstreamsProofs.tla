---------------------------- MODULE UpstreamsProofs ----------------------------
(***************************************************************************)
(* Proofs about Upstreams: for any upstreams, hosts, editors and requests, *)
(* any lifetimes and retries, any number of edits and failures.            *)
(***************************************************************************)
EXTENDS Upstreams, TLAPS

-----------------------------------------------------------------------------
\* What the helpers build.

LEMMA FilledType ==
  ASSUME NEW f \in Fillings, NEW old \in Hosts \cup {Void}, NEW h \in Hosts
  PROVE  /\ Filled(f[1], old, h) \in Hosts \cup {Void}
         /\ Filled(f[2], old, h) \in Hosts \cup {Void}
         /\ old \in {Void, h} => /\ Filled(f[1], old, h) \in {Void, h}
                                 /\ Filled(f[2], old, h) \in {Void, h}
BY DEF Filled

LEMMA AppliedType ==
  ASSUME NEW c \in Config, NEW f \in Form
  PROVE  Applied(c, f) \in Config
<1> DEFINE h       == IF f.host = Void THEN c.host ELSE f.host
           cleared == h # c.host /\ (c.user # Void \/ c.pass # Void)
           user    == Filled(f.how[1], IF cleared THEN Void ELSE c.user, h)
           pass    == Filled(f.how[2], IF cleared THEN Void ELSE c.pass, h)
<1>1. h \in Hosts /\ f.how \in Fillings /\ f.retries \in Retries /\ f.active \in BOOLEAN
  BY DEF Config, Form
<1>2. c.user \in Hosts \cup {Void} /\ c.pass \in Hosts \cup {Void}
  BY DEF Config
<1>3. user \in Hosts \cup {Void} /\ pass \in Hosts \cup {Void}
  BY <1>1, <1>2, FilledType
<1> HIDE DEF user, pass, h
<1>4. Applied(c, f) = [host |-> h, user |-> IF cleared /\ pass = Void THEN Void ELSE user,
                       pass |-> pass, retries |-> f.retries, active |-> f.active]
  BY DEF Applied, user, pass, h
<1>. QED BY <1>1, <1>3, <1>4 DEF Config

\* With another host, no credential of the old one is left.
LEMMA AppliedAtHome ==
  ASSUME NEW c \in Config, NEW f \in Form, AtHome(c)
  PROVE  AtHome(Applied(c, f))
<1> DEFINE h       == IF f.host = Void THEN c.host ELSE f.host
           cleared == h # c.host /\ (c.user # Void \/ c.pass # Void)
           u       == IF cleared THEN Void ELSE c.user
           p       == IF cleared THEN Void ELSE c.pass
           user    == Filled(f.how[1], u, h)
           pass    == Filled(f.how[2], p, h)
<1>1. h \in Hosts /\ f.how \in Fillings /\ c.user \in Hosts \cup {Void} /\ c.pass \in Hosts \cup {Void}
  BY DEF Config, Form
<1>2. u \in {Void, h} /\ p \in {Void, h}
  BY <1>1 DEF AtHome
<1>3. user \in {Void, h} /\ pass \in {Void, h}
  <2>1. u \in Hosts \cup {Void} /\ p \in Hosts \cup {Void}
    BY <1>1
  <2> HIDE DEF u, p, h
  <2>. QED BY <1>1, <1>2, <2>1, FilledType
<1> HIDE DEF user, pass, h
<1>4. Applied(c, f) = [host |-> h, user |-> IF cleared /\ pass = Void THEN Void ELSE user,
                       pass |-> pass, retries |-> f.retries, active |-> f.active]
  BY DEF Applied, user, pass, h
<1>. QED BY <1>3, <1>4 DEF AtHome

LEMMA EnvConfigFacts ==
  EnvConfig \in Config /\ AtHome(EnvConfig)
BY UpstreamsAssumption DEF EnvConfig, Config, AtHome

LEMMA WithActiveFacts ==
  ASSUME NEW c \in Config, NEW active \in BOOLEAN
  PROVE  /\ WithActive(c, active) \in Config
         /\ AtHome(c) => AtHome(WithActive(c, active))
BY DEF WithActive, Config, AtHome

LEMMA FreshFacts ==
  ASSUME NEW c \in Config
  PROVE  /\ Fresh(c) \in Copy
         /\ Fresh(c).cfg = c /\ Fresh(c).age = 0 /\ Fresh(c).old = 0
BY DEF Fresh, Copy

\* A copy that is looked at again, or grows older, is a copy of the same.
LEMMA SeenFacts ==
  ASSUME NEW p \in Copy, NEW d
  PROVE  /\ Seen(p, d) \in Copy
         /\ Seen(p, d).cfg = p.cfg /\ Seen(p, d).age = p.age
         /\ Seen(p, d).old \in {0, p.old}
         /\ p.cfg = d => Seen(p, d).old = 0
BY UpstreamsAssumption DEF Seen, Copy

LEMMA SeenVoid ==
  ASSUME NEW d
  PROVE  Seen(Void, d) = Void
BY DEF Seen

LEMMA AgingFacts ==
  ASSUME NEW p \in Copy
  PROVE  /\ Aging(p) \in Copy
         /\ Aging(p).cfg = p.cfg /\ Aging(p).age = p.age + 1
         /\ Aging(p).old \in {0, p.old + 1}
BY DEF Aging, Copy

-----------------------------------------------------------------------------
\* What a step does to a copy: the same is a copy of the same, as old or less.
Same(p, r) ==
  \/ p = Void /\ r = Void
  \/ /\ p \in Copy /\ r \in Copy
     /\ r.cfg = p.cfg /\ r.age = p.age /\ r.old <= p.old

Grown(p, r) ==
  \/ p = Void /\ r = Void
  \/ /\ p \in Copy /\ r \in Copy
     /\ r.cfg = p.cfg /\ r.age = p.age + 1 /\ r.old <= p.old + 1

LEMMA SeenSame ==
  ASSUME NEW p \in Copy \cup {Void}, NEW d
  PROVE  Same(p, Seen(p, d))
<1>1. CASE p = Void
  BY <1>1, SeenVoid DEF Same
<1>2. CASE p \in Copy
  BY <1>2, SeenFacts DEF Same, Copy
<1>. QED BY <1>1, <1>2

LEMMA OlderGrown ==
  ASSUME NEW p \in Copy \cup {Void}
  PROVE  Grown(p, Older1(p))
<1>1. CASE p = Void
  BY <1>1 DEF Grown, Older1
<1>2. CASE p \in Copy
  <2>1. Older1(p) = Aging(p)
    BY <1>2, UpstreamsAssumption DEF Older1
  <2>. QED BY <1>2, <2>1, AgingFacts DEF Grown, Copy
<1>. QED BY <1>1, <1>2

CopiesSame ==
  /\ Same(entry, entry')
  /\ fill' \in [Stamps -> Copy \cup {Void}]
  /\ copy' \in [Stamps -> Copy \cup {Void}]
  /\ \A q \in Stamps : Same(fill[q], fill'[q]) /\ Same(copy[q], copy'[q])

LEMMA CopiesSeenSame ==
  ASSUME UpstreamsTypeOK, CopiesSeen
  PROVE  CopiesSame
<1>1. entry \in Copy \cup {Void} /\ \A q \in Stamps : fill[q] \in Copy \cup {Void} /\ copy[q] \in Copy \cup {Void}
  BY DEF UpstreamsTypeOK
<1>2. entry' = Seen(entry, Default')
  BY DEF CopiesSeen
<1>3. \A q \in Stamps : fill'[q] = Seen(fill[q], Default') /\ copy'[q] = Seen(copy[q], Default')
  BY DEF CopiesSeen
<1>4. Same(entry, entry')
  BY <1>1, <1>2, SeenSame
<1>5. \A q \in Stamps : Same(fill[q], fill'[q]) /\ Same(copy[q], copy'[q])
  BY <1>1, <1>3, SeenSame
<1>6. \A q \in Stamps : fill'[q] \in Copy \cup {Void} /\ copy'[q] \in Copy \cup {Void}
  BY <1>5 DEF Same
<1>. QED BY <1>4, <1>5, <1>6 DEF CopiesSame, CopiesSeen

\* The copies and the stamps keep their types when the copies are the same.
StampsTypeOK ==
  /\ entry \in Copy \cup {Void}
  /\ entry # Void => entry.age <= DefaultLife
  /\ fill \in [Stamps -> Copy \cup {Void}]
  /\ copy \in [Stamps -> Copy \cup {Void}]
  /\ \A q \in Stamps :
       /\ fill[q] # Void => fill[q].age <= MaxLag
       /\ copy[q] # Void => copy[q].age <= MaxLag
       /\ place[q] \in {"idle", "select"} <=> copy[q] = Void
  /\ place \in [Stamps -> {"idle", "select", "send"} \cup Ended]
  /\ posts \in [Stamps -> [sent : Nat, served : Nat]]

EditsTypeOK ==
  /\ stored \in [Upstream -> Config \cup {Void}]
  /\ default \in Upstream \cup {Void}
  /\ default # Void => stored[default] # Void
  /\ edit \in [Editors -> EditOf \cup {Void}]
  /\ \A e \in Editors : edit[e] # Void => stored[edit[e].row] # Void
  /\ upDels \in Nat
  /\ upEdits \in 0..MaxUpEdits
  /\ upFaults \in 0..MaxUpFaults

LEMMA TypeParts == UpstreamsTypeOK <=> EditsTypeOK /\ StampsTypeOK
BY DEF UpstreamsTypeOK, EditsTypeOK, StampsTypeOK

LEMMA TypePartsNext == UpstreamsTypeOK' <=> EditsTypeOK' /\ StampsTypeOK'
BY DEF UpstreamsTypeOK, EditsTypeOK, StampsTypeOK

LEMMA SameStamps ==
  ASSUME UpstreamsTypeOK, CopiesSame, UNCHANGED <<place, posts>>
  PROVE  StampsTypeOK'
<1>1. entry' \in Copy \cup {Void} /\ (entry' # Void => entry'.age <= DefaultLife)
  BY UpstreamsAssumption DEF CopiesSame, Same, UpstreamsTypeOK
<1>2. ASSUME NEW q \in Stamps
      PROVE  /\ fill'[q] # Void => fill'[q].age <= MaxLag
             /\ copy'[q] # Void => copy'[q].age <= MaxLag
             /\ copy'[q] = Void <=> copy[q] = Void
  BY UpstreamsAssumption DEF CopiesSame, Same, UpstreamsTypeOK
<1>. QED BY <1>1, <1>2 DEF CopiesSame, UpstreamsTypeOK, StampsTypeOK

LEMMA DefaultConfig ==
  ASSUME UpstreamsTypeOK
  PROVE  Default \in Config \cup {Void}
BY DEF UpstreamsTypeOK, Default, DefaultIn

-----------------------------------------------------------------------------
\* Types.

LEMMA EditType ==
  ASSUME NEW op \in {"update", "delete"}, NEW i \in Upstream, NEW c \in Config, NEW b \in BOOLEAN
  PROVE  /\ [op |-> op, row |-> i, new |-> c, was |-> b] \in EditOf
         /\ [op |-> op, row |-> i, new |-> c, was |-> b] # Void
<1>1. [op |-> op, row |-> i, new |-> c, was |-> b] \in EditOf
  BY DEF EditOf
<1>. QED BY <1>1, UpstreamsAssumption

\* No row is ever taken away.
RowsGrow ==
  /\ stored' \in [Upstream -> Config \cup {Void}]
  /\ \A i \in Upstream : stored[i] # Void => stored'[i] # Void

LEMMA RowsGrowType ==
  ASSUME UpstreamsTypeOK, RowsGrow, CountEdit, UNCHANGED <<edit, upFaults>>,
         upDels' \in Nat, default' = default
  PROVE  EditsTypeOK'
<1>1. \A e \in Editors : edit[e] # Void => edit[e].row \in Upstream
  BY DEF UpstreamsTypeOK, EditOf
<1>2. upEdits' \in 0..MaxUpEdits
  BY UpstreamsAssumption DEF UpstreamsTypeOK, CountEdit
<1>. QED BY <1>1, <1>2 DEF RowsGrow, UpstreamsTypeOK, EditsTypeOK

LEMMA CreateType ==
  ASSUME UpstreamsTypeOK, NEW i \in Upstream, NEW h \in Hosts, NEW f \in Fillings,
         NEW n \in Retries, CreateUpstream(i, h, f, n)
  PROVE  EditsTypeOK' /\ StampsTypeOK'
<1> DEFINE c == [host |-> h, user |-> Filled(f[1], Void, h), pass |-> Filled(f[2], Void, h),
                 retries |-> n, active |-> TRUE]
<1>1. c \in Config
  BY FilledType DEF Config
<1>2. stored' = [stored EXCEPT ![i] = c]
  BY DEF CreateUpstream
<1> HIDE DEF c
<1>3. c # Void
  BY <1>1, UpstreamsAssumption
<1>4. RowsGrow
  BY <1>1, <1>2, <1>3 DEF RowsGrow, UpstreamsTypeOK
<1>5. EditsTypeOK'
  BY <1>4, RowsGrowType DEF CreateUpstream, UpstreamsTypeOK
<1>6. StampsTypeOK'
  BY CopiesSeenSame, SameStamps DEF CreateUpstream
<1>. QED BY <1>5, <1>6

\* The read of an edit.
LEMMA StartType ==
  ASSUME UpstreamsTypeOK, NEW i \in Upstream, stored[i] # Void, NEW e \in Editors,
         NEW x \in EditOf, x.row = i, edit' = [edit EXCEPT ![e] = x], CountEdit,
         UNCHANGED <<stored, default, entry, upDels, stampVars, upFaults>>
  PROVE  EditsTypeOK' /\ StampsTypeOK'
<1>1. edit' \in [Editors -> EditOf \cup {Void}]
  BY DEF UpstreamsTypeOK
<1>2. \A g \in Editors : edit'[g] # Void => stored'[edit'[g].row] # Void
  BY DEF UpstreamsTypeOK
<1>3. upEdits' \in 0..MaxUpEdits
  BY UpstreamsAssumption DEF UpstreamsTypeOK, CountEdit
<1>4. EditsTypeOK'
  BY <1>1, <1>2, <1>3 DEF UpstreamsTypeOK, EditsTypeOK
<1>5. StampsTypeOK'
  BY DEF UpstreamsTypeOK, StampsTypeOK, stampVars
<1>. QED BY <1>4, <1>5

LEMMA UpdateType ==
  ASSUME UpstreamsTypeOK, NEW i \in Upstream, NEW e \in Editors, NEW f \in Form,
         UpdateUpstream(e, i, f)
  PROVE  EditsTypeOK' /\ StampsTypeOK'
<1>1. stored[i] \in Config
  BY DEF UpdateUpstream, UpstreamsTypeOK
<1>2. Applied(stored[i], f) \in Config
  BY <1>1, AppliedType
<1> DEFINE x == [op |-> "update", row |-> i, new |-> Applied(stored[i], f), was |-> default = i]
<1>3. x \in EditOf
  BY <1>2, EditType
<1>4. edit' = [edit EXCEPT ![e] = x] /\ x.row = i
  BY DEF UpdateUpstream
<1> HIDE DEF x
<1>5. stored[i] # Void /\ CountEdit
  BY DEF UpdateUpstream
<1>6. UNCHANGED <<stored, default, entry, upDels, stampVars, upFaults>>
  BY DEF UpdateUpstream
<1>. QED BY <1>3, <1>4, <1>5, <1>6, StartType

LEMMA DeleteType ==
  ASSUME UpstreamsTypeOK, NEW i \in Upstream, NEW e \in Editors, DeleteUpstream(e, i)
  PROVE  EditsTypeOK' /\ StampsTypeOK'
<1>1. stored[i] \in Config
  BY DEF DeleteUpstream, UpstreamsTypeOK
<1>2. WithActive(stored[i], FALSE) \in Config
  BY <1>1, WithActiveFacts
<1> DEFINE x == [op |-> "delete", row |-> i, new |-> WithActive(stored[i], FALSE), was |-> default = i]
<1>3. x \in EditOf
  BY <1>2, EditType
<1>4. edit' = [edit EXCEPT ![e] = x] /\ x.row = i
  BY DEF DeleteUpstream
<1> HIDE DEF x
<1>5. stored[i] # Void /\ CountEdit
  BY DEF DeleteUpstream
<1>6. UNCHANGED <<stored, default, entry, upDels, stampVars, upFaults>>
  BY DEF DeleteUpstream
<1>. QED BY <1>3, <1>4, <1>5, <1>6, StartType

LEMMA SetDefaultType ==
  ASSUME UpstreamsTypeOK, NEW i \in Upstream, SetDefault(i)
  PROVE  EditsTypeOK' /\ StampsTypeOK'
<1>1. stored[i] \in Config => WithActive(stored[i], TRUE) \in Config
  BY WithActiveFacts
<1>2. stored[i] # Void => stored[i] \in Config
  BY DEF UpstreamsTypeOK
<1>3. RowsGrow
  <2>1. CASE stored[i] = Void
    BY <2>1 DEF SetDefault, RowsGrow, UpstreamsTypeOK
  <2>2. CASE stored[i] # Void
    BY <1>1, <1>2, <2>2, UpstreamsAssumption DEF SetDefault, RowsGrow, UpstreamsTypeOK
  <2>. QED BY <2>1, <2>2
<1>4. default' \in Upstream \cup {Void} /\ (default' # Void => stored'[default'] # Void)
  BY <1>3 DEF SetDefault, RowsGrow
<1>5. \A e \in Editors : edit[e] # Void => stored'[edit[e].row] # Void
  <2>1. \A e \in Editors : edit[e] # Void => edit[e].row \in Upstream
    BY DEF UpstreamsTypeOK, EditOf
  <2>. QED BY <1>3, <2>1 DEF RowsGrow, UpstreamsTypeOK
<1>6. upEdits' \in 0..MaxUpEdits /\ upDels' \in Nat /\ UNCHANGED <<edit, upFaults>>
  BY UpstreamsAssumption DEF SetDefault, UpstreamsTypeOK, CountEdit
<1>7. EditsTypeOK'
  BY <1>3, <1>4, <1>5, <1>6 DEF RowsGrow, UpstreamsTypeOK, EditsTypeOK
<1>8. StampsTypeOK'
  BY CopiesSeenSame, SameStamps DEF SetDefault
<1>. QED BY <1>7, <1>8

LEMMA WriteBackType ==
  ASSUME UpstreamsTypeOK, NEW e \in Editors, WriteBack(e)
  PROVE  EditsTypeOK' /\ StampsTypeOK'
<1>1. edit[e] \in EditOf
  BY DEF WriteBack, UpstreamsTypeOK
<1>2. edit[e].row \in Upstream /\ edit[e].new \in Config /\ edit[e].new # Void
  BY <1>1, UpstreamsAssumption DEF EditOf
<1>3. StampsTypeOK'
  BY CopiesSeenSame, SameStamps DEF WriteBack
<1>4. RowsGrow
  BY <1>2 DEF WriteBack, UpstreamsTypeOK, RowsGrow
<1>5. upDels' \in Nat
  BY DEF WriteBack, UpstreamsTypeOK
<1>6. edit' \in [Editors -> EditOf \cup {Void}] /\ \A g \in Editors : edit'[g] # Void => edit'[g] = edit[g]
  BY DEF WriteBack, UpstreamsTypeOK
<1>7. \A g \in Editors : edit'[g] # Void => stored'[edit'[g].row] # Void
  <2>1. \A g \in Editors : edit[g] # Void => edit[g].row \in Upstream
    BY DEF UpstreamsTypeOK, EditOf
  <2>. QED BY <1>4, <1>6, <2>1 DEF RowsGrow, UpstreamsTypeOK
<1>8. UNCHANGED <<default, upEdits, upFaults>>
  BY DEF WriteBack
<1>9. default # Void => stored'[default] # Void
  BY <1>4 DEF RowsGrow, UpstreamsTypeOK
<1>10. EditsTypeOK'
  BY <1>4, <1>5, <1>6, <1>7, <1>8, <1>9 DEF UpstreamsTypeOK, EditsTypeOK, RowsGrow
<1>. QED BY <1>3, <1>10

rowVars == <<stored, default, edit, upEdits>>

\* Steps that write no row.
LEMMA RowsStand ==
  ASSUME UpstreamsTypeOK, UNCHANGED rowVars, upDels' \in Nat,
         upFaults' = upFaults \/ UpFault
  PROVE  EditsTypeOK'
<1>1. upFaults' \in 0..MaxUpFaults
  BY UpstreamsAssumption DEF UpstreamsTypeOK, UpFault
<1>. QED BY <1>1 DEF UpstreamsTypeOK, EditsTypeOK, rowVars

LEMMA InvalidateType ==
  ASSUME UpstreamsTypeOK, InvalidateDefaultUpstream
  PROVE  EditsTypeOK' /\ StampsTypeOK'
<1>1. EditsTypeOK'
  <2>1. upDels' \in Nat
    BY DEF InvalidateDefaultUpstream, UpstreamsTypeOK
  <2>. QED BY <2>1, RowsStand DEF InvalidateDefaultUpstream, rowVars
<1>2. StampsTypeOK'
  BY UpstreamsAssumption DEF InvalidateDefaultUpstream, UpstreamsTypeOK, StampsTypeOK, stampVars
<1>. QED BY <1>1, <1>2

LEMMA GetDefaultType ==
  ASSUME UpstreamsTypeOK, NEW q \in Stamps, GetDefaultUpstream(q)
  PROVE  EditsTypeOK' /\ StampsTypeOK'
<1>1. EditsTypeOK'
  BY RowsStand DEF GetDefaultUpstream, rowVars, UpstreamsTypeOK
<1>2. entry # Void => /\ [cfg |-> entry.cfg, age |-> 0, old |-> entry.old] \in Copy
                      /\ [cfg |-> entry.cfg, age |-> 0, old |-> entry.old].age = 0
  BY DEF UpstreamsTypeOK, Copy
<1>3. copy[q] = Void /\ place[q] = "idle"
  BY DEF GetDefaultUpstream, UpstreamsTypeOK
<1> DEFINE c == [cfg |-> entry.cfg, age |-> 0, old |-> entry.old]
<1> HIDE DEF c
<1>4. \/ entry # Void /\ copy' = [copy EXCEPT ![q] = c] /\ place' = [place EXCEPT ![q] = "send"]
      \/ copy' = copy /\ place' = [place EXCEPT ![q] = "select"]
  BY DEF GetDefaultUpstream, Settle, c
<1>5. entry # Void => c \in Copy /\ c # Void /\ c.age = 0
  BY <1>2, UpstreamsAssumption DEF c
<1>6. UNCHANGED <<entry, fill, posts>>
  BY DEF GetDefaultUpstream
<1>7. CASE entry # Void /\ copy' = [copy EXCEPT ![q] = c] /\ place' = [place EXCEPT ![q] = "send"]
  <2>1. StampsTypeOK'
    BY <1>3, <1>5, <1>6, <1>7, UpstreamsAssumption DEF UpstreamsTypeOK, StampsTypeOK
  <2>. QED BY <1>1, <2>1
<1>8. CASE copy' = copy /\ place' = [place EXCEPT ![q] = "select"]
  <2>1. StampsTypeOK'
    BY <1>3, <1>6, <1>8, UpstreamsAssumption DEF UpstreamsTypeOK, StampsTypeOK
  <2>. QED BY <1>1, <2>1
<1>. QED BY <1>4, <1>7, <1>8

LEMMA SelectType ==
  ASSUME UpstreamsTypeOK, NEW q \in Stamps, SelectDefault(q)
  PROVE  EditsTypeOK' /\ StampsTypeOK'
<1>1. EditsTypeOK'
  BY RowsStand DEF SelectDefault, rowVars, UpstreamsTypeOK
<1>2. Fresh(Default) \in Copy /\ Fresh(Default).age = 0
  BY DefaultConfig, FreshFacts DEF SelectDefault
<1>3. Fresh(Default) # Void
  BY <1>2, UpstreamsAssumption
<1>4. /\ copy' = [copy EXCEPT ![q] = Fresh(Default)]
      /\ fill' = [fill EXCEPT ![q] = Fresh(Default)]
      /\ place' = [place EXCEPT ![q] = "send"]
      /\ UNCHANGED <<entry, posts>>
  BY DEF SelectDefault, Settle
<1>5. StampsTypeOK'
  BY <1>2, <1>3, <1>4, UpstreamsAssumption DEF UpstreamsTypeOK, StampsTypeOK
<1>. QED BY <1>1, <1>5

LEMMA EnvironmentType ==
  ASSUME UpstreamsTypeOK, NEW q \in Stamps, UseEnvironment(q)
  PROVE  EditsTypeOK' /\ StampsTypeOK'
<1>1. EditsTypeOK'
  BY RowsStand DEF UseEnvironment, rowVars, UpstreamsTypeOK
<1>2. Fresh(EnvConfig) \in Copy /\ Fresh(EnvConfig).age = 0
  BY EnvConfigFacts, FreshFacts
<1>3. Fresh(EnvConfig) # Void
  BY <1>2, UpstreamsAssumption
<1>4. /\ copy' = [copy EXCEPT ![q] = Fresh(EnvConfig)]
      /\ place' = [place EXCEPT ![q] = "send"]
      /\ UNCHANGED <<entry, fill, posts>>
  BY DEF UseEnvironment, Settle
<1>5. StampsTypeOK'
  BY <1>2, <1>3, <1>4, UpstreamsAssumption DEF UpstreamsTypeOK, StampsTypeOK
<1>. QED BY <1>1, <1>5

LEMMA SetDefaultUpstreamType ==
  ASSUME UpstreamsTypeOK, NEW q \in Stamps, SetDefaultUpstream(q)
  PROVE  EditsTypeOK' /\ StampsTypeOK'
<1>1. EditsTypeOK'
  BY RowsStand DEF SetDefaultUpstream, rowVars, UpstreamsTypeOK
<1>2. fill[q] \in Copy
  BY DEF SetDefaultUpstream, UpstreamsTypeOK
<1>3. entry' \in Copy \cup {Void} /\ (entry' # Void => entry'.age <= DefaultLife)
  BY <1>2, UpstreamsAssumption DEF SetDefaultUpstream, UpstreamsTypeOK, Copy
<1>4. fill' = [fill EXCEPT ![q] = Void] /\ UNCHANGED <<copy, place, posts>>
  BY DEF SetDefaultUpstream
<1>5. StampsTypeOK'
  BY <1>3, <1>4 DEF UpstreamsTypeOK, StampsTypeOK
<1>. QED BY <1>1, <1>5

LEMMA SendType ==
  ASSUME UpstreamsTypeOK, NEW q \in Stamps,
         NEW outcome \in Outcomes, Send(q, outcome)
  PROVE  EditsTypeOK' /\ StampsTypeOK'
<1>1. EditsTypeOK'
  BY RowsStand DEF Send, rowVars, UpstreamsTypeOK
<1>2. \E where \in {"send"} \cup Ended : place' = [place EXCEPT ![q] = where]
  BY DEF Send, Settle, Ended, Outcomes
<1>3. posts[q].sent \in Nat /\ posts[q].served \in Nat
  BY DEF UpstreamsTypeOK
<1>4. posts' \in [Stamps -> [sent : Nat, served : Nat]]
  BY <1>3 DEF Send, UpstreamsTypeOK
<1>5. place[q] = "send" /\ UNCHANGED <<entry, fill, copy>>
  BY DEF Send
<1>6. place \in [Stamps -> {"idle", "select", "send"} \cup Ended]
  BY DEF UpstreamsTypeOK
<1>7. /\ place' \in [Stamps -> {"idle", "select", "send"} \cup Ended]
      /\ \A s \in Stamps : place'[s] \in {"idle", "select"} <=> place[s] \in {"idle", "select"}
  BY <1>2, <1>5, <1>6 DEF Ended
<1>8. StampsTypeOK'
  BY <1>4, <1>5, <1>7 DEF UpstreamsTypeOK, StampsTypeOK
<1>. QED BY <1>1, <1>8

LEMMA EndType ==
  ASSUME UpstreamsTypeOK, NEW q \in Stamps, ClientGone(q) \/ EndStamp(q)
  PROVE  EditsTypeOK' /\ StampsTypeOK'
<1>1. EditsTypeOK'
  BY RowsStand DEF ClientGone, EndStamp, rowVars, UpstreamsTypeOK
<1>2. CASE ClientGone(q)
  BY <1>1, <1>2 DEF ClientGone, Settle, UpstreamsTypeOK, StampsTypeOK, Ended
<1>3. CASE EndStamp(q)
  BY <1>1, <1>3 DEF EndStamp, Settle, UpstreamsTypeOK, StampsTypeOK, Ended
<1>. QED BY <1>2, <1>3

LEMMA TickCopies ==
  ASSUME UpstreamsTypeOK, UpstreamsTick
  PROVE  /\ \A q \in Stamps : Grown(fill[q], fill'[q]) /\ Grown(copy[q], copy'[q])
         /\ entry' = Void \/ (entry # Void /\ entry.age < DefaultLife /\ Grown(entry, entry'))
         /\ fill' \in [Stamps -> Copy \cup {Void}]
         /\ copy' \in [Stamps -> Copy \cup {Void}]
<1>1. \A q \in Stamps : fill[q] \in Copy \cup {Void} /\ copy[q] \in Copy \cup {Void}
  BY DEF UpstreamsTypeOK
<1>2. \A q \in Stamps : fill'[q] = Older1(fill[q]) /\ copy'[q] = Older1(copy[q])
  BY DEF UpstreamsTick
<1>3. \A q \in Stamps : Grown(fill[q], fill'[q]) /\ Grown(copy[q], copy'[q])
  BY <1>1, <1>2, OlderGrown
<1>4. \A q \in Stamps : fill'[q] \in Copy \cup {Void} /\ copy'[q] \in Copy \cup {Void}
  BY <1>3 DEF Grown
<1>5. entry' = Void \/ (entry # Void /\ entry.age < DefaultLife /\ Grown(entry, entry'))
  <2>1. entry # Void => Older1(entry) = Aging(entry) /\ Grown(entry, Older1(entry))
    BY OlderGrown DEF UpstreamsTypeOK, Older1
  <2>. QED BY <2>1 DEF UpstreamsTick, EntryLives
<1>. QED BY <1>3, <1>4, <1>5 DEF UpstreamsTick

LEMMA TickType ==
  ASSUME UpstreamsTypeOK, UpstreamsTick
  PROVE  EditsTypeOK' /\ StampsTypeOK'
<1>1. EditsTypeOK'
  BY RowsStand DEF UpstreamsTick, rowVars, UpstreamsTypeOK
<1>2. entry' \in Copy \cup {Void} /\ (entry' # Void => entry'.age <= DefaultLife)
  BY TickCopies, UpstreamsAssumption DEF Grown, Copy
<1>3. ASSUME NEW q \in Stamps
      PROVE  /\ fill'[q] # Void => fill'[q].age <= MaxLag
             /\ copy'[q] # Void => copy'[q].age <= MaxLag
             /\ copy'[q] = Void <=> copy[q] = Void
  <2>1. fill[q] # Void => fill[q].age < MaxLag
    BY DEF UpstreamsTick
  <2>2. copy[q] # Void => copy[q].age < MaxLag
    BY DEF UpstreamsTick
  <2>3. Grown(fill[q], fill'[q]) /\ Grown(copy[q], copy'[q])
    BY TickCopies
  <2>. QED BY <2>1, <2>2, <2>3, UpstreamsAssumption DEF Grown, Copy
<1>4. UNCHANGED <<place, posts>>
  BY DEF UpstreamsTick
<1>5. StampsTypeOK'
  BY <1>2, <1>3, <1>4, TickCopies DEF UpstreamsTypeOK, StampsTypeOK
<1>. QED BY <1>1, <1>5

LEMMA CrashType ==
  ASSUME UpstreamsTypeOK, UpstreamsCrash
  PROVE  EditsTypeOK' /\ StampsTypeOK'
<1>1. EditsTypeOK'
  BY UpstreamsAssumption DEF UpstreamsCrash, UpFault, UpstreamsTypeOK, EditsTypeOK
<1>2. StampsTypeOK'
  BY DEF UpstreamsCrash, UpstreamsTypeOK, StampsTypeOK
<1>. QED BY <1>1, <1>2

\* Every step keeps the types.
LEMMA UpstreamsStepType ==
  ASSUME UpstreamsTypeOK, [UpstreamsNext]_upstreamsVars
  PROVE  UpstreamsTypeOK'
<1>1. CASE UpstreamsNext
  BY <1>1, TypePartsNext, CreateType, UpdateType, DeleteType, SetDefaultType, WriteBackType,
     InvalidateType, GetDefaultType, SelectType, EnvironmentType, SetDefaultUpstreamType,
     SendType, EndType, TickType, CrashType DEF UpstreamsNext
<1>2. CASE UNCHANGED upstreamsVars
  BY <1>2 DEF UpstreamsTypeOK, upstreamsVars
<1>. QED BY <1>1, <1>2

LEMMA UpstreamsInitType == UpstreamsInit => UpstreamsTypeOK
BY UpstreamsAssumption DEF UpstreamsInit, UpstreamsTypeOK

\* The state keeps its kinds, the copies their ages, and every edit under way a
\* row to write back to: for any number of editors, requests, edits and failures.
THEOREM UpstreamsTypeCorrect == UpstreamsSpec => []UpstreamsTypeOK
BY UpstreamsInitType, UpstreamsStepType, PTL DEF UpstreamsSpec

-----------------------------------------------------------------------------
\* Whose credentials go where.  An edit under way holds a whole row, which has to
\* be at home already: it is written back over whatever is there by then.
Housed(p) == p # Void => AtHome(p.cfg)

CopiesHoused == Housed(entry) /\ \A q \in Stamps : Housed(fill[q]) /\ Housed(copy[q])

Home ==
  /\ \A i \in Upstream : stored[i] # Void => AtHome(stored[i])
  /\ \A e \in Editors : edit[e] # Void => AtHome(edit[e].new)
  /\ CopiesHoused

LEMMA SameHoused ==
  ASSUME CopiesHoused, CopiesSame
  PROVE  CopiesHoused'
<1>1. ASSUME NEW p, NEW r, Same(p, r), Housed(p)  PROVE Housed(r)
  BY <1>1, UpstreamsAssumption DEF Same, Housed
<1>2. Housed(entry')
  BY <1>1 DEF CopiesHoused, CopiesSame
<1>3. ASSUME NEW q \in Stamps  PROVE Housed(fill'[q]) /\ Housed(copy'[q])
  BY <1>1 DEF CopiesHoused, CopiesSame
<1>. QED BY <1>2, <1>3 DEF CopiesHoused, Housed, AtHome

LEMMA CopiesStandHoused ==
  ASSUME CopiesHoused, UNCHANGED <<entry, fill, copy>>
  PROVE  CopiesHoused'
BY DEF CopiesHoused, Housed, AtHome

LEMMA CreateHome ==
  ASSUME UpstreamsTypeOK, Home, NEW i \in Upstream, NEW h \in Hosts, NEW f \in Fillings, NEW n \in Retries,
         CreateUpstream(i, h, f, n)
  PROVE  Home'
<1> DEFINE c == [host |-> h, user |-> Filled(f[1], Void, h), pass |-> Filled(f[2], Void, h),
                 retries |-> n, active |-> TRUE]
<1>1. AtHome(c)
  BY FilledType DEF AtHome
<1>2. stored' = [stored EXCEPT ![i] = c] /\ edit' = edit
  BY DEF CreateUpstream
<1> HIDE DEF c
<1>3. CopiesHoused'
  BY CopiesSeenSame, SameHoused DEF CreateUpstream, Home
<1>. QED BY <1>1, <1>2, <1>3 DEF Home, UpstreamsTypeOK, AtHome

LEMMA UpdateHome ==
  ASSUME UpstreamsTypeOK, Home, NEW e \in Editors, NEW i \in Upstream, NEW f \in Form, UpdateUpstream(e, i, f)
  PROVE  Home'
<1>1. stored[i] \in Config /\ AtHome(stored[i])
  BY DEF UpdateUpstream, UpstreamsTypeOK, Home
<1>2. AtHome(Applied(stored[i], f))
  BY <1>1, AppliedAtHome
<1> DEFINE x == [op |-> "update", row |-> i, new |-> Applied(stored[i], f), was |-> default = i]
<1>3. x.new = Applied(stored[i], f) /\ edit' = [edit EXCEPT ![e] = x]
  BY DEF UpdateUpstream
<1> HIDE DEF x
<1>4. AtHome(x.new)
  BY <1>2, <1>3
<1>5. CopiesHoused'
  BY CopiesStandHoused DEF UpdateUpstream, stampVars, Home
<1>. QED BY <1>3, <1>4, <1>5 DEF UpdateUpstream, Home, UpstreamsTypeOK, AtHome

LEMMA DeleteHome ==
  ASSUME UpstreamsTypeOK, Home, NEW e \in Editors, NEW i \in Upstream, DeleteUpstream(e, i)
  PROVE  Home'
<1>1. stored[i] \in Config /\ AtHome(stored[i])
  BY DEF DeleteUpstream, UpstreamsTypeOK, Home
<1>2. AtHome(WithActive(stored[i], FALSE))
  BY <1>1, WithActiveFacts
<1> DEFINE x == [op |-> "delete", row |-> i, new |-> WithActive(stored[i], FALSE), was |-> default = i]
<1>3. x.new = WithActive(stored[i], FALSE) /\ edit' = [edit EXCEPT ![e] = x]
  BY DEF DeleteUpstream
<1> HIDE DEF x
<1>4. AtHome(x.new)
  BY <1>2, <1>3
<1>5. CopiesHoused'
  BY CopiesStandHoused DEF DeleteUpstream, stampVars, Home
<1>. QED BY <1>3, <1>4, <1>5 DEF DeleteUpstream, Home, UpstreamsTypeOK, AtHome

LEMMA SetDefaultHome ==
  ASSUME UpstreamsTypeOK, Home, NEW i \in Upstream, SetDefault(i)
  PROVE  Home'
<1>1. stored[i] # Void => AtHome(WithActive(stored[i], TRUE))
  BY WithActiveFacts DEF UpstreamsTypeOK, Home
<1>2. CopiesHoused'
  BY CopiesSeenSame, SameHoused DEF SetDefault, Home
<1>3. stored' = stored \/ (stored[i] # Void /\ stored' = [stored EXCEPT ![i] = WithActive(stored[i], TRUE)])
  BY DEF SetDefault
<1>4. edit' = edit
  BY DEF SetDefault
<1>. QED BY <1>1, <1>2, <1>3, <1>4 DEF Home, UpstreamsTypeOK, AtHome

LEMMA WriteBackHome ==
  ASSUME UpstreamsTypeOK, Home, NEW e \in Editors, WriteBack(e)
  PROVE  Home'
<1>1. edit[e] # Void /\ AtHome(edit[e].new)
  BY DEF WriteBack, Home
<1>2. CopiesHoused'
  BY CopiesSeenSame, SameHoused DEF WriteBack, Home
<1>3. stored' = [stored EXCEPT ![edit[e].row] = edit[e].new] /\ edit' = [edit EXCEPT ![e] = Void]
  BY DEF WriteBack
<1>. QED BY <1>1, <1>2, <1>3 DEF Home, UpstreamsTypeOK, AtHome

\* No step of a stamp, nor time, nor a restart, makes up a credential.
LEMMA StampsHome ==
  ASSUME UpstreamsTypeOK, Home, UNCHANGED stored, UNCHANGED edit \/ \A e \in Editors : edit'[e] = Void,
         CopiesHoused'
  PROVE  Home'
BY DEF Home, AtHome

LEMMA UpstreamsStepHome ==
  ASSUME UpstreamsTypeOK, Home, [UpstreamsNext]_upstreamsVars
  PROVE  Home'
<1>1. ASSUME NEW q \in Stamps, GetDefaultUpstream(q)  PROVE Home'
  <2>1. CopiesHoused'
    BY <1>1 DEF GetDefaultUpstream, Home, CopiesHoused, Housed, AtHome, UpstreamsTypeOK
  <2>. QED BY <1>1, <2>1, StampsHome DEF GetDefaultUpstream
<1>2. ASSUME NEW q \in Stamps, SelectDefault(q)  PROVE Home'
  <2>1. Default # Void /\ AtHome(Default)
    BY <1>2 DEF SelectDefault, Default, DefaultIn, Home, UpstreamsTypeOK
  <2>2. Housed(Fresh(Default))
    BY <2>1 DEF Housed, Fresh
  <2>3. copy' = [copy EXCEPT ![q] = Fresh(Default)] /\ fill' = [fill EXCEPT ![q] = Fresh(Default)]
    BY <1>2 DEF SelectDefault
  <2>4. CopiesHoused'
    BY <1>2, <2>2, <2>3 DEF SelectDefault, Home, CopiesHoused, Housed, AtHome, UpstreamsTypeOK
  <2>. QED BY <1>2, <2>4, StampsHome DEF SelectDefault
<1>3. ASSUME NEW q \in Stamps, UseEnvironment(q)  PROVE Home'
  <2>1. Housed(Fresh(EnvConfig))
    BY EnvConfigFacts DEF Housed, Fresh
  <2>2. copy' = [copy EXCEPT ![q] = Fresh(EnvConfig)]
    BY <1>3 DEF UseEnvironment
  <2>3. CopiesHoused'
    BY <1>3, <2>1, <2>2 DEF UseEnvironment, Home, CopiesHoused, Housed, AtHome, UpstreamsTypeOK
  <2>. QED BY <1>3, <2>3, StampsHome DEF UseEnvironment
<1>4. ASSUME NEW q \in Stamps, SetDefaultUpstream(q)  PROVE Home'
  <2>1. CopiesHoused'
    BY <1>4 DEF SetDefaultUpstream, Home, CopiesHoused, Housed, AtHome, UpstreamsTypeOK
  <2>. QED BY <1>4, <2>1, StampsHome DEF SetDefaultUpstream
<1>5. ASSUME NEW q \in Stamps, NEW outcome \in Outcomes, Send(q, outcome)
      PROVE  Home'
  BY <1>5, CopiesStandHoused, StampsHome DEF Send, Home
<1>6. ASSUME NEW q \in Stamps, ClientGone(q)  PROVE Home'
  BY <1>6, CopiesStandHoused, StampsHome DEF ClientGone, Home
<1>7. ASSUME NEW q \in Stamps, EndStamp(q)  PROVE Home'
  <2>1. CopiesHoused'
    BY <1>7 DEF EndStamp, Home, CopiesHoused, Housed, AtHome, UpstreamsTypeOK
  <2>. QED BY <1>7, <2>1, StampsHome DEF EndStamp
<1>8. CASE UpstreamsTick
  <2>1. ASSUME NEW p, NEW r, Grown(p, r), Housed(p)  PROVE Housed(r)
    BY <2>1, UpstreamsAssumption DEF Grown, Housed
  <2>2. Housed(entry')
    BY <1>8, <2>1, TickCopies DEF Home, CopiesHoused, Housed
  <2>3. ASSUME NEW q \in Stamps  PROVE Housed(fill'[q]) /\ Housed(copy'[q])
    BY <1>8, <2>1, TickCopies DEF Home, CopiesHoused
  <2>4. CopiesHoused'
    BY <2>2, <2>3 DEF CopiesHoused, Housed, AtHome
  <2>. QED BY <1>8, <2>4, StampsHome DEF UpstreamsTick
<1>9. CASE UpstreamsCrash
  <2>1. CopiesHoused'
    BY <1>9 DEF UpstreamsCrash, Home, CopiesHoused, Housed, AtHome
  <2>. QED BY <1>9, <2>1, StampsHome DEF UpstreamsCrash
<1>10. CASE InvalidateDefaultUpstream
  <2>1. CopiesHoused'
    BY <1>10 DEF InvalidateDefaultUpstream, stampVars, Home, CopiesHoused, Housed, AtHome
  <2>. QED BY <1>10, <2>1, StampsHome DEF InvalidateDefaultUpstream
<1>11. CASE UNCHANGED upstreamsVars
  BY <1>11, CopiesStandHoused, StampsHome DEF upstreamsVars, Home
<1>. QED BY <1>1, <1>2, <1>3, <1>4, <1>5, <1>6, <1>7, <1>8, <1>9, <1>10, <1>11, CreateHome, UpdateHome,
          DeleteHome, SetDefaultHome, WriteBackHome DEF UpstreamsNext

LEMMA UpstreamsInitHome == UpstreamsInit => Home
BY DEF UpstreamsInit, Home, CopiesHoused, Housed

LEMMA HomeStay == Home => CredentialsStayHome
BY DEF Home, CopiesHoused, Housed, CredentialsStayHome, Copies

\* A stored username or password goes to no host but the one it was entered for,
\* for any number of editors whose reads and writes interleave.
THEOREM CredentialsCorrect == UpstreamsSpec => []CredentialsStayHome
<1>1. UpstreamsInit => UpstreamsTypeOK /\ Home
  BY UpstreamsInitType, UpstreamsInitHome
<1>2. UpstreamsTypeOK /\ Home /\ [UpstreamsNext]_upstreamsVars => UpstreamsTypeOK' /\ Home'
  BY UpstreamsStepType, UpstreamsStepHome
<1>3. UpstreamsTypeOK /\ Home => CredentialsStayHome
  BY HomeStay
<1>. QED BY <1>1, <1>2, <1>3, PTL DEF UpstreamsSpec

-----------------------------------------------------------------------------
\* How old a default may be.  Each place a copy goes through adds what it may
\* wait there: in a goroutine, in Redis, in a request.
Lag ==
  /\ entry # Void => entry.old <= entry.age + MaxLag
  /\ \A q \in Stamps :
       /\ fill[q] # Void => fill[q].old <= fill[q].age
       /\ copy[q] # Void => copy[q].old <= DefaultLife + MaxLag + copy[q].age

LEMMA SameLag ==
  ASSUME Lag, CopiesSame
  PROVE  Lag'
<1>1. ASSUME NEW p, NEW r, Same(p, r), r # Void
      PROVE  /\ p # Void /\ r.age = p.age
             /\ r.old \in Nat /\ p.old \in Nat /\ p.age \in Nat /\ r.old <= p.old
  BY <1>1, UpstreamsAssumption DEF Same, Copy
<1>2. entry' # Void => entry'.old <= entry'.age + MaxLag
  BY <1>1, UpstreamsAssumption DEF Lag, CopiesSame
<1>3. ASSUME NEW q \in Stamps
      PROVE  /\ fill'[q] # Void => fill'[q].old <= fill'[q].age
             /\ copy'[q] # Void => copy'[q].old <= DefaultLife + MaxLag + copy'[q].age
  <2>1. fill'[q] # Void => fill'[q].old <= fill'[q].age
    BY <1>1 DEF Lag, CopiesSame
  <2>2. copy'[q] # Void => copy'[q].old <= DefaultLife + MaxLag + copy'[q].age
    BY <1>1, UpstreamsAssumption DEF Lag, CopiesSame
  <2>. QED BY <2>1, <2>2
<1>. QED BY <1>2, <1>3 DEF Lag

LEMMA StandLag ==
  ASSUME Lag, UNCHANGED <<entry, fill, copy>>
  PROVE  Lag'
BY DEF Lag

LEMMA TickLag ==
  ASSUME UpstreamsTypeOK, Lag, UpstreamsTick
  PROVE  Lag'
<1>1. ASSUME NEW p, NEW r, Grown(p, r), r # Void
      PROVE  /\ p # Void /\ r.age = p.age + 1
             /\ r.old \in Nat /\ p.old \in Nat /\ p.age \in Nat /\ r.old <= p.old + 1
  BY <1>1, UpstreamsAssumption DEF Grown, Copy
<1>2. entry' # Void => entry'.old <= entry'.age + MaxLag
  <2>1. entry' # Void => Grown(entry, entry')
    BY TickCopies
  <2>. QED BY <1>1, <2>1, UpstreamsAssumption DEF Lag
<1>3. ASSUME NEW q \in Stamps
      PROVE  /\ fill'[q] # Void => fill'[q].old <= fill'[q].age
             /\ copy'[q] # Void => copy'[q].old <= DefaultLife + MaxLag + copy'[q].age
  <2>1. Grown(fill[q], fill'[q]) /\ Grown(copy[q], copy'[q])
    BY TickCopies
  <2>2. fill'[q] # Void => fill'[q].old <= fill'[q].age
    BY <1>1, <2>1 DEF Lag
  <2>3. copy'[q] # Void => copy'[q].old <= DefaultLife + MaxLag + copy'[q].age
    BY <1>1, <2>1, UpstreamsAssumption DEF Lag
  <2>. QED BY <2>2, <2>3
<1>. QED BY <1>2, <1>3 DEF Lag

LEMMA UpstreamsStepLag ==
  ASSUME UpstreamsTypeOK, Lag, [UpstreamsNext]_upstreamsVars
  PROVE  Lag'
<1> USE UpstreamsAssumption
<1>1. ASSUME CopiesSeen  PROVE Lag'
  BY <1>1, CopiesSeenSame, SameLag
<1>2. ASSUME NEW q \in Stamps, GetDefaultUpstream(q)  PROVE Lag'
  <2>1. entry # Void => entry.old \in Nat /\ entry.age \in Nat /\ entry.age <= DefaultLife
    BY DEF UpstreamsTypeOK, Copy
  <2> DEFINE c == [cfg |-> entry.cfg, age |-> 0, old |-> entry.old]
  <2>2. c.age = 0 /\ c.old = entry.old
    OBVIOUS
  <2>3. copy' = copy \/ (entry # Void /\ copy' = [copy EXCEPT ![q] = c])
    BY <1>2 DEF GetDefaultUpstream
  <2> HIDE DEF c
  <2>4. entry # Void => c.old <= DefaultLife + MaxLag + c.age
    BY <2>1, <2>2 DEF Lag
  <2>5. UNCHANGED <<entry, fill>>
    BY <1>2 DEF GetDefaultUpstream
  <2>. QED BY <2>3, <2>4, <2>5 DEF Lag, UpstreamsTypeOK
<1>3. ASSUME NEW q \in Stamps, SelectDefault(q)  PROVE Lag'
  <2>1. Fresh(Default).age = 0 /\ Fresh(Default).old = 0
    BY DEF Fresh
  <2>2. copy' = [copy EXCEPT ![q] = Fresh(Default)] /\ fill' = [fill EXCEPT ![q] = Fresh(Default)]
    BY <1>3 DEF SelectDefault
  <2>3. entry' = entry
    BY <1>3 DEF SelectDefault
  <2>. QED BY <2>1, <2>2, <2>3 DEF Lag, UpstreamsTypeOK
<1>4. ASSUME NEW q \in Stamps, UseEnvironment(q)  PROVE Lag'
  <2>1. Fresh(EnvConfig).age = 0 /\ Fresh(EnvConfig).old = 0
    BY DEF Fresh
  <2>2. copy' = [copy EXCEPT ![q] = Fresh(EnvConfig)] /\ UNCHANGED <<entry, fill>>
    BY <1>4 DEF UseEnvironment
  <2>. QED BY <2>1, <2>2 DEF Lag, UpstreamsTypeOK
<1>5. ASSUME NEW q \in Stamps, SetDefaultUpstream(q)  PROVE Lag'
  <2>1. /\ fill[q] # Void /\ fill[q].old \in Nat /\ fill[q].age \in Nat
        /\ fill[q].old <= fill[q].age /\ fill[q].age <= MaxLag
    BY <1>5 DEF SetDefaultUpstream, UpstreamsTypeOK, Copy, Lag
  <2>2. entry' # Void => entry'.old <= entry'.age + MaxLag
    BY <1>5, <2>1 DEF SetDefaultUpstream, Lag
  <2>3. fill' = [fill EXCEPT ![q] = Void] /\ copy' = copy
    BY <1>5 DEF SetDefaultUpstream
  <2>. QED BY <2>2, <2>3 DEF Lag, UpstreamsTypeOK
<1>6. ASSUME NEW q \in Stamps, EndStamp(q)  PROVE Lag'
  BY <1>6 DEF EndStamp, Lag, UpstreamsTypeOK
<1>7. CASE UpstreamsCrash
  BY <1>7 DEF UpstreamsCrash, Lag
<1>8. CASE InvalidateDefaultUpstream
  BY <1>8 DEF InvalidateDefaultUpstream, stampVars, Lag
<1>9. CASE UNCHANGED upstreamsVars
  BY <1>9, StandLag DEF upstreamsVars
<1>10. ASSUME NEW q \in Stamps, NEW outcome, Send(q, outcome) \/ ClientGone(q)  PROVE Lag'
  BY <1>10, StandLag DEF Send, ClientGone
<1>11. ASSUME NEW e, NEW i, NEW f, UpdateUpstream(e, i, f) \/ DeleteUpstream(e, i)  PROVE Lag'
  BY <1>11, StandLag DEF UpdateUpstream, DeleteUpstream, stampVars
<1>12. ASSUME NEW i, NEW h, NEW f, NEW n, CreateUpstream(i, h, f, n) \/ SetDefault(i)  PROVE Lag'
  BY <1>1, <1>12 DEF CreateUpstream, SetDefault
<1>13. ASSUME NEW e, WriteBack(e)  PROVE Lag'
  BY <1>1, <1>13 DEF WriteBack
<1>. QED BY <1>2, <1>3, <1>4, <1>5, <1>6, <1>7, <1>8, <1>9, <1>10, <1>11, <1>12, <1>13, TickLag
         DEF UpstreamsNext

\* A request uses no default that was replaced longer ago than an entry lives and
\* two reads may lag, for any lifetime and lag.
THEOREM DefaultCorrect == UpstreamsSpec => []DefaultRecent
<1>1. UpstreamsInit => UpstreamsTypeOK /\ Lag
  BY UpstreamsInitType DEF UpstreamsInit, Lag
<1>2. UpstreamsTypeOK /\ Lag /\ [UpstreamsNext]_upstreamsVars => UpstreamsTypeOK' /\ Lag'
  BY UpstreamsStepType, UpstreamsStepLag
<1>3. UpstreamsTypeOK /\ Lag => DefaultRecent
  BY UpstreamsAssumption DEF UpstreamsTypeOK, Lag, DefaultRecent, Copy
<1>. QED BY <1>1, <1>2, <1>3, PTL DEF UpstreamsSpec

-----------------------------------------------------------------------------
\* How often a request is sent, by where it is.  A copy never changes its retries.
Count(p, w, c) ==
  /\ p.served <= p.sent
  /\ w \in {"idle", "select"} => p.sent = 0
  /\ w = "send" => p.sent <= c.cfg.retries
  /\ c # Void => p.sent <= c.cfg.retries + 1
  /\ w = "failed" => p.sent = c.cfg.retries + 1

Counts == \A q \in Stamps : Count(posts[q], place[q], copy[q])

CfgStand == \A q \in Stamps : /\ copy'[q] = Void <=> copy[q] = Void
                              /\ copy[q] # Void => copy'[q].cfg = copy[q].cfg

LEMMA CopyRetries ==
  ASSUME UpstreamsTypeOK, NEW q \in Stamps, copy[q] # Void
  PROVE  copy[q].cfg.retries \in Nat
<1>1. copy[q].cfg \in Config
  BY DEF UpstreamsTypeOK, Copy
<1>. QED BY <1>1, UpstreamsAssumption DEF Config

LEMMA StandCounts ==
  ASSUME UpstreamsTypeOK, Counts, CfgStand, UNCHANGED <<place, posts>>
  PROVE  Counts'
<1>1. ASSUME NEW q \in Stamps  PROVE Count(posts[q], place[q], copy'[q])
  <2>1. place[q] \notin {"idle", "select"} <=> copy[q] # Void
    BY DEF UpstreamsTypeOK
  <2>. QED BY <2>1 DEF Counts, Count, CfgStand
<1>. QED BY <1>1 DEF Counts

\* A step of one stamp.
LEMMA OneCounts ==
  ASSUME UpstreamsTypeOK, Counts, NEW q \in Stamps,
         \A r \in Stamps \ {q} : UNCHANGED <<posts[r], place[r], copy[r]>>,
         Count(posts'[q], place'[q], copy'[q])
  PROVE  Counts'
<1>1. ASSUME NEW r \in Stamps  PROVE Count(posts'[r], place'[r], copy'[r])
  <2>1. CASE r = q
    BY <2>1
  <2>2. CASE r # q
    <3>1. posts'[r] = posts[r] /\ place'[r] = place[r] /\ copy'[r] = copy[r]
      BY <2>2
    <3>2. Count(posts[r], place[r], copy[r])
      BY DEF Counts
    <3>. QED BY <3>1, <3>2
  <2>. QED BY <2>1, <2>2
<1>. QED BY <1>1 DEF Counts

LEMMA SendCounts ==
  ASSUME UpstreamsTypeOK, Counts, NEW q \in Stamps,
         NEW outcome \in Outcomes, Send(q, outcome)
  PROVE  Counts'
<1> DEFINE p == [sent   |-> posts[q].sent + 1,
                 served |-> posts[q].served + IF outcome \in {"stamp", "lost"} THEN 1 ELSE 0]
           w == CASE outcome \in {"stamp", "denied"} -> "success"
                  [] outcome = "5xx" -> "refused"
                  [] outcome \in {"lost", "unreached"} -> IF MayRetry(q, p.sent) THEN "send" ELSE "failed"
<1>1. copy[q] # Void /\ place[q] = "send"
  BY DEF Send, UpstreamsTypeOK
<1>2. copy[q].cfg.retries \in Nat
  BY <1>1, CopyRetries
<1>3. /\ posts[q].sent \in Nat /\ posts[q].served \in Nat
      /\ posts[q].served <= posts[q].sent /\ posts[q].sent <= copy[q].cfg.retries
  BY <1>1 DEF UpstreamsTypeOK, Counts, Count
<1>4. posts' = [posts EXCEPT ![q] = p] /\ place' = [place EXCEPT ![q] = w] /\ copy' = copy
  BY DEF Send, Settle
<1>5. /\ p.sent = posts[q].sent + 1
      /\ p.served \in {posts[q].served, posts[q].served + 1}
  BY <1>3
<1>6. \/ w \in {"success", "refused"}
      \/ w = "send" /\ p.sent <= copy[q].cfg.retries
      \/ w = "failed" /\ ~(p.sent <= copy[q].cfg.retries)
  BY DEF MayRetry, Outcomes
<1> HIDE DEF p, w
<1>7. Count(p, w, copy[q])
  BY <1>2, <1>3, <1>5, <1>6 DEF Count
<1>8. posts'[q] = p /\ place'[q] = w /\ copy'[q] = copy[q]
  BY <1>4 DEF UpstreamsTypeOK
<1>9. \A r \in Stamps \ {q} : UNCHANGED <<posts[r], place[r], copy[r]>>
  BY <1>4 DEF UpstreamsTypeOK
<1>. QED BY <1>7, <1>8, <1>9, OneCounts

\* A request that takes a default has not been sent yet.
LEMMA TakeCounts ==
  ASSUME UpstreamsTypeOK, Counts, NEW q \in Stamps, place[q] \in {"idle", "select"},
         posts' = posts,
         \/ place' = [place EXCEPT ![q] = "select"] /\ copy' = copy
         \/ \E c \in Copy : place' = [place EXCEPT ![q] = "send"] /\ copy' = [copy EXCEPT ![q] = c]
  PROVE  Counts'
<1>1. posts[q].sent = 0 /\ posts[q].served <= posts[q].sent /\ copy[q] = Void
  BY DEF UpstreamsTypeOK, Counts, Count
<1>2. ASSUME NEW c \in Copy  PROVE c.cfg.retries \in Nat /\ c # Void
  <2>1. c.cfg \in Config
    BY DEF Copy
  <2>. QED BY <2>1, UpstreamsAssumption DEF Config
<1>3. Count(posts'[q], place'[q], copy'[q])
  BY <1>1, <1>2 DEF Count, UpstreamsTypeOK
<1>4. \A r \in Stamps \ {q} : UNCHANGED <<posts[r], place[r], copy[r]>>
  BY DEF UpstreamsTypeOK
<1>. QED BY <1>3, <1>4, OneCounts

LEMMA UpstreamsStepCounts ==
  ASSUME UpstreamsTypeOK, Counts, [UpstreamsNext]_upstreamsVars
  PROVE  Counts'
<1>1. ASSUME CopiesSeen, UNCHANGED <<place, posts>>  PROVE Counts'
  <2>1. CfgStand
    BY <1>1, CopiesSeenSame, UpstreamsAssumption DEF CopiesSame, Same, CfgStand
  <2>. QED BY <1>1, <2>1, StandCounts
<1>2. ASSUME UNCHANGED <<copy, place, posts>>  PROVE Counts'
  BY <1>2 DEF Counts
<1>3. ASSUME NEW q \in Stamps, GetDefaultUpstream(q)  PROVE Counts'
  <2> DEFINE c == [cfg |-> entry.cfg, age |-> 0, old |-> entry.old]
  <2>1. entry # Void => c \in Copy
    BY DEF UpstreamsTypeOK, Copy
  <2>2. \/ place' = [place EXCEPT ![q] = "select"] /\ copy' = copy
        \/ entry # Void /\ place' = [place EXCEPT ![q] = "send"] /\ copy' = [copy EXCEPT ![q] = c]
    BY <1>3 DEF GetDefaultUpstream, Settle
  <2>3. place[q] = "idle" /\ posts' = posts
    BY <1>3 DEF GetDefaultUpstream
  <2> HIDE DEF c
  <2>. QED BY <2>1, <2>2, <2>3, TakeCounts
<1>4. ASSUME NEW q \in Stamps, SelectDefault(q)  PROVE Counts'
  <2>1. Fresh(Default) \in Copy
    BY <1>4, DefaultConfig, FreshFacts DEF SelectDefault
  <2>2. /\ place[q] = "select" /\ posts' = posts
        /\ place' = [place EXCEPT ![q] = "send"] /\ copy' = [copy EXCEPT ![q] = Fresh(Default)]
    BY <1>4 DEF SelectDefault, Settle
  <2>. QED BY <2>1, <2>2, TakeCounts
<1>5. ASSUME NEW q \in Stamps, UseEnvironment(q)  PROVE Counts'
  <2>1. Fresh(EnvConfig) \in Copy
    BY EnvConfigFacts, FreshFacts
  <2>2. /\ place[q] = "select" /\ posts' = posts
        /\ place' = [place EXCEPT ![q] = "send"] /\ copy' = [copy EXCEPT ![q] = Fresh(EnvConfig)]
    BY <1>5 DEF UseEnvironment, Settle
  <2>. QED BY <2>1, <2>2, TakeCounts
<1>6. ASSUME NEW q \in Stamps, ClientGone(q)  PROVE Counts'
  <2>1. Count(posts'[q], place'[q], copy'[q])
    BY <1>6 DEF ClientGone, Settle, Counts, Count, UpstreamsTypeOK
  <2>2. \A r \in Stamps \ {q} : UNCHANGED <<posts[r], place[r], copy[r]>>
    BY <1>6 DEF ClientGone, Settle, UpstreamsTypeOK
  <2>. QED BY <2>1, <2>2, OneCounts
<1>7. ASSUME NEW q \in Stamps, EndStamp(q)  PROVE Counts'
  <2>1. Count(posts'[q], place'[q], copy'[q])
    BY <1>7 DEF EndStamp, Settle, Count, UpstreamsTypeOK
  <2>2. \A r \in Stamps \ {q} : UNCHANGED <<posts[r], place[r], copy[r]>>
    BY <1>7 DEF EndStamp, Settle, UpstreamsTypeOK
  <2>. QED BY <2>1, <2>2, OneCounts
<1>8. CASE UpstreamsTick
  <2>1. CfgStand
    BY <1>8, TickCopies, UpstreamsAssumption DEF Grown, CfgStand
  <2>. QED BY <1>8, <2>1, StandCounts DEF UpstreamsTick
<1>9. CASE UpstreamsCrash
  BY <1>9 DEF UpstreamsCrash, Counts, Count
<1>10. ASSUME NEW q \in Stamps, SetDefaultUpstream(q)  PROVE Counts'
  BY <1>2, <1>10 DEF SetDefaultUpstream
<1>11. CASE InvalidateDefaultUpstream \/ UNCHANGED upstreamsVars
  BY <1>2, <1>11 DEF InvalidateDefaultUpstream, stampVars, upstreamsVars
<1>12. ASSUME NEW e, NEW i, NEW f, UpdateUpstream(e, i, f) \/ DeleteUpstream(e, i)  PROVE Counts'
  BY <1>2, <1>12 DEF UpdateUpstream, DeleteUpstream, stampVars
<1>13. ASSUME NEW i, NEW h, NEW f, NEW n, CreateUpstream(i, h, f, n) \/ SetDefault(i)  PROVE Counts'
  BY <1>1, <1>13 DEF CreateUpstream, SetDefault
<1>14. ASSUME NEW e, WriteBack(e)  PROVE Counts'
  BY <1>1, <1>14 DEF WriteBack
<1>. QED BY <1>3, <1>4, <1>5, <1>6, <1>7, <1>8, <1>9, <1>10, <1>11, <1>12, <1>13, <1>14, SendCounts
         DEF UpstreamsNext

\* One request is posted, and stamped, at most once more than the retries of the
\* default it took, and given up unanswered only after the last: for any retries.
THEOREM SendsCorrect == UpstreamsSpec => []SendsCounted
<1>1. UpstreamsInit => UpstreamsTypeOK /\ Counts
  BY UpstreamsInitType DEF UpstreamsInit, Counts, Count
<1>2. UpstreamsTypeOK /\ Counts /\ [UpstreamsNext]_upstreamsVars => UpstreamsTypeOK' /\ Counts'
  BY UpstreamsStepType, UpstreamsStepCounts
<1>3. Counts => SendsCounted
  BY DEF Counts, Count, SendsCounted
<1>. QED BY <1>1, <1>2, <1>3, PTL DEF UpstreamsSpec
=============================================================================
