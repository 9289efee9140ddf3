----------------------------- MODULE TabProofs -----------------------------
(***************************************************************************)
(* What the refresh of the tabs table gives the operation that asked for   *)
(* it, and what a stop leaves, for any number of processes, instances and  *)
(* targets.  The argument: a listing goes from the browser to the table    *)
(* and from there to the operation; as long as the operation is not        *)
(* disturbed each of the three is what the browser shows.  Which of them   *)
(* an operation has is told by the steps it has left.                      *)
(* The second part is about the session with a tab's page (CdpTransport).  *)
(***************************************************************************)
EXTENDS TabSessions, CdpTransport, SequenceTheorems, TLAPS

USE HostAssumption, AddressAssumption, BoundsAssumption, IdleAssumption

\* What comes before a step, if the operation has still to do it: a listing is stored
\* and read back in this order, and only "access" comes between a listing and its
\* "replace" when the rows are not read back.
Ordered(todo) ==
  \A n \in 2 .. Len(todo) :
    /\ todo[n] = "replace" => todo[n - 1] \in {"targets", "access"}
    /\ todo[n] = "rows" => todo[n - 1] = "replace" /\ (n > 2 => todo[n - 2] = "targets")
    /\ todo[n] \in {"opened", "reconnect"} => todo[n - 1] = "rows"

OperationRecord ==
  [steps : Seq(Labels), instance : Instances, target : SUBSET Targets,
   listing : SUBSET BrowserTab, rows : SUBSET BrowserTab, tab : SUBSET BrowserTab]

WellFormed(o) ==
  /\ o \in OperationRecord
  /\ o.steps # <<>> /\ Ordered(o.steps)
  /\ \A t \in o.target : HostOf[t] = o.instance
  /\ \A r \in o.listing : HostOf[r.target] = o.instance

\* What an undisturbed operation knows: the listing it will store, the rows that are
\* stored, the rows it has read are what the browser shows.
Fresh(o) ==
  /\ Head(o.steps) = "replace" /\ Len(o.steps) > 1 /\ o.steps[2] = "rows" =>
       o.listing = Listing(o.instance)
  /\ Head(o.steps) = "rows" => tabs[o.instance] = Listing(o.instance)
  /\ Head(o.steps) \in {"opened", "reconnect"} => o.rows = Listing(o.instance)

OpsFresh == \A p \in Processes : op[p] # Idle /\ p \notin disturbed => Fresh(op[p])

\* After a clean stop nobody holds a listing that could bring rows back.
StopsClean ==
  \A i \in Instances : cleared[i] = "clean" => i \notin up /\ tabs[i] = {} /\ Holding(i) = {}

\* Types, with the shape of operations.
TabTypes ==
  /\ up \subseteq Instances
  /\ page \in [Targets -> {"new", "open", "gone"}]
  /\ address \in [Targets -> Addresses \cup {NoAddress}]
  /\ tabs \in [Instances -> SUBSET BrowserTab]
  /\ \A i \in Instances : \A r \in tabs[i] : HostOf[r.target] = i
  /\ op \in [Processes -> OperationRecord \cup {Idle}]
  /\ \A p \in Processes : op[p] # Idle => WellFormed(op[p])
  /\ requests \in 0 .. MaxRequests /\ changes \in 0 .. MaxChanges

TabInd == TabTypes /\ OpsFresh /\ StopsClean

-----------------------------------------------------------------------------
(* Steps of an operation.                                                  *)

\* The steps left after the first keep their order; what follows says what was first.
LEMMA OrderedTail ==
  ASSUME NEW todo \in Seq(Labels), todo # <<>>, Ordered(todo), Tail(todo) # <<>>
  PROVE  /\ Tail(todo) \in Seq(Labels) /\ Ordered(Tail(todo))
         /\ Len(todo) > 1 /\ Head(Tail(todo)) = todo[2] /\ Head(todo) = todo[1]
         /\ Len(Tail(todo)) = Len(todo) - 1
         /\ Len(Tail(todo)) > 1 => Tail(todo)[2] = todo[3]
<1>1. Tail(todo) \in Seq(Labels) /\ Len(Tail(todo)) = Len(todo) - 1 /\ Len(todo) \in Nat /\ Len(todo) > 1
  OBVIOUS
<1>2. \A n \in 1 .. Len(Tail(todo)) : Tail(todo)[n] = todo[n + 1]
  BY <1>1
<1>3. Ordered(Tail(todo))
  <2> DEFINE u == Tail(todo)
  <2> SUFFICES ASSUME NEW n \in 2 .. Len(u)
               PROVE  /\ u[n] = "replace" => u[n - 1] \in {"targets", "access"}
                      /\ u[n] = "rows" => u[n - 1] = "replace" /\ (n > 2 => u[n - 2] = "targets")
                      /\ u[n] \in {"opened", "reconnect"} => u[n - 1] = "rows"
    BY DEF Ordered
  <2>1. n + 1 \in 2 .. Len(todo) /\ n - 1 \in 1 .. Len(u) /\ n \in 1 .. Len(u) /\ (n > 2 => n - 2 \in 1 .. Len(u))
    BY <1>1
  <2>2. u[n] = todo[n + 1] /\ u[n - 1] = todo[(n + 1) - 1] /\ (n > 2 => u[n - 2] = todo[(n + 1) - 2] /\ n + 1 > 2)
    BY <1>1, <1>2, <2>1
  <2> HIDE DEF u
  <2>3. /\ todo[n + 1] = "replace" => todo[(n + 1) - 1] \in {"targets", "access"}
        /\ todo[n + 1] = "rows" => todo[(n + 1) - 1] = "replace" /\ (n + 1 > 2 => todo[(n + 1) - 2] = "targets")
        /\ todo[n + 1] \in {"opened", "reconnect"} => todo[(n + 1) - 1] = "rows"
    BY <2>1 DEF Ordered
  <2> QED BY <2>2, <2>3
<1>4. Head(Tail(todo)) = todo[2] /\ Head(todo) = todo[1]
  BY <1>1, <1>2
<1>5. Len(Tail(todo)) > 1 => Tail(todo)[2] = todo[3]
  BY <1>1, <1>2
<1> QED BY <1>1, <1>3, <1>4, <1>5

\* What the step after the first can be.
LEMMA OrderedNext ==
  ASSUME NEW todo \in Seq(Labels), Ordered(todo), Len(todo) > 1
  PROVE  /\ todo[2] = "replace" => todo[1] \in {"targets", "access"}
         /\ todo[2] = "rows" => todo[1] = "replace"
         /\ todo[2] \in {"opened", "reconnect"} => todo[1] = "rows"
         /\ Len(todo) > 2 /\ todo[3] = "rows" => todo[2] = "replace" /\ todo[1] = "targets"
<1>1. Len(todo) \in Nat /\ 2 \in 2 .. Len(todo) /\ 2 - 1 = 1
  OBVIOUS
<1>2. Len(todo) > 2 => 3 \in 2 .. Len(todo) /\ 3 - 1 = 2 /\ 3 - 2 = 1 /\ 3 > 2
  BY <1>1
<1> QED BY <1>1, <1>2 DEF Ordered

\* An operation that goes on with o: it is done, or one step further.
LEMMA ContinueEffect ==
  ASSUME TabTypes, NEW p \in Processes, NEW o, WellFormed(o), Continue(p, o)
  PROVE  /\ \A q \in Processes \ {p} : op'[q] = op[q]
         /\ op' \in [Processes -> OperationRecord \cup {Idle}]
         /\ op'[p] # Idle =>
              /\ WellFormed(op'[p])
              /\ op'[p].instance = o.instance /\ op'[p].target = o.target
              /\ op'[p].listing = o.listing /\ op'[p].rows = o.rows /\ op'[p].tab = o.tab
              /\ op'[p].steps = Tail(o.steps) /\ Len(o.steps) > 1
              /\ Head(op'[p].steps) = o.steps[2] /\ Head(o.steps) = o.steps[1]
              /\ Len(op'[p].steps) = Len(o.steps) - 1
              /\ Len(op'[p].steps) > 1 => op'[p].steps[2] = o.steps[3]
<1> DEFINE c == [o EXCEPT !.steps = Tail(o.steps)]
           d == IF Tail(o.steps) = <<>> THEN Idle ELSE c
<1>1. o \in OperationRecord /\ o.steps \in Seq(Labels) /\ o.steps # <<>> /\ Ordered(o.steps)
  BY DEF WellFormed, OperationRecord
<1>2. Tail(o.steps) \in Seq(Labels)
  BY <1>1
<1>3. /\ c \in OperationRecord /\ c.steps = Tail(o.steps)
      /\ c.instance = o.instance /\ c.target = o.target
      /\ c.listing = o.listing /\ c.rows = o.rows /\ c.tab = o.tab
  BY <1>1, <1>2 DEF OperationRecord
<1>4. op' = [op EXCEPT ![p] = d]
  BY DEF Continue
<1> HIDE DEF c
<1>5. op'[p] = d /\ (\A q \in Processes \ {p} : op'[q] = op[q]) /\ op' \in [Processes -> OperationRecord \cup {Idle}]
  BY <1>3, <1>4 DEF TabTypes
<1>6. ASSUME op'[p] # Idle PROVE Tail(o.steps) # <<>> /\ op'[p] = c
  BY <1>5, <1>6
<1>7. ASSUME op'[p] # Idle
      PROVE  /\ Ordered(c.steps) /\ Len(o.steps) > 1
             /\ Head(c.steps) = o.steps[2] /\ Head(o.steps) = o.steps[1]
             /\ Len(c.steps) = Len(o.steps) - 1
             /\ Len(c.steps) > 1 => c.steps[2] = o.steps[3]
  BY <1>1, <1>3, <1>6, <1>7, OrderedTail
<1>8. ASSUME op'[p] # Idle PROVE WellFormed(c)
  BY <1>3, <1>6, <1>7, <1>8 DEF WellFormed
<1> QED BY <1>3, <1>5, <1>6, <1>7, <1>8

\* An operation that is over.
LEMMA AnswerEffect ==
  ASSUME TabTypes, NEW p \in Processes, Answer(p)
  PROVE  /\ \A q \in Processes \ {p} : op'[q] = op[q]
         /\ op' \in [Processes -> OperationRecord \cup {Idle}] /\ op'[p] = Idle
  BY DEF Answer, TabTypes

\* The operation a process has.
LEMMA OpShape ==
  ASSUME TabTypes, NEW p \in Processes, op[p] # Idle
  PROVE  /\ WellFormed(op[p]) /\ op[p] \in OperationRecord
         /\ op[p].steps \in Seq(Labels) /\ Ordered(op[p].steps) /\ op[p].steps # <<>>
         /\ op[p].instance \in Instances /\ op[p].target \subseteq Targets
         /\ op[p].listing \subseteq BrowserTab /\ op[p].rows \subseteq BrowserTab /\ op[p].tab \subseteq BrowserTab
         /\ Head(op[p].steps) = op[p].steps[1] /\ Len(op[p].steps) \in Nat
<1>1. WellFormed(op[p])
  BY DEF TabTypes
<1>2. op[p] \in OperationRecord /\ op[p].steps # <<>> /\ Ordered(op[p].steps)
  BY <1>1 DEF WellFormed
<1>3. op[p].steps \in Seq(Labels)
  BY <1>2 DEF OperationRecord
<1>4. Head(op[p].steps) = op[p].steps[1] /\ Len(op[p].steps) \in Nat
  BY <1>2, <1>3
<1> QED BY <1>1, <1>2, <1>3, <1>4 DEF OperationRecord

-----------------------------------------------------------------------------
(* What a step of a process does, and that it keeps the invariant.         *)

StateTypes ==
  /\ up \subseteq Instances
  /\ page \in [Targets -> {"new", "open", "gone"}]
  /\ address \in [Targets -> Addresses \cup {NoAddress}]
  /\ requests \in 0 .. MaxRequests /\ changes \in 0 .. MaxChanges

RowTypes ==
  /\ tabs \in [Instances -> SUBSET BrowserTab]
  /\ \A i \in Instances : \A r \in tabs[i] : HostOf[r.target] = i

\* Without a browser, without rows and without a listing there will be no rows.
Dry(i) == i \notin up /\ tabs[i] = {} /\ Holding(i) = {}

ActorKeeps(p) ==
  /\ \A q \in Processes \ {p} : op'[q] = op[q]
  /\ op' \in [Processes -> OperationRecord \cup {Idle}]
  /\ op'[p] # Idle => WellFormed(op'[p])
  /\ StateTypes' /\ RowTypes'
  /\ \A i \in Instances : tabs'[i] # tabs[i] => op[p] # Idle /\ op[p].instance = i
  /\ op'[p] # Idle /\ (p \in disturbed => Lists(p)) => Fresh(op[p])'
  /\ \A i \in Instances : Dry(i) =>
       tabs'[i] = {} /\ (op'[p] # Idle /\ op'[p].instance = i => op'[p].listing = {})

\* Stops stay clean.
LEMMA StopsStayClean ==
  ASSUME TabTypes, StopsClean, Cleared, op' \in [Processes -> OperationRecord \cup {Idle}],
         \A i \in Instances : Dry(i) => tabs'[i] = {} /\ Holding(i)' = {}
  PROVE  StopsClean'
<1> SUFFICES ASSUME NEW i \in Instances, cleared'[i] = "clean"
             PROVE  i \notin up' /\ tabs'[i] = {} /\ Holding(i)' = {}
  BY DEF StopsClean
<1>1. /\ i \notin up'
      /\ \/ \E q \in Processes : ClearStep(q) /\ op[q].instance = i /\ Holding(i) = {}
         \/ cleared[i] = "clean"
  BY DEF Cleared
<1>2. ASSUME NEW q \in Processes, ClearStep(q), op[q].instance = i, Holding(i) = {}
      PROVE  tabs'[i] = {} /\ Holding(i)' = {}
  <2>1. tabs'[i] = {}
    BY <1>2 DEF ClearStep, NoRows, TabTypes
  <2>2. op'[q] = Idle /\ \A x \in Processes \ {q} : op'[x] = op[x]
    BY <1>2, AnswerEffect DEF ClearStep
  <2> QED BY <1>2, <2>1, <2>2 DEF Holding
<1>3. cleared[i] = "clean" => tabs'[i] = {} /\ Holding(i)' = {}
  BY DEF StopsClean, Dry
<1> QED BY <1>1, <1>2, <1>3

\* A step that keeps its own keeps the invariant: who is not disturbed by it sees the
\* browser and the rows as before.
LEMMA ActorKeepsInd ==
  ASSUME TabInd, NEW p \in Processes, ActorKeeps(p), DisturbedBy(p), Cleared
  PROVE  TabInd'
<1>0. TabTypes
  BY DEF TabInd
<1>1. \A q \in Processes : op'[q] # Idle => WellFormed(op'[q])
  BY <1>0 DEF ActorKeeps, TabTypes
<1>2. TabTypes'
  <2>1. \A q \in Processes : (op[q] # Idle => WellFormed(op[q]))'
    BY <1>1 DEF WellFormed
  <2> QED BY <2>1 DEF ActorKeeps, StateTypes, RowTypes, TabTypes
<1>3. OpsFresh'
  <2> SUFFICES ASSUME NEW q \in Processes, op'[q] # Idle, q \notin disturbed' PROVE Fresh(op[q])'
    BY DEF OpsFresh
  <2>1. CASE Head(op'[q].steps) \notin AfterListing
    BY <2>1 DEF Fresh, AfterListing
  <2>2. CASE Head(op'[q].steps) \in AfterListing /\ q = p
    BY <2>2 DEF DisturbedBy, ActorKeeps
  <2>3. CASE Head(op'[q].steps) \in AfterListing /\ q # p
    <3>1. op'[q] = op[q] /\ q \notin disturbed /\ ~ Touched(p, op[q].instance)
      BY <2>3 DEF DisturbedBy, ActorKeeps
    <3>2. Fresh(op[q])
      BY <3>1 DEF TabInd, OpsFresh
    <3> DEFINE i == op[q].instance
    <3>3. i \in Instances
      BY <1>0, <3>1, OpShape
    <3>4. Listing(op[q].instance)' = Listing(i) /\ tabs'[i] = tabs[i]
      BY <3>1, <3>3 DEF Touched, ActorKeeps
    <3>5. tabs'[op'[q].instance] = tabs[i]
      BY <3>1, <3>4
    <3> QED BY <3>1, <3>2, <3>4, <3>5 DEF Fresh
  <2> QED BY <2>1, <2>2, <2>3
<1>4. StopsClean'
  <2>1. op' \in [Processes -> OperationRecord \cup {Idle}]
    BY DEF ActorKeeps
  <2>2. ASSUME NEW i \in Instances, Dry(i) PROVE tabs'[i] = {} /\ Holding(i)' = {}
    <3>1. tabs'[i] = {} /\ (op'[p] # Idle /\ op'[p].instance = i => op'[p].listing = {})
      BY <2>2 DEF ActorKeeps
    <3>2. \A q \in Processes \ {p} : op'[q] = op[q] /\ q \notin Holding(i)
      BY <2>2 DEF ActorKeeps, Dry
    <3> QED BY <3>1, <3>2 DEF Holding
  <2> QED BY <1>0, <2>1, <2>2, StopsStayClean DEF TabInd
<1> QED BY <1>2, <1>3, <1>4 DEF TabInd

\* The operation is over.
LEMMA OverKeeps ==
  ASSUME TabTypes, NEW p \in Processes, Answer(p), StateTypes', tabs' = tabs
  PROVE  ActorKeeps(p)
<1>1. /\ \A q \in Processes \ {p} : op'[q] = op[q]
      /\ op' \in [Processes -> OperationRecord \cup {Idle}] /\ op'[p] = Idle
  BY AnswerEffect
<1>2. RowTypes'
  BY DEF TabTypes, RowTypes
<1> QED BY <1>1, <1>2 DEF ActorKeeps, Dry

\* The operation goes on, and had nothing to list, store or read back.
LEMMA GoingOnKeeps ==
  ASSUME TabTypes, NEW p \in Processes, op[p] # Idle, StateTypes', tabs' = tabs,
         NEW o, WellFormed(o), Continue(p, o), o.steps = op[p].steps,
         o.instance = op[p].instance, o.listing = op[p].listing,
         Head(op[p].steps) \notin {"targets", "replace", "rows"}
  PROVE  ActorKeeps(p)
<1>1. /\ \A q \in Processes \ {p} : op'[q] = op[q]
      /\ op' \in [Processes -> OperationRecord \cup {Idle}]
      /\ op'[p] # Idle =>
           /\ WellFormed(op'[p])
           /\ op'[p].instance = o.instance /\ op'[p].listing = o.listing
           /\ Len(o.steps) > 1 /\ Head(op'[p].steps) = o.steps[2] /\ Head(o.steps) = o.steps[1]
           /\ Len(op'[p].steps) = Len(o.steps) - 1
           /\ Len(op'[p].steps) > 1 => op'[p].steps[2] = o.steps[3]
  BY ContinueEffect
<1>2. o.steps \in Seq(Labels) /\ Ordered(o.steps) /\ Len(o.steps) \in Nat
  BY OpShape
<1>3. op'[p] # Idle => Fresh(op[p])'
  <2> SUFFICES ASSUME op'[p] # Idle PROVE Fresh(op[p])'
    OBVIOUS
  <2>1. /\ o.steps[2] = "replace" => o.steps[1] \in {"targets", "access"}
        /\ o.steps[2] = "rows" => o.steps[1] = "replace"
        /\ o.steps[2] \in {"opened", "reconnect"} => o.steps[1] = "rows"
        /\ Len(o.steps) > 2 /\ o.steps[3] = "rows" => o.steps[2] = "replace" /\ o.steps[1] = "targets"
    BY <1>1, <1>2, OrderedNext
  <2>2. Head(op'[p].steps) \notin {"rows", "opened", "reconnect"}
    BY <1>1, <2>1
  <2>3. ~ (Len(op'[p].steps) > 1 /\ op'[p].steps[2] = "rows")
    BY <1>1, <1>2, <2>1
  <2> QED BY <2>2, <2>3 DEF Fresh
<1>4. RowTypes'
  BY DEF TabTypes, RowTypes
<1>5. \A i \in Instances : Dry(i) =>
        tabs'[i] = {} /\ (op'[p] # Idle /\ op'[p].instance = i => op'[p].listing = {})
  BY <1>1 DEF Dry, Holding
<1> QED BY <1>1, <1>3, <1>4, <1>5 DEF ActorKeeps

-----------------------------------------------------------------------------
(* The steps.                                                              *)

\* A listing holds rows of its instance.
LEMMA ListingRows ==
  ASSUME TabTypes, NEW i \in Instances
  PROVE  Listing(i) \subseteq BrowserTab /\ \A r \in Listing(i) : HostOf[r.target] = i
  BY DEF Listing, BrowserTab, TabTypes

\* The listing is exact when it is taken.
LEMMA TargetsKeeps ==
  ASSUME TabTypes, NEW p \in Processes, TargetsStep(p)
  PROVE  ActorKeeps(p)
<1>1. op[p] # Idle /\ Head(op[p].steps) = "targets" /\ UNCHANGED <<up, page, address, tabs, requests, changes>>
  BY DEF TargetsStep, At, browser
<1>2. StateTypes' /\ RowTypes'
  BY <1>1 DEF StateTypes, RowTypes, TabTypes
<1>3. CASE op[p].instance \notin up
  <2>1. Answer(p)
    BY <1>3 DEF TargetsStep
  <2> QED BY <1>1, <1>2, <2>1, OverKeeps
<1>4. CASE op[p].instance \in up
  <2> DEFINE i == op[p].instance
             o == [op[p] EXCEPT !.listing = Listing(i)]
  <2>1. WellFormed(op[p]) /\ op[p] \in OperationRecord /\ i \in Instances
    BY <1>1, OpShape
  <2>2. Listing(i) \subseteq BrowserTab /\ \A r \in Listing(i) : HostOf[r.target] = i
    BY <2>1, ListingRows
  <2>3. /\ o \in OperationRecord /\ o.listing = Listing(i) /\ o.steps = op[p].steps
        /\ o.instance = i /\ o.target = op[p].target
    BY <2>1, <2>2 DEF OperationRecord
  <2>4. Continue(p, o)
    BY <1>4 DEF TargetsStep
  <2> HIDE DEF o
  <2>5. WellFormed(o)
    BY <2>1, <2>2, <2>3 DEF WellFormed
  <2>6. /\ \A q \in Processes \ {p} : op'[q] = op[q]
        /\ op' \in [Processes -> OperationRecord \cup {Idle}]
        /\ op'[p] # Idle =>
             /\ WellFormed(op'[p])
             /\ op'[p].instance = o.instance /\ op'[p].listing = o.listing
             /\ Len(o.steps) > 1 /\ Head(op'[p].steps) = o.steps[2] /\ Head(o.steps) = o.steps[1]
    BY <2>4, <2>5, ContinueEffect
  <2>7. ASSUME op'[p] # Idle PROVE Fresh(op[p])'
    <3>1. Head(op'[p].steps) \notin {"rows", "opened", "reconnect"}
      BY <1>1, <2>3, <2>6, <2>7, OrderedNext, OpShape
    <3>2. Listing(op[p].instance)' = Listing(i)
      BY <1>1, <2>3, <2>6, <2>7 DEF Listing
    <3> QED BY <2>3, <2>6, <2>7, <3>1, <3>2 DEF Fresh
  <2>8. \A j \in Instances : Dry(j) =>
          tabs'[j] = {} /\ (op'[p] # Idle /\ op'[p].instance = j => op'[p].listing = {})
    BY <1>1, <1>4, <2>3, <2>6 DEF Dry
  <2> QED BY <1>1, <1>2, <2>6, <2>7, <2>8 DEF ActorKeeps
<1> QED BY <1>3, <1>4

\* A listing that is exact makes the rows exact.
LEMMA ReplaceKeeps ==
  ASSUME TabInd, NEW p \in Processes, ReplaceStep(p)
  PROVE  ActorKeeps(p)
<1> DEFINE i == op[p].instance
           o == [op[p] EXCEPT !.listing = {}]
<1>0. TabTypes
  BY DEF TabInd
<1>1. op[p] # Idle /\ Head(op[p].steps) = "replace" /\ UNCHANGED <<up, page, address, requests, changes>>
  BY DEF ReplaceStep, At, browser
<1>2. /\ WellFormed(op[p]) /\ op[p] \in OperationRecord /\ i \in Instances
      /\ op[p].listing \subseteq BrowserTab /\ \A r \in op[p].listing : HostOf[r.target] = i
  BY <1>0, <1>1, OpShape DEF WellFormed
<1>3. tabs' = [tabs EXCEPT ![i] = op[p].listing]
  BY DEF ReplaceStep, replace_tabs
<1>4. tabs'[i] = op[p].listing /\ \A j \in Instances \ {i} : tabs'[j] = tabs[j]
  BY <1>0, <1>2, <1>3 DEF TabTypes
<1>5. StateTypes' /\ RowTypes'
  BY <1>0, <1>1, <1>2, <1>3, <1>4 DEF StateTypes, RowTypes, TabTypes
<1>6. /\ o \in OperationRecord /\ o.listing = {} /\ o.steps = op[p].steps
      /\ o.instance = i /\ o.target = op[p].target
  BY <1>2 DEF OperationRecord
<1>7. Continue(p, o)
  BY DEF ReplaceStep
<1> HIDE DEF o
<1>8. WellFormed(o)
  BY <1>2, <1>6 DEF WellFormed
<1>9. /\ \A q \in Processes \ {p} : op'[q] = op[q]
      /\ op' \in [Processes -> OperationRecord \cup {Idle}]
      /\ op'[p] # Idle =>
           /\ WellFormed(op'[p])
           /\ op'[p].instance = i /\ op'[p].listing = {}
           /\ Len(op[p].steps) > 1 /\ Head(op'[p].steps) = op[p].steps[2]
  BY <1>0, <1>6, <1>7, <1>8, ContinueEffect
<1>10. ASSUME op'[p] # Idle, p \in disturbed => Lists(p) PROVE Fresh(op[p])'
  <2>1. op[p].steps \in Seq(Labels) /\ Ordered(op[p].steps) /\ Head(op[p].steps) = op[p].steps[1]
    BY <1>0, <1>1, OpShape
  <2>2. Head(op'[p].steps) \notin {"replace", "opened", "reconnect"}
    BY <1>1, <1>9, <1>10, <2>1, OrderedNext
  <2>3. p \notin disturbed
    BY <1>1, <1>10 DEF Lists, At
  <2>4. op[p].steps[2] = "rows" => op[p].listing = Listing(i)
    BY <1>1, <1>9, <1>10, <2>3 DEF TabInd, OpsFresh, Fresh
  <2>5. Listing(op[p].instance)' = Listing(i)
    BY <1>1, <1>9, <1>10 DEF Listing
  <2> QED BY <1>4, <1>9, <1>10, <2>2, <2>4, <2>5 DEF Fresh
<1>11. \A j \in Instances : Dry(j) =>
         tabs'[j] = {} /\ (op'[p] # Idle /\ op'[p].instance = j => op'[p].listing = {})
  BY <1>1, <1>4, <1>9 DEF Dry, Holding
<1> QED BY <1>1, <1>4, <1>5, <1>9, <1>10, <1>11 DEF ActorKeeps

\* Rows that are exact are read back.
LEMMA RowsKeeps ==
  ASSUME TabInd, NEW p \in Processes, RowsStep(p)
  PROVE  ActorKeeps(p)
<1> DEFINE i == op[p].instance
           w == [op[p] EXCEPT !.rows = tabs[i]]
<1>0. TabTypes
  BY DEF TabInd
<1>1. op[p] # Idle /\ Head(op[p].steps) = "rows" /\ UNCHANGED <<up, page, address, tabs, requests, changes>>
  BY DEF RowsStep, At, browser
<1>2. /\ WellFormed(op[p]) /\ op[p] \in OperationRecord /\ i \in Instances /\ tabs[i] \subseteq BrowserTab
      /\ op[p].steps \in Seq(Labels) /\ Ordered(op[p].steps) /\ Head(op[p].steps) = op[p].steps[1]
  BY <1>0, <1>1, OpShape DEF TabTypes
<1>3. /\ w \in OperationRecord /\ w.listing = op[p].listing /\ w.steps = op[p].steps
      /\ w.instance = i /\ w.target = op[p].target /\ w.rows = tabs[i]
  BY <1>2 DEF OperationRecord
<1>4. PICK o \in {op[p], w} : Continue(p, o) /\ (op[p].steps # <<"rows", "evaluate">> => o = w)
  BY DEF RowsStep
<1> HIDE DEF w
<1>5. /\ WellFormed(o) /\ o.steps = op[p].steps /\ o.instance = i /\ o.listing = op[p].listing
      /\ op[p].steps # <<"rows", "evaluate">> => o.rows = tabs[i]
  BY <1>2, <1>3, <1>4 DEF WellFormed
<1>6. /\ \A q \in Processes \ {p} : op'[q] = op[q]
      /\ op' \in [Processes -> OperationRecord \cup {Idle}]
      /\ op'[p] # Idle =>
           /\ WellFormed(op'[p])
           /\ op'[p].instance = i /\ op'[p].listing = op[p].listing /\ op'[p].rows = o.rows
           /\ Len(op[p].steps) > 1 /\ Head(op'[p].steps) = op[p].steps[2]
  BY <1>0, <1>4, <1>5, ContinueEffect
<1>7. ASSUME op'[p] # Idle, p \in disturbed => Lists(p) PROVE Fresh(op[p])'
  <2>1. Head(op'[p].steps) \notin {"replace", "rows"}
    BY <1>1, <1>2, <1>6, <1>7, OrderedNext
  <2>2. p \notin disturbed
    BY <1>1, <1>7 DEF Lists, At
  <2>3. tabs[i] = Listing(i)
    BY <1>1, <2>2 DEF TabInd, OpsFresh, Fresh
  <2>4. Listing(op[p].instance)' = Listing(i)
    BY <1>1, <1>6, <1>7 DEF Listing
  <2>5. Head(op'[p].steps) \in {"opened", "reconnect"} => op[p].steps # <<"rows", "evaluate">>
    BY <1>6, <1>7
  <2> QED BY <1>5, <1>6, <1>7, <2>1, <2>3, <2>4, <2>5 DEF Fresh
<1>8. StateTypes' /\ RowTypes'
  BY <1>0, <1>1 DEF StateTypes, RowTypes, TabTypes
<1>9. \A j \in Instances : Dry(j) =>
        tabs'[j] = {} /\ (op'[p] # Idle /\ op'[p].instance = j => op'[p].listing = {})
  BY <1>1, <1>6 DEF Dry, Holding
<1> QED BY <1>1, <1>6, <1>7, <1>8, <1>9 DEF ActorKeeps

\* A stop clears the rows.
LEMMA ClearKeeps ==
  ASSUME TabTypes, NEW p \in Processes, ClearStep(p)
  PROVE  ActorKeeps(p)
<1>1. op[p] # Idle /\ UNCHANGED <<up, page, address, requests, changes>>
  BY DEF ClearStep, At, browser
<1>2. /\ \A q \in Processes \ {p} : op'[q] = op[q]
      /\ op' \in [Processes -> OperationRecord \cup {Idle}] /\ op'[p] = Idle
  BY AnswerEffect DEF ClearStep
<1>3. op[p].instance \in Instances
  BY <1>1, OpShape
<1>4. tabs' = [tabs EXCEPT ![op[p].instance] = {}]
  BY DEF ClearStep, NoRows
<1>5. \A i \in Instances : tabs'[i] = IF i = op[p].instance THEN {} ELSE tabs[i]
  BY <1>3, <1>4 DEF TabTypes
<1>6. StateTypes' /\ RowTypes'
  BY <1>1, <1>3, <1>4, <1>5 DEF StateTypes, RowTypes, TabTypes
<1> QED BY <1>1, <1>2, <1>5, <1>6 DEF ActorKeeps, Dry

\* Two programs, one after the other: the second neither uses a listing it does not take,
\* nor rows that the first has not read back.
LEMMA OrderedConcat ==
  ASSUME NEW todo \in Seq(Labels), todo # <<>>, Ordered(todo), NEW t \in Seq(Labels), Ordered(t),
         Len(t) >= 1 => /\ t[1] \notin {"replace", "rows"}
                        /\ t[1] \in {"opened", "reconnect"} => todo[Len(todo)] = "rows",
         Len(t) >= 2 => t[2] # "rows"
  PROVE  /\ todo \o t \in Seq(Labels) /\ todo \o t # <<>> /\ Ordered(todo \o t) /\ Head(todo \o t) = Head(todo)
         /\ Len(t) >= 1 => (todo \o t)[Len(todo \o t)] = t[Len(t)]
<1> DEFINE u == todo \o t
<1>1. Len(todo) \in Nat /\ Len(todo) >= 1 /\ Len(t) \in Nat /\ Head(todo) = todo[1]
  BY EmptySeq
<1>2. /\ u \in Seq(Labels) /\ Len(u) = Len(todo) + Len(t)
      /\ \A n \in 1 .. Len(todo) + Len(t) : u[n] = IF n <= Len(todo) THEN todo[n] ELSE t[n - Len(todo)]
  BY ConcatProperties
<1> HIDE DEF u
<1>3. \A n \in 1 .. Len(todo) : u[n] = todo[n]
  BY <1>1, <1>2
<1>4. \A n \in Len(todo) + 1 .. Len(u) : u[n] = t[n - Len(todo)]
  BY <1>1, <1>2
<1>5. u # <<>> /\ Head(u) = todo[1]
  BY <1>1, <1>2, <1>3, EmptySeq
<1>6. Len(t) >= 1 => u[Len(u)] = t[Len(t)]
  BY <1>1, <1>2, <1>4
<1>7. Ordered(u)
  <2> SUFFICES ASSUME NEW n \in 2 .. Len(u)
               PROVE  /\ u[n] = "replace" => u[n - 1] \in {"targets", "access"}
                      /\ u[n] = "rows" => u[n - 1] = "replace" /\ (n > 2 => u[n - 2] = "targets")
                      /\ u[n] \in {"opened", "reconnect"} => u[n - 1] = "rows"
    BY DEF Ordered
  <2>1. CASE n <= Len(todo)
    <3>1. n \in 2 .. Len(todo) /\ u[n] = todo[n] /\ u[n - 1] = todo[n - 1] /\ (n > 2 => u[n - 2] = todo[n - 2])
      BY <1>1, <1>3, <2>1
    <3> QED BY <3>1 DEF Ordered
  <2>2. CASE n = Len(todo) + 1
    <3>1. u[n] = t[1] /\ u[n - 1] = todo[Len(todo)] /\ Len(t) >= 1
      BY <1>1, <1>2, <1>3, <1>4, <2>2
    <3> QED BY <3>1
  <2>3. CASE n > Len(todo) + 1
    <3> DEFINE m == n - Len(todo)
    <3>1. m \in 2 .. Len(t) /\ n - 1 \in Len(todo) + 1 .. Len(u) /\ n \in Len(todo) + 1 .. Len(u)
      BY <1>1, <1>2, <2>3
    <3>2. u[n] = t[m] /\ u[n - 1] = t[m - 1]
      <4>1. (n - 1) - Len(todo) = m - 1
        BY <1>1
      <4> QED BY <1>4, <3>1, <4>1
    <3>3. m > 2 => u[n - 2] = t[m - 2]
      <4>1. (n - 2) - Len(todo) = m - 2 /\ (m > 2 => n - 2 \in Len(todo) + 1 .. Len(u))
        BY <1>1, <1>2
      <4> QED BY <1>4, <4>1
    <3>4. /\ t[m] = "replace" => t[m - 1] \in {"targets", "access"}
          /\ t[m] = "rows" => t[m - 1] = "replace" /\ (m > 2 => t[m - 2] = "targets")
          /\ t[m] \in {"opened", "reconnect"} => t[m - 1] = "rows"
      BY <3>1 DEF Ordered
    <3>5. (m = 2 => t[m] # "rows") /\ (m = 2 \/ m > 2)
      BY <1>1, <3>1
    <3> QED BY <3>2, <3>3, <3>4, <3>5
  <2> QED BY <1>1, <1>2, <2>1, <2>2, <2>3
<1> QED BY <1>1, <1>2, <1>5, <1>6, <1>7 DEF u

LEMMA OrderedSync ==
  SyncTabs \in Seq(Labels) /\ SyncTabs # <<>> /\ Ordered(SyncTabs) /\ Head(SyncTabs) = "targets"
  /\ Len(SyncTabs) = 3 /\ SyncTabs[1] = "targets" /\ SyncTabs[2] = "replace" /\ SyncTabs[Len(SyncTabs)] = "rows"
  BY DEF SyncTabs, Ordered, Labels

\* The first try fails: the rows are refreshed for a second one.
LEMMA RetrySteps ==
  ASSUME NEW todo \in Seq(Labels), todo # <<>>, Ordered(todo), Head(todo) = "connect"
  PROVE  LET u == SyncTabs \o <<"reconnect">> \o Tail(todo)
         IN  u \in Seq(Labels) /\ u # <<>> /\ Ordered(u) /\ Head(u) = "targets"
<1> DEFINE b == <<"reconnect">>
           a == SyncTabs \o b
           v == Tail(todo)
<1>1. b \in Seq(Labels) /\ Ordered(b) /\ Len(b) = 1 /\ b[1] = "reconnect"
  BY DEF Labels, Ordered
<1> HIDE DEF b
<1>2. a \in Seq(Labels) /\ a # <<>> /\ Ordered(a) /\ Head(a) = "targets"
  <2>1. /\ Len(b) >= 1 => /\ b[1] \notin {"replace", "rows"}
                          /\ b[1] \in {"opened", "reconnect"} => SyncTabs[Len(SyncTabs)] = "rows"
        /\ Len(b) >= 2 => b[2] # "rows"
    BY <1>1, OrderedSync
  <2> QED BY <1>1, <2>1, OrderedSync, OrderedConcat
<1>3. v \in Seq(Labels) /\ Len(v) = Len(todo) - 1 /\ Len(todo) \in Nat /\ todo[1] = "connect"
  OBVIOUS
<1>4. Ordered(v) /\ (Len(v) >= 1 => v[1] = todo[2]) /\ (Len(v) >= 2 => v[2] = todo[3])
  <2>1. CASE v = <<>>
    BY <2>1 DEF Ordered
  <2>2. CASE v # <<>>
    BY <1>3, <2>2, OrderedTail
  <2> QED BY <2>1, <2>2
<1>5. /\ Len(v) >= 1 => v[1] \notin {"replace", "rows", "opened", "reconnect"}
      /\ Len(v) >= 2 => v[2] # "rows"
  <2>1. Len(todo) > 1 => todo[2] \notin {"replace", "rows", "opened", "reconnect"}
    BY <1>3, OrderedNext
  <2>2. Len(todo) > 2 => todo[3] # "rows"
    BY <1>3, OrderedNext
  <2> QED BY <1>3, <1>4, <2>1, <2>2
<1> HIDE DEF a, v
<1>6. a \o v \in Seq(Labels) /\ a \o v # <<>> /\ Ordered(a \o v) /\ Head(a \o v) = "targets"
  BY <1>2, <1>3, <1>4, <1>5, OrderedConcat
<1> QED BY <1>6 DEF a, b, v

LEMMA ConnectKeeps ==
  ASSUME TabTypes, NEW p \in Processes, NEW r \in BrowserTab, ConnectStep(p, r)
  PROVE  ActorKeeps(p)
<1>1. op[p] # Idle /\ Head(op[p].steps) = "connect" /\ UNCHANGED <<up, page, address, tabs, requests, changes>>
  BY DEF ConnectStep, At, browser
<1>2. StateTypes' /\ RowTypes'
  BY <1>1 DEF StateTypes, RowTypes, TabTypes
<1>3. WellFormed(op[p]) /\ op[p] \in OperationRecord /\ op[p].steps \in Seq(Labels)
  BY <1>1, OpShape
<1>4. CASE Connects(r)
  <2> DEFINE o == [op[p] EXCEPT !.tab = {}]
  <2>1. /\ o \in OperationRecord /\ o.listing = op[p].listing /\ o.steps = op[p].steps
        /\ o.instance = op[p].instance /\ o.target = op[p].target
    BY <1>3 DEF OperationRecord
  <2>2. Continue(p, o)
    BY <1>4 DEF ConnectStep
  <2> HIDE DEF o
  <2>3. WellFormed(o)
    BY <1>3, <2>1 DEF WellFormed
  <2> QED BY <1>1, <1>2, <2>1, <2>2, <2>3, GoingOnKeeps
<1>5. CASE ~ Connects(r)
  <2> DEFINE u == SyncTabs \o <<"reconnect">> \o Tail(op[p].steps)
             o == [op[p] EXCEPT !.steps = u]
  <2>1. u \in Seq(Labels) /\ u # <<>> /\ Ordered(u) /\ Head(u) = "targets"
    BY <1>1, <1>3, RetrySteps DEF WellFormed
  <2>2. op' = [op EXCEPT ![p] = o]
    BY <1>5 DEF ConnectStep
  <2> HIDE DEF u
  <2>3. /\ o \in OperationRecord /\ o.listing = op[p].listing /\ o.steps = u
        /\ o.instance = op[p].instance /\ o.target = op[p].target
    BY <1>3, <2>1 DEF OperationRecord
  <2> HIDE DEF o
  <2>4. WellFormed(o)
    BY <1>3, <2>1, <2>3 DEF WellFormed
  <2>5. op'[p] = o /\ (\A q \in Processes \ {p} : op'[q] = op[q]) /\ op' \in [Processes -> OperationRecord \cup {Idle}]
    BY <2>2, <2>3 DEF TabTypes
  <2>6. Fresh(op[p])'
    BY <2>1, <2>3, <2>5 DEF Fresh
  <2>7. \A j \in Instances : Dry(j) => tabs'[j] = {} /\ (o.instance = j => o.listing = {})
    BY <1>1, <2>3 DEF Dry, Holding
  <2> QED BY <1>1, <1>2, <2>4, <2>5, <2>6, <2>7 DEF ActorKeeps
<1> QED BY <1>4, <1>5

\* The steps of the operations, one program each.
LEMMA OrderedPrograms ==
  ASSUME NEW todo \in {ListSteps, OpenSteps, CloseSteps, ActionSteps, CaptureSteps, AttachSteps, StopSteps}
  PROVE  todo \in Seq(Labels) /\ todo # <<>> /\ Ordered(todo) /\ Head(todo) \notin AfterListing
<1>1. CASE todo = ListSteps
  BY <1>1, OrderedSync DEF ListSteps, AfterListing
<1>2. CASE todo = OpenSteps
  <2> DEFINE b == <<"new", "activate">>
             e == <<"opened">>
             c == b \o SyncTabs
  <2>1. b \in Seq(Labels) /\ b # <<>> /\ Ordered(b) /\ Head(b) = "new" /\ Len(b) = 2
    BY DEF Labels, Ordered
  <2>2. e \in Seq(Labels) /\ Ordered(e) /\ Len(e) = 1 /\ e[1] = "opened"
    BY DEF Labels, Ordered
  <2> HIDE DEF b, e
  <2>3. c \in Seq(Labels) /\ c # <<>> /\ Ordered(c) /\ Head(c) = "new" /\ c[Len(c)] = "rows"
    <3>1. /\ Len(SyncTabs) >= 1
          /\ SyncTabs[1] \notin {"replace", "rows", "opened", "reconnect"}
          /\ Len(SyncTabs) >= 2 => SyncTabs[2] # "rows"
      BY OrderedSync
    <3> QED BY <2>1, <3>1, OrderedSync, OrderedConcat
  <2> HIDE DEF c
  <2>4. c \o e \in Seq(Labels) /\ c \o e # <<>> /\ Ordered(c \o e) /\ Head(c \o e) = "new"
    BY <2>2, <2>3, OrderedConcat
  <2> QED BY <1>2, <2>4 DEF OpenSteps, AfterListing, b, c, e
<1>3. CASE todo = CloseSteps
  <2> DEFINE b == <<"known", "access", "close">>
  <2>1. b \in Seq(Labels) /\ b # <<>> /\ Ordered(b) /\ Head(b) = "known"
    BY DEF Labels, Ordered
  <2> HIDE DEF b
  <2>2. b \o SyncTabs \in Seq(Labels) /\ b \o SyncTabs # <<>> /\ Ordered(b \o SyncTabs) /\ Head(b \o SyncTabs) = "known"
    BY <2>1, OrderedSync, OrderedConcat
  <2> QED BY <1>3, <2>2 DEF CloseSteps, AfterListing, b
<1>4. CASE todo = ActionSteps
  <2> DEFINE b == <<"known", "access", "require", "connect">>
             e == <<"evaluate">>
             c == b \o SyncTabs
  <2>1. b \in Seq(Labels) /\ b # <<>> /\ Ordered(b) /\ Head(b) = "known"
    BY DEF Labels, Ordered
  <2>2. e \in Seq(Labels) /\ Ordered(e) /\ Len(e) = 1 /\ e[1] = "evaluate"
    BY DEF Labels, Ordered
  <2> HIDE DEF b, e
  <2>3. c \in Seq(Labels) /\ c # <<>> /\ Ordered(c) /\ Head(c) = "known"
    BY <2>1, OrderedSync, OrderedConcat
  <2> HIDE DEF c
  <2>4. c \o e \in Seq(Labels) /\ c \o e # <<>> /\ Ordered(c \o e) /\ Head(c \o e) = "known"
    BY <2>2, <2>3, OrderedConcat
  <2> QED BY <1>4, <2>4 DEF ActionSteps, AfterListing, b, c, e
<1>5. CASE todo = CaptureSteps
  BY <1>5 DEF CaptureSteps, Ordered, Labels, AfterListing
<1>6. CASE todo = AttachSteps
  BY <1>6 DEF AttachSteps, Ordered, Labels, AfterListing
<1>7. CASE todo = StopSteps
  BY <1>7 DEF StopSteps, Ordered, Labels, AfterListing
<1> QED BY <1>1, <1>2, <1>3, <1>4, <1>5, <1>6, <1>7

\* A request begins an operation that has listed nothing.
LEMMA BeginKeeps ==
  ASSUME TabTypes, NEW p \in Processes, NEW i \in Instances, NEW t \in SUBSET Targets,
         \A x \in t : HostOf[x] = i,
         NEW todo \in {ListSteps, OpenSteps, CloseSteps, ActionSteps, CaptureSteps, AttachSteps, StopSteps},
         Begin(p, Operation(todo, i, t)), StateTypes', tabs' = tabs
  PROVE  ActorKeeps(p)
<1> DEFINE o == Operation(todo, i, t)
<1>1. todo \in Seq(Labels) /\ todo # <<>> /\ Ordered(todo) /\ Head(todo) \notin AfterListing
  BY OrderedPrograms
<1>2. o \in OperationRecord /\ o.steps = todo /\ o.instance = i /\ o.target = t /\ o.listing = {}
  BY <1>1 DEF Operation, OperationRecord
<1>3. op' = [op EXCEPT ![p] = o]
  BY DEF Begin
<1> HIDE DEF o
<1>4. WellFormed(o)
  BY <1>1, <1>2 DEF WellFormed
<1>5. op'[p] = o /\ (\A q \in Processes \ {p} : op'[q] = op[q]) /\ op' \in [Processes -> OperationRecord \cup {Idle}]
  BY <1>2, <1>3 DEF TabTypes
<1>6. Fresh(op[p])'
  BY <1>1, <1>2, <1>5 DEF Fresh, AfterListing
<1>7. RowTypes'
  BY DEF TabTypes, RowTypes
<1> QED BY <1>2, <1>4, <1>5, <1>6, <1>7 DEF ActorKeeps, Dry

LEMMA RequestKeeps ==
  ASSUME TabTypes, NEW p \in Processes, Request(p)
  PROVE  ActorKeeps(p)
<1>1. UNCHANGED <<up, page, address, tabs, changes>>
  BY DEF Request, ListTabs, OpenTab, CloseTab, TabAction, Capture, AttachInstance, StopInstance, Ask, browser
<1>2. requests' \in 0 .. MaxRequests
  <2>1. requests' = requests \/ (requests < MaxRequests /\ requests' = requests + 1)
    BY DEF Request, ListTabs, OpenTab, CloseTab, TabAction, Capture, AttachInstance, StopInstance, Ask
  <2> QED BY <2>1 DEF TabTypes
<1>3. StateTypes' /\ tabs' = tabs
  BY <1>1, <1>2 DEF TabTypes, StateTypes
<1>4. ASSUME NEW i \in Instances, ListTabs(p, i) \/ OpenTab(p, i) \/ AttachInstance(p, i) \/ StopInstance(p, i)
      PROVE  ActorKeeps(p)
  BY <1>3, <1>4, BeginKeeps DEF ListTabs, OpenTab, AttachInstance, StopInstance, Ask
<1>5. ASSUME NEW t \in Targets, CloseTab(p, t) \/ TabAction(p, t) \/ Capture(p, t)
      PROVE  ActorKeeps(p)
  <2>1. HostOf[t] \in Instances /\ {t} \in SUBSET Targets /\ \A x \in {t} : HostOf[x] = HostOf[t]
    OBVIOUS
  <2> QED BY <1>3, <1>5, <2>1, BeginKeeps DEF CloseTab, TabAction, Capture, Ask
<1> QED BY <1>4, <1>5 DEF Request

\* A step that takes nothing from the browser but whether a page is there.
LEMMA PlainKeeps ==
  ASSUME TabTypes, NEW p \in Processes,
         \/ NewFails(p) \/ OpenedStep(p) \/ AccessStep(p) \/ EvaluateStep(p)
         \/ \E t \in Targets : ActivateStep(p, t) \/ KnownStep(p, t)
  PROVE  ActorKeeps(p)
<1>1. op[p] # Idle /\ UNCHANGED <<up, page, address, tabs, requests, changes>>
  BY DEF NewFails, OpenedStep, AccessStep, EvaluateStep, ActivateStep, KnownStep, At, browser
<1>2. StateTypes'
  BY <1>1 DEF TabTypes, StateTypes
<1>3. Answer(p) \/ (Continue(p, op[p]) /\ Head(op[p].steps) \in {"access", "activate", "known"})
  BY DEF NewFails, OpenedStep, AccessStep, EvaluateStep, ActivateStep, KnownStep, At
<1>4. WellFormed(op[p])
  BY <1>1, OpShape
<1>5. CASE Answer(p)
  BY <1>1, <1>2, <1>5, OverKeeps
<1>6. CASE Continue(p, op[p]) /\ Head(op[p].steps) \in {"access", "activate", "known"}
  BY <1>1, <1>2, <1>4, <1>6, GoingOnKeeps
<1> QED BY <1>3, <1>5, <1>6

\* The row is read; the row the refresh found is tried.
LEMMA SessionKeeps ==
  ASSUME TabTypes, NEW p \in Processes,
         ReconnectStep(p) \/ \E t \in Targets : RequireStep(p, t)
  PROVE  ActorKeeps(p)
<1>1. op[p] # Idle /\ UNCHANGED <<up, page, address, tabs, requests, changes>>
  BY DEF ReconnectStep, RequireStep, At, browser
<1>2. StateTypes'
  BY <1>1 DEF TabTypes, StateTypes
<1>3. WellFormed(op[p]) /\ op[p] \in OperationRecord
  BY <1>1, OpShape
<1>4. CASE Answer(p)
  BY <1>1, <1>2, <1>4, OverKeeps
<1>5. ASSUME ReconnectStep(p), ~ Answer(p) PROVE ActorKeeps(p)
  <2> DEFINE o == [op[p] EXCEPT !.tab = {}, !.rows = {}]
  <2>1. Continue(p, o) /\ Head(op[p].steps) = "reconnect"
    BY <1>5 DEF ReconnectStep, At
  <2>2. /\ o \in OperationRecord /\ o.listing = op[p].listing /\ o.steps = op[p].steps
        /\ o.instance = op[p].instance /\ o.target = op[p].target
    BY <1>3 DEF OperationRecord
  <2> HIDE DEF o
  <2>3. WellFormed(o)
    BY <1>3, <2>2 DEF WellFormed
  <2> QED BY <1>1, <1>2, <2>1, <2>2, <2>3, GoingOnKeeps
<1>6. ASSUME NEW t \in Targets, RequireStep(p, t), ~ Answer(p) PROVE ActorKeeps(p)
  <2> DEFINE o == [op[p] EXCEPT !.tab = require_tab(t)]
  <2>1. Continue(p, o) /\ Head(op[p].steps) = "require"
    BY <1>6 DEF RequireStep, At
  <2>2. require_tab(t) \subseteq BrowserTab
    BY DEF require_tab, TabTypes
  <2>3. /\ o \in OperationRecord /\ o.listing = op[p].listing /\ o.steps = op[p].steps
        /\ o.instance = op[p].instance /\ o.target = op[p].target
    BY <1>3, <2>2 DEF OperationRecord
  <2> HIDE DEF o
  <2>4. WellFormed(o)
    BY <1>3, <2>3 DEF WellFormed
  <2> QED BY <1>1, <1>2, <2>1, <2>3, <2>4, GoingOnKeeps
<1> QED BY <1>4, <1>5, <1>6

\* The browser opens a page, closes one, or leaves, for an operation.
LEMMA BrowserWorkKeeps ==
  ASSUME TabTypes, NEW p \in Processes,
         TerminateStep(p) \/ \E t \in Targets : NewStep(p, t) \/ CloseStep(p, t)
  PROVE  ActorKeeps(p)
<1>1. op[p] # Idle /\ UNCHANGED <<tabs, requests, changes>>
  BY DEF TerminateStep, NewStep, CloseStep, At
<1>2. WellFormed(op[p]) /\ op[p] \in OperationRecord /\ op[p].instance \in Instances
  BY <1>1, OpShape
<1>3. ASSUME NEW t \in Targets, NewStep(p, t) PROVE ActorKeeps(p)
  <2> DEFINE o == [op[p] EXCEPT !.target = {t}]
  <2>1. Continue(p, o) /\ Head(op[p].steps) = "new" /\ HostOf[t] = op[p].instance
    BY <1>3 DEF NewStep, At
  <2>2. /\ o \in OperationRecord /\ o.listing = op[p].listing /\ o.steps = op[p].steps
        /\ o.instance = op[p].instance /\ o.target = {t}
    BY <1>2 DEF OperationRecord
  <2> HIDE DEF o
  <2>3. WellFormed(o)
    BY <1>2, <2>1, <2>2 DEF WellFormed
  <2>4. StateTypes'
    BY <1>1, <1>3 DEF NewStep, TabTypes, StateTypes
  <2> QED BY <1>1, <2>1, <2>2, <2>3, <2>4, GoingOnKeeps
<1>4. ASSUME NEW t \in Targets, CloseStep(p, t) PROVE ActorKeeps(p)
  <2>1. StateTypes'
    BY <1>1, <1>4 DEF CloseStep, TabTypes, StateTypes
  <2>2. Head(op[p].steps) = "close" /\ (Answer(p) \/ Continue(p, op[p]))
    BY <1>4 DEF CloseStep, At
  <2> QED BY <1>1, <1>2, <2>1, <2>2, OverKeeps, GoingOnKeeps
<1>5. ASSUME TerminateStep(p) PROVE ActorKeeps(p)
  <2>1. StateTypes'
    BY <1>1, <1>5 DEF TerminateStep, Leave, browser, TabTypes, StateTypes
  <2>2. Head(op[p].steps) = "terminate" /\ (Answer(p) \/ Continue(p, op[p]))
    BY <1>5 DEF TerminateStep, At
  <2> QED BY <1>1, <1>2, <2>1, <2>2, OverKeeps, GoingOnKeeps
<1> QED BY <1>3, <1>4, <1>5

\* Whatever a process does.
LEMMA ActsKeeps ==
  ASSUME TabInd, NEW p \in Processes, Acts(p)
  PROVE  ActorKeeps(p)
<1>0. TabTypes
  BY DEF TabInd
<1>1. CASE Abandon(p)
  <2>1. StateTypes' /\ tabs' = tabs /\ Answer(p)
    BY <1>0, <1>1 DEF Abandon, browser, TabTypes, StateTypes
  <2> QED BY <1>0, <2>1, OverKeeps
<1>2. CASE Request(p)
  BY <1>0, <1>2, RequestKeeps
<1>3. CASE Step(p)
  BY <1>0, <1>3, TargetsKeeps, ReplaceKeeps, RowsKeeps, ClearKeeps, ConnectKeeps, PlainKeeps,
     SessionKeeps, BrowserWorkKeeps DEF Step
<1> QED BY <1>1, <1>2, <1>3 DEF Acts

\* The browsers disturb whoever has a listing they outdate, and store nothing.
LEMMA BrowserKeeps ==
  ASSUME TabInd, Browser, DisturbedBy(Idle), Cleared
  PROVE  TabInd'
<1>0. TabTypes
  BY DEF TabInd
<1>1. UNCHANGED <<tabs, op, requests>>
  BY DEF Browser, PageOpens, PageCloses, PageMoves, Exits, Returns, Change
<1>2. /\ up' \subseteq Instances
      /\ page' \in [Targets -> {"new", "open", "gone"}]
      /\ address' \in [Targets -> Addresses \cup {NoAddress}]
      /\ changes' \in 0 .. MaxChanges
  <2>1. changes' \in 0 .. MaxChanges
    BY <1>0 DEF TabTypes, Browser, PageOpens, PageCloses, PageMoves, Exits, Returns, Change
  <2>2. up' \subseteq Instances
    BY <1>0 DEF TabTypes, Browser, PageOpens, PageCloses, PageMoves, Exits, Returns, Leave
  <2>3. page' \in [Targets -> {"new", "open", "gone"}]
    BY <1>0 DEF TabTypes, Browser, PageOpens, PageCloses, PageMoves, Exits, Returns, Leave
  <2>4. address' \in [Targets -> Addresses \cup {NoAddress}]
    BY <1>0 DEF TabTypes, Browser, PageOpens, PageCloses, PageMoves, Exits, Returns, Leave
  <2> QED BY <2>1, <2>2, <2>3, <2>4
<1>3. TabTypes'
  BY <1>0, <1>1, <1>2 DEF TabTypes, WellFormed
<1>4. OpsFresh'
  <2> SUFFICES ASSUME NEW q \in Processes, op'[q] # Idle, q \notin disturbed' PROVE Fresh(op[q])'
    BY DEF OpsFresh
  <2>1. CASE Head(op'[q].steps) \notin AfterListing
    BY <2>1 DEF Fresh, AfterListing
  <2>2. CASE Head(op'[q].steps) \in AfterListing
    <3>1. q # Idle
      OBVIOUS
    <3>2. op'[q] = op[q] /\ q \notin disturbed /\ ~ Touched(Idle, op[q].instance)
      BY <1>1, <2>2, <3>1 DEF DisturbedBy
    <3>3. Fresh(op[q])
      BY <3>2 DEF TabInd, OpsFresh
    <3>4. Listing(op[q].instance)' = Listing(op[q].instance)
      BY <3>2 DEF Touched
    <3> QED BY <1>1, <3>2, <3>3, <3>4 DEF Fresh
  <2> QED BY <2>1, <2>2
<1>5. StopsClean'
  <2>1. \A i \in Instances : Dry(i) => tabs'[i] = {} /\ Holding(i)' = {}
    BY <1>1 DEF Dry, Holding
  <2> QED BY <1>0, <1>3, <2>1, StopsStayClean DEF TabInd, TabTypes
<1> QED BY <1>3, <1>4, <1>5 DEF TabInd

LEMMA TabInductive == ASSUME TabInd, [Next]_vars PROVE TabInd'
<1>1. CASE Browser /\ DisturbedBy(Idle) /\ Cleared
  BY <1>1, BrowserKeeps
<1>2. ASSUME NEW p \in Processes, Acts(p), DisturbedBy(p), Cleared PROVE TabInd'
  BY <1>2, ActsKeeps, ActorKeepsInd
<1>3. CASE UNCHANGED vars
  <2>1. TabTypes'
    BY <1>3 DEF vars, TabInd, TabTypes, WellFormed
  <2>2. OpsFresh' /\ StopsClean'
    BY <1>3 DEF vars, TabInd, OpsFresh, Fresh, Listing, StopsClean, Holding
  <2> QED BY <2>1, <2>2 DEF TabInd
<1> QED BY <1>1, <1>2, <1>3 DEF Next

LEMMA TabInitially == ASSUME Init PROVE TabInd
  BY DEF Init, TabInd, TabTypes, OpsFresh, StopsClean

LEMMA TabInvariance == Spec => []TabInd
<1>1. Init => TabInd
  BY TabInitially
<1>2. TabInd /\ [Next]_vars => TabInd'
  BY TabInductive
<1> QED BY <1>1, <1>2, PTL DEF Spec

-----------------------------------------------------------------------------
\* The rows are rows of tabs of their instance, and a refresh that nobody disturbs
\* (sync_tabs: list_targets, replace_tabs, list_tabs) leaves exactly the pages the
\* browser shows, for any number of processes and instances.
THEOREM RefreshExact == Spec => []TabsInv
<1>1. TabInd => TabsInv
  <2> SUFFICES ASSUME TabInd PROVE TabsInv
    OBVIOUS
  <2>1. TabTypes
    BY DEF TabInd
  <2>2. ASSUME NEW p \in Processes, op[p] # Idle
        PROVE  /\ op[p].steps # <<>> /\ \A n \in DOMAIN op[p].steps : op[p].steps[n] \in Labels
               /\ op[p].instance \in Instances /\ op[p].target \subseteq Targets
               /\ op[p].listing \subseteq BrowserTab /\ op[p].rows \subseteq BrowserTab
               /\ op[p].tab \subseteq BrowserTab
    BY <2>1, <2>2, OpShape
  <2>3. TypeOK
    BY <2>1, <2>2 DEF TabTypes, TypeOK
  <2>4. SyncExact
    BY DEF SyncExact, At, TabInd, OpsFresh, Fresh
  <2> QED BY <2>3, <2>4 DEF TabsInv
<1> QED BY <1>1, TabInvariance, PTL

\* One retry is enough: when connect_tab_session tries again and its refresh was not
\* disturbed, a page that is open and has an address is connected to.
THEOREM OneRetryIsEnough == Spec => []RecoversSession
<1>1. TabInd => RecoversSession
  <2> SUFFICES ASSUME TabInd, NEW p \in Processes, NEW t \in Targets, At(p, "reconnect"),
                      t \in op[p].target, p \notin disturbed, page[t] = "open", address[t] # NoAddress
               PROVE  \E r \in RefreshedTab(op[p]) : Connects(r)
    BY DEF RecoversSession
  <2> DEFINE r == [target |-> t, address |-> address[t]]
  <2>1. op[p] # Idle /\ op[p].rows = Listing(op[p].instance)
    BY DEF At, TabInd, OpsFresh, Fresh
  <2>2. HostOf[t] = op[p].instance
    BY <2>1, OpShape DEF TabInd, WellFormed
  <2>3. r \in Listing(op[p].instance)
    BY <2>2 DEF Listing
  <2>4. r \in RefreshedTab(op[p]) /\ Connects(r)
    BY <2>1, <2>3 DEF RefreshedTab, Connects
  <2> QED BY <2>4
<1> QED BY <1>1, TabInvariance, PTL

\* open_tab finds the tab it opened among the rows of its own refresh, if the page is
\* still there and nobody touched the instance meanwhile.
THEOREM OpenedTabFound == Spec => []OpenedTabListed
<1>1. TabInd => OpenedTabListed
  <2> SUFFICES ASSUME TabInd, NEW p \in Processes, NEW t \in Targets, At(p, "opened"),
                      t \in op[p].target, p \notin disturbed, page[t] = "open"
               PROVE  \E r \in op[p].rows : r.target = t
    BY DEF OpenedTabListed
  <2> DEFINE r == [target |-> t, address |-> address[t]]
  <2>1. op[p] # Idle /\ op[p].rows = Listing(op[p].instance)
    BY DEF At, TabInd, OpsFresh, Fresh
  <2>2. HostOf[t] = op[p].instance
    BY <2>1, OpShape DEF TabInd, WellFormed
  <2>3. r \in op[p].rows /\ r.target = t
    BY <2>1, <2>2 DEF Listing
  <2> QED BY <2>3
<1> QED BY <1>1, TabInvariance, PTL

\* After a stop that no listing raced, an instance has no tabs as long as its browser
\* stays away (stop_instance, replace_tabs).
THEOREM StopLeavesNoTabs == Spec => []StoppedHasNoTabs
<1>1. TabInd => StoppedHasNoTabs
  BY DEF TabInd, StopsClean, StoppedHasNoTabs
<1> QED BY <1>1, TabInvariance, PTL

-----------------------------------------------------------------------------
(***************************************************************************)
(* One session with the page of a tab (CdpTransport), for any operations,  *)
(* any number of faults, events and documents, and traces and recordings   *)
(* of any length.  It shares no state with the tabs table.                 *)
(***************************************************************************)
\* What a channel holds, and requests whose ids rise.
Elems(q) == {q[i] : i \in 1 .. Len(q)}
Rising(q) == \A i, j \in 1 .. Len(q) : i < j => q[i].id < q[j].id
\* The requests that are not served, and the messages that are not read.
Sent == Elems(pending)
Arrived == Elems(inbox)

\* The answer that the session waits for, and what it asked for.
Granted(m) == IsAnswer(m) /\ s.awaited # 0 /\ m.outcome = "ok"

\* What each variable holds.
SessionRecord ==
  [op : Ops, awaited : Nat, next_id : Nat \ {0}, known : BOOLEAN, frames : Nat, polls : Nat,
   bytes : Seq(1 .. Chunks), failed : BOOLEAN, unclean : BOOLEAN, at : SessionLabels]
RequestRecord == [id : Nat, method : SessionLabels]
PageRecord ==
  [motion : BOOLEAN, hook : BOOLEAN, style : BOOLEAN, ready : {"loading", "complete"},
   stream : 1 .. Chunks + 1]
MessageRecord ==
  [kind : {"answer", "event", "no_json", "tracingComplete"}, id : Nat, method : SessionLabels \cup {"none"},
   outcome : {"ok", "error", "lacking"}, readyState : {"none", "loading", "complete"}, piece : Nat]
SeenRecord ==
  [asked : SessionLabels \cup {"none"}, answered : SessionLabels \cup {"none"}, arrived : BOOLEAN, moving : BOOLEAN,
   slipped : BOOLEAN, cleared : BOOLEAN, pictures : Nat]

SessionTypes ==
  /\ s \in SessionRecord /\ pending \in Seq(RequestRecord) /\ inbox \in Seq(MessageRecord)
  /\ document \in PageRecord /\ seen \in SeenRecord
  /\ open \in BOOLEAN /\ late \in BOOLEAN
  /\ faults \in 0 .. MaxFaults /\ noise \in 0 .. MaxNoise /\ loads \in 0 .. MaxLoads

\* Ids rise in the order of sending; an answer's is below those of the requests that are
\* still to be served; what has the awaited id was sent under the present label.
InOrder ==
  /\ Rising(pending)
  /\ s.awaited # 0 => s.next_id = s.awaited + 1 /\ s.at # "done"
  /\ \A x \in Sent : /\ 0 < x.id /\ x.id < s.next_id
                     /\ x.id = s.awaited => x.method = s.at
  /\ \A m \in Arrived : m.kind = "answer" =>
       /\ 0 < m.id /\ m.id < s.next_id
       /\ m.id = s.awaited => m.method = s.at
       /\ \A x \in Sent : m.id < x.id
  /\ \A m \in Arrived : m.kind = "tracingComplete" => m.outcome # "error"
  /\ ~ open => pending = <<>>

\* Requests that are made while animations are suppressed, the requests that each
\* operation makes, and that it makes no others.
Prepared == {"enable", "goto", "ready", "url", "metrics", "capture", "print"}
Pictures == {"capture", "print"}
LabelsOf(job) ==
  {"done"} \cup
  CASE job = "evaluate" -> {"eval"}
    [] job = "trace" -> Traced
    [] job = "navigate" -> Setup \cup Cleanup \cup {"enable", "goto", "ready", "url"}
    [] job = "full_page" -> Setup \cup Cleanup \cup {"metrics", "capture"}
    [] job = "pdf" -> Setup \cup Cleanup \cup {"print"}
    [] OTHER -> Setup \cup Cleanup \cup {"capture"}
Labelled == s.at \in LabelsOf(s.op) /\ \A x \in Sent : x.method \in LabelsOf(s.op) \ {"done"}

\* Only, or none of, these requests are still to be served.
Only(M) == \A x \in Sent : x.method \in M
None(M) == \A x \in Sent : x.method \notin M

\* While animations are being suppressed, what was asked for so far is so.
SetUp ==
  /\ s.at = "motion_on" => (document.style => seen.slipped) /\ ~ document.hook /\ Only({"motion_on"})
  /\ s.at = "motion_on" /\ s.awaited = 0 => Sent = {}
  /\ s.at = "hook_on" /\ open => document.motion /\ Only({"hook_on"})
  /\ s.at = "apply" /\ open => document.motion /\ document.hook /\ Only({"apply"})
  /\ s.at \in Prepared /\ open => document.motion /\ document.hook /\ document.style /\ Only(Prepared)
  /\ \A m \in Arrived : Granted(m) /\ open =>
       /\ s.at = "motion_on" => document.motion
       /\ s.at = "hook_on" => document.hook
       /\ s.at = "apply" => document.style

\* A picture that is still to be taken is taken before anything is taken back.
Still ==
  /\ ~ seen.moving
  /\ \A x \in Sent : x.method \in Pictures =>
       /\ document.motion /\ document.hook /\ document.style
       /\ \A y \in Sent : y.id < x.id => y.method \notin Cleanup

\* While the suppression is being taken back.
TakenBack ==
  /\ ~ open => ~ document.motion /\ ~ document.hook
  /\ s.op \notin Suppressing => ~ document.motion /\ ~ document.hook /\ ~ document.style
  /\ s.op \in Suppressing /\ ~ s.failed /\ s.at \notin {"motion_on", "hook_on"} => s.known
  /\ s.at = "clear" => None({"hook_off", "motion_off"})
  /\ s.at \in {"apply", "hook_off"} \cup Prepared => s.known
  /\ s.at \in {"hook_off", "motion_off"} /\ ~ s.unclean =>
       (document.style => seen.slipped) /\ seen.cleared /\ Only({"hook_off", "motion_off"})
  /\ s.at = "motion_off" /\ ~ s.unclean /\ s.known => ~ document.hook
  /\ s.at = "motion_off" /\ ~ s.unclean => Only({"motion_off"})
  /\ \A m \in Arrived : Granted(m) =>
       /\ s.at = "clear" => (document.style => seen.slipped) /\ seen.cleared
       /\ s.at = "hook_off" => ~ document.hook
       /\ s.at = "motion_off" => ~ document.motion
  /\ s.at = "done" /\ ~ s.unclean /\ s.op \in Suppressing =>
       /\ document.style => seen.slipped
       /\ document.hook => seen.cleared
       /\ Only({"motion_on"})
       /\ ~ s.failed => ~ document.motion /\ ~ document.hook /\ Sent = {}

\* A picture that is reported was taken, and a single one is taken once; a recording takes
\* no more than it was asked for.
Single == {"screenshot", "full_page", "pdf"}
Counted ==
  /\ s.op \in Single =>
       /\ s.at \in Setup \cup {"metrics"} \/ (s.at \in Pictures /\ s.awaited = 0) =>
            s.frames = 0 /\ seen.pictures = 0 /\ None(Pictures)
       /\ s.at \in Pictures =>
            /\ s.frames = 0 /\ seen.pictures <= 1
            /\ \A x \in Sent : x.method \in Pictures => x.id = s.awaited /\ seen.pictures = 0
       /\ s.at \in Cleanup \cup {"done"} /\ ~ s.failed =>
            s.frames = 1 /\ seen.pictures = 1 /\ None(Pictures)
  /\ s.op = "recording" =>
       /\ s.frames <= seen.pictures /\ s.frames <= expected_frames
       /\ s.at \in Setup \cup Pictures => s.frames < expected_frames
  /\ \A m \in Arrived : Granted(m) /\ s.at \in Pictures => s.frames < seen.pictures

\* An answer that the page is complete, read or not, was given by a page that is; nothing
\* else lets a navigation get past its wait without failing.
Reached ==
  /\ \A m \in Arrived : m.kind = "answer" /\ m.method = "ready" /\ m.outcome = "ok" /\ m.readyState = "complete" =>
       seen.arrived
  /\ s.op = "navigate" /\ ~ s.failed /\ s.at \in {"url", "done"} \cup Cleanup => seen.arrived

\* The pieces of a trace are read one by one: the next one the stream gives is the one that
\* the session has not, and an answer that is on its way holds it.
Traces ==
  /\ s.bytes = [i \in 1 .. Len(s.bytes) |-> i]
  /\ \A x \in Sent : x.method = "read" => document.stream <= Chunks
  /\ s.op = "trace" =>
       /\ \A x, y \in Sent : x.id = y.id
       /\ s.at # "done" => \A x \in Sent : x.id = s.awaited
       /\ s.at \in {"trace_start", "trace_end"} => s.bytes = <<>> /\ document.stream = 1
       /\ \A m \in Arrived : m.kind = "tracingComplete" /\ m.outcome = "ok" /\ s.at = "trace_end" => Sent = {}
       /\ s.at = "trace_start" \/ (s.at = "trace_end" /\ s.awaited = 0) =>
            \A m \in Arrived : m.kind = "tracingComplete" => m.outcome # "ok"
       /\ s.at = "read" => Len(s.bytes) < Chunks
       /\ s.at = "read" /\ (s.awaited = 0 \/ Sent # {}) => document.stream = Len(s.bytes) + 1
       /\ \A m \in Arrived : Granted(m) /\ s.at = "read" => m.piece = Len(s.bytes) + 1 /\ document.stream = m.piece + 1
       /\ s.at = "io_close" \/ (s.at = "done" /\ ~ s.failed) => Len(s.bytes) = Chunks

\* The inductive invariant of a session.
CdpInd ==
  /\ SessionTypes /\ OwnAnswers /\ InOrder /\ Labelled /\ SetUp /\ Still /\ TakenBack
  /\ Counted /\ Reached /\ Traces

-----------------------------------------------------------------------------
(* Channels.                                                               *)

\* A channel holds elements of its type, and nothing when it is empty.
LEMMA ElemsOf ==
  ASSUME NEW S, NEW q \in Seq(S)
  PROVE  /\ Elems(q) \subseteq S
         /\ q = <<>> <=> Elems(q) = {}
  <1>1. q = <<>> <=> Len(q) = 0
    OBVIOUS
  <1>2. Len(q) # 0 => q[1] \in Elems(q)
    BY DEF Elems
  <1>3. Len(q) = 0 => Elems(q) = {}
    BY DEF Elems
  <1>4. \A i \in 1 .. Len(q) : q[i] \in S
    OBVIOUS
  <1> QED  BY <1>1, <1>2, <1>3, <1>4 DEF Elems

\* Reading a channel takes its first element; where ids rise, the one with the lowest id.
LEMMA TailOf ==
  ASSUME NEW S, NEW q \in Seq(S), q # <<>>
  PROVE  /\ Tail(q) \in Seq(S) /\ Head(q) \in Elems(q)
         /\ Elems(Tail(q)) \subseteq Elems(q)
         /\ \A x \in Elems(q) : x = Head(q) \/ x \in Elems(Tail(q))
         /\ Rising(q) => Rising(Tail(q)) /\ \A x \in Elems(Tail(q)) : Head(q).id < x.id
  <1> DEFINE n == Len(q)
  <1>1. n \in Nat /\ n # 0 /\ Len(Tail(q)) = n - 1 /\ Tail(q) \in Seq(S) /\ Head(q) = q[1]
    OBVIOUS
  <1>2. \A i \in 1 .. n - 1 : Tail(q)[i] = q[i + 1]
    OBVIOUS
  <1>3. Head(q) \in Elems(q)
    BY <1>1 DEF Elems
  <1>4. Elems(Tail(q)) = {q[i + 1] : i \in 1 .. n - 1}
    BY <1>1, <1>2 DEF Elems
  <1>5. Elems(q) = {q[i] : i \in 1 .. n}
    BY DEF Elems
  <1> HIDE DEF n
  <1>6. \A i \in 1 .. n - 1 : i + 1 \in 1 .. n
    BY <1>1
  <1>7. \A i \in 1 .. n : i = 1 \/ (i - 1 \in 1 .. n - 1 /\ i = (i - 1) + 1)
    BY <1>1
  <1>8. Elems(Tail(q)) \subseteq Elems(q)
    BY <1>4, <1>5, <1>6
  <1>9. ASSUME NEW x \in Elems(q)  PROVE x = Head(q) \/ x \in Elems(Tail(q))
    <2>1. PICK i \in 1 .. n : x = q[i]
      BY <1>5
    <2>2. CASE i = 1
      BY <2>1, <2>2, <1>1
    <2>3. CASE i # 1
      <3>1. i - 1 \in 1 .. n - 1 /\ x = q[(i - 1) + 1]
        BY <2>1, <2>3, <1>7
      <3> QED  BY <3>1, <1>4
    <2> QED  BY <2>2, <2>3
  <1>10. ASSUME Rising(q)  PROVE Rising(Tail(q)) /\ \A x \in Elems(Tail(q)) : Head(q).id < x.id
    <2>1. \A i, j \in 1 .. n : i < j => q[i].id < q[j].id
      BY <1>10 DEF Rising, n
    <2>2. ASSUME NEW i \in 1 .. n - 1, NEW j \in 1 .. n - 1, i < j  PROVE Tail(q)[i].id < Tail(q)[j].id
      <3>1. i + 1 \in 1 .. n /\ j + 1 \in 1 .. n /\ i + 1 < j + 1
        BY <2>2, <1>6
      <3> QED  BY <3>1, <2>1, <1>2
    <2>3. ASSUME NEW x \in Elems(Tail(q))  PROVE Head(q).id < x.id
      <3>1. PICK i \in 1 .. n - 1 : x = q[i + 1]
        BY <1>4
      <3>2. 1 \in 1 .. n /\ i + 1 \in 1 .. n /\ 1 < i + 1
        BY <1>1
      <3> QED  BY <3>1, <3>2, <2>1, <1>1
    <2> QED  BY <2>2, <2>3, <1>1 DEF Rising
  <1> QED  BY <1>1, <1>3, <1>8, <1>9, <1>10

\* Sending adds one element; ids go on rising when its id is above the others.
LEMMA AppendOf ==
  ASSUME NEW S, NEW q \in Seq(S), NEW x \in S
  PROVE  /\ Append(q, x) \in Seq(S)
         /\ Elems(Append(q, x)) = Elems(q) \cup {x}
         /\ Rising(q) /\ (\A y \in Elems(q) : y.id < x.id) => Rising(Append(q, x))
  <1> DEFINE n == Len(q)
             r == Append(q, x)
  <1>1. n \in Nat /\ Len(r) = n + 1 /\ r \in Seq(S) /\ r[n + 1] = x
    OBVIOUS
  <1>2. \A i \in 1 .. n : r[i] = q[i] /\ i # n + 1
    OBVIOUS
  <1>3. Elems(r) = {r[i] : i \in 1 .. n + 1} /\ Elems(q) = {q[i] : i \in 1 .. n}
    BY <1>1 DEF Elems
  <1>4. Rising(r) <=> \A i, j \in 1 .. n + 1 : i < j => r[i].id < r[j].id
    BY <1>1 DEF Rising
  <1>5. Rising(q) <=> \A i, j \in 1 .. n : i < j => q[i].id < q[j].id
    BY DEF Rising
  <1> HIDE DEF n, r
  <1>6. \A i \in 1 .. n + 1 : i = n + 1 \/ i \in 1 .. n
    BY <1>1
  <1>7. n + 1 \in 1 .. n + 1 /\ \A i \in 1 .. n : i \in 1 .. n + 1
    BY <1>1
  <1>8. Elems(r) = Elems(q) \cup {x}
    BY <1>1, <1>2, <1>3, <1>6, <1>7
  <1>9. ASSUME Rising(q), \A y \in Elems(q) : y.id < x.id  PROVE Rising(r)
    <2> SUFFICES ASSUME NEW i \in 1 .. n + 1, NEW j \in 1 .. n + 1, i < j  PROVE r[i].id < r[j].id
      BY <1>4
    <2>1. i \in 1 .. n
      BY <1>1, <1>6
    <2>2. q[i] \in Elems(q)
      BY <1>3, <2>1
    <2>3. CASE j = n + 1
      BY <2>1, <2>2, <2>3, <1>1, <1>2, <1>9
    <2>4. CASE j \in 1 .. n
      BY <2>1, <2>4, <1>2, <1>5, <1>9
    <2> QED  BY <2>3, <2>4, <1>6
  <1> QED  BY <1>1, <1>8, <1>9 DEF r

\* Two messages are appended one after the other.
LEMMA PairAppended ==
  ASSUME NEW S, NEW q \in Seq(S), NEW a \in S, NEW b \in S
  PROVE  q \o <<a, b>> = Append(Append(q, a), b)
  OBVIOUS

\* The pieces 1, 2, 3, ... and the next one.
LEMMA NextPiece ==
  ASSUME NEW S, NEW q \in Seq(S), Len(q) + 1 \in S, q = [i \in 1 .. Len(q) |-> i]
  PROVE  LET r == Append(q, Len(q) + 1)
         IN  Len(r) = Len(q) + 1 /\ r = [i \in 1 .. Len(q) + 1 |-> i]
  <1> DEFINE n == Len(q)
             r == Append(q, n + 1)
  <1>1. n \in Nat /\ r \in Seq(S) /\ Len(r) = n + 1 /\ r[n + 1] = n + 1
    OBVIOUS
  <1>2. \A i \in 1 .. n : r[i] = q[i]
    OBVIOUS
  <1>3. \A i \in 1 .. n : q[i] = i
    <2> HIDE DEF n
    <2>1. q = [i \in 1 .. n |-> i]
      BY DEF n
    <2> QED  BY <2>1
  <1>4. r = [i \in 1 .. n + 1 |-> r[i]]
    BY <1>1
  <1> HIDE DEF n, r
  <1>5. \A i \in 1 .. n + 1 : r[i] = i
    <2>1. \A i \in 1 .. n + 1 : i = n + 1 \/ i \in 1 .. n
      BY <1>1
    <2> QED  BY <1>1, <1>2, <1>3, <2>1
  <1>6. r = [i \in 1 .. n + 1 |-> i]
    BY <1>4, <1>5
  <1> QED  BY <1>1, <1>6 DEF n, r

-----------------------------------------------------------------------------
(* What a call that ends makes of the session.                             *)

\* What no end of a call changes.
Kept(u) == u.op = s.op /\ u.next_id = s.next_id /\ u.awaited = 0

\* Labels whose failure fails the operation.
Others == SessionLabels \ ({"motion_on", "ready", "url", "io_close", "done"} \cup Cleanup)

\* The session after a call that failed, label by label.
FailedTo(u) ==
  /\ Kept(u) /\ u.known = s.known /\ u.frames = s.frames /\ u.bytes = s.bytes
  /\ \/ s.at = "motion_on" /\ u.at = "done" /\ u.failed /\ u.unclean = s.unclean
     \/ s.at = "clear" /\ u.unclean /\ u.failed = s.failed /\ u.at = IF s.known THEN "hook_off" ELSE "motion_off"
     \/ s.at = "hook_off" /\ u.unclean /\ u.failed = s.failed /\ u.at = "motion_off"
     \/ s.at = "motion_off" /\ u.unclean /\ u.failed = s.failed /\ u.at = "done"
     \/ s.at = "ready" /\ u.unclean = s.unclean /\ ((u.at = "url" /\ u.failed) \/ (u.at = "ready" /\ u.failed = s.failed))
     \/ s.at = "url" /\ u.unclean = s.unclean /\ u.failed = s.failed /\ u.at = "clear"
     \/ s.at = "io_close" /\ u.unclean = s.unclean /\ u.failed = s.failed /\ u.at = "done"
     \/ s.at \in Others /\ u.unclean = s.unclean /\ u.failed
        /\ u.at = IF s.op \in Suppressing THEN "clear" ELSE "done"

\* A call that succeeds without an effect on what the session has collected.
GoesTo(u, label) ==
  /\ Kept(u) /\ u.frames = s.frames /\ u.bytes = s.bytes /\ u.failed = s.failed /\ u.unclean = s.unclean
  /\ u.known = s.known /\ u.at = label
\* The session after the answer m to a call that succeeded, label by label.
SucceededTo(u, m) ==
  \/ s.at = "motion_on" /\ GoesTo(u, "hook_on")
  \/ /\ s.at = "hook_on" /\ Kept(u) /\ u.frames = s.frames /\ u.bytes = s.bytes
     /\ u.failed = s.failed /\ u.unclean = s.unclean /\ u.known /\ u.at = "apply"
  \/ s.at = "apply" /\ GoesTo(u, OperationStart(s.op))
  \/ s.at = "enable" /\ GoesTo(u, "goto")
  \/ s.at = "goto" /\ GoesTo(u, "ready")
  \/ /\ s.at = "ready" /\ Kept(u) /\ u.frames = s.frames /\ u.bytes = s.bytes /\ u.unclean = s.unclean
     /\ u.known = s.known
     /\ \/ u.at = "url" /\ (m.readyState = "complete" \/ u.failed)
        \/ u.at = "ready" /\ u.failed = s.failed
  \/ s.at = "metrics" /\ GoesTo(u, "capture")
  \/ /\ s.at \in Pictures /\ Kept(u) /\ u.frames = s.frames + 1 /\ u.bytes = s.bytes
     /\ u.failed = s.failed /\ u.unclean = s.unclean /\ u.known = s.known /\ u.at = "clear"
  \/ s.at = "url" /\ GoesTo(u, "clear")
  \/ s.at = "clear" /\ GoesTo(u, IF s.known THEN "hook_off" ELSE "motion_off")
  \/ s.at = "hook_off" /\ GoesTo(u, "motion_off")
  \/ s.at = "motion_off" /\ GoesTo(u, "done")
  \/ /\ s.at = "motion_off" /\ s.op = "recording" /\ ~ s.failed /\ ~ s.unclean /\ s.frames < expected_frames
     /\ Kept(u) /\ u.frames = s.frames /\ u.bytes = s.bytes
     /\ ~ u.failed /\ ~ u.unclean /\ ~ u.known /\ u.at = "motion_on"
  \/ s.at = "trace_start" /\ GoesTo(u, "trace_end")
  \/ /\ s.at = "read" /\ Kept(u) /\ u.frames = s.frames /\ u.bytes = Append(s.bytes, m.piece)
     /\ u.failed = s.failed /\ u.unclean = s.unclean /\ u.known = s.known
     /\ u.at = IF m.piece = Chunks THEN "io_close" ELSE "read"
  \/ s.at \in {"io_close", "eval"} /\ GoesTo(u, "done")

\* What To sets and what it keeps.
LEMMA ToIs ==
  ASSUME NEW t \in SessionRecord, NEW label \in SessionLabels
  PROVE  /\ To(t, label) \in SessionRecord
         /\ To(t, label).at = label /\ To(t, label).awaited = 0
         /\ To(t, label).op = t.op /\ To(t, label).next_id = t.next_id /\ To(t, label).known = t.known
         /\ To(t, label).frames = t.frames /\ To(t, label).bytes = t.bytes
         /\ To(t, label).failed = t.failed /\ To(t, label).unclean = t.unclean
  BY DEF To, SessionRecord

\* Fields that the session sets.
LEMMA FailedIsSet ==
  ASSUME NEW t \in SessionRecord, NEW b \in BOOLEAN
  PROVE  LET f == [t EXCEPT !.failed = b]
         IN  /\ f \in SessionRecord /\ f.failed = b /\ f.op = t.op /\ f.next_id = t.next_id /\ f.known = t.known
             /\ f.frames = t.frames /\ f.bytes = t.bytes /\ f.unclean = t.unclean /\ f.at = t.at
  BY DEF SessionRecord

LEMMA UncleanIsSet ==
  ASSUME NEW t \in SessionRecord, NEW b \in BOOLEAN
  PROVE  LET f == [t EXCEPT !.unclean = b]
         IN  /\ f \in SessionRecord /\ f.unclean = b /\ f.op = t.op /\ f.next_id = t.next_id /\ f.known = t.known
             /\ f.frames = t.frames /\ f.bytes = t.bytes /\ f.failed = t.failed /\ f.at = t.at
  BY DEF SessionRecord

LEMMA KnownIsSet ==
  ASSUME NEW t \in SessionRecord, NEW b \in BOOLEAN
  PROVE  LET f == [t EXCEPT !.known = b]
         IN  /\ f \in SessionRecord /\ f.known = b /\ f.op = t.op /\ f.next_id = t.next_id
             /\ f.frames = t.frames /\ f.bytes = t.bytes /\ f.failed = t.failed /\ f.unclean = t.unclean /\ f.at = t.at
  BY DEF SessionRecord

LEMMA PollsCounted ==
  ASSUME NEW t \in SessionRecord
  PROVE  LET f == [t EXCEPT !.polls = @ + 1]
         IN  /\ f \in SessionRecord /\ f.op = t.op /\ f.next_id = t.next_id /\ f.known = t.known
             /\ f.frames = t.frames /\ f.bytes = t.bytes /\ f.failed = t.failed /\ f.unclean = t.unclean /\ f.at = t.at
  <1> DEFINE n == t.polls + 1
  <1>1. n \in Nat
    BY DEF SessionRecord
  <1> HIDE DEF n
  <1>2. LET f == [t EXCEPT !.polls = n]
        IN  /\ f \in SessionRecord /\ f.op = t.op /\ f.next_id = t.next_id /\ f.known = t.known
            /\ f.frames = t.frames /\ f.bytes = t.bytes /\ f.failed = t.failed /\ f.unclean = t.unclean /\ f.at = t.at
    BY <1>1 DEF SessionRecord
  <1> QED  BY <1>2 DEF n

LEMMA FramesCounted ==
  ASSUME NEW t \in SessionRecord
  PROVE  LET f == [t EXCEPT !.frames = @ + 1]
         IN  /\ f \in SessionRecord /\ f.op = t.op /\ f.next_id = t.next_id /\ f.known = t.known
             /\ f.frames = t.frames + 1 /\ f.bytes = t.bytes /\ f.failed = t.failed /\ f.unclean = t.unclean /\ f.at = t.at
  <1> DEFINE n == t.frames + 1
  <1>1. n \in Nat
    BY DEF SessionRecord
  <1> HIDE DEF n
  <1>2. LET f == [t EXCEPT !.frames = n]
        IN  /\ f \in SessionRecord /\ f.op = t.op /\ f.next_id = t.next_id /\ f.known = t.known
            /\ f.frames = n /\ f.bytes = t.bytes /\ f.failed = t.failed /\ f.unclean = t.unclean /\ f.at = t.at
    BY <1>1 DEF SessionRecord
  <1> QED  BY <1>2 DEF n

LEMMA BytesCollected ==
  ASSUME NEW t \in SessionRecord, NEW q \in Seq(1 .. Chunks)
  PROVE  LET f == [t EXCEPT !.bytes = q]
         IN  /\ f \in SessionRecord /\ f.op = t.op /\ f.next_id = t.next_id /\ f.known = t.known
             /\ f.frames = t.frames /\ f.bytes = q /\ f.failed = t.failed /\ f.unclean = t.unclean /\ f.at = t.at
  BY DEF SessionRecord

\* A call that fails, wherever it does, leaves the session as FailedTo says.
LEMMA FailedIs ==
  ASSUME s \in SessionRecord, late \in BOOLEAN, s.at # "done", NEW u \in Failed(s)
  PROVE  u \in SessionRecord /\ FailedTo(u)
  <1> USE DEF SessionLabels, Cleanup, Setup, Inspected, Traced
  <1>0. s.at \in SessionLabels
    BY DEF SessionRecord
  <1> DEFINE f == [s EXCEPT !.failed = TRUE]
             d == [s EXCEPT !.unclean = TRUE]
             k == [s EXCEPT !.polls = @ + 1]
  <1>1. /\ f \in SessionRecord /\ d \in SessionRecord /\ k \in SessionRecord
        /\ f.failed /\ f.op = s.op /\ f.next_id = s.next_id /\ f.known = s.known /\ f.frames = s.frames
        /\ f.bytes = s.bytes /\ f.unclean = s.unclean
        /\ d.unclean /\ d.op = s.op /\ d.next_id = s.next_id /\ d.known = s.known /\ d.frames = s.frames
        /\ d.bytes = s.bytes /\ d.failed = s.failed /\ d.at = s.at
        /\ k.failed = s.failed /\ k.op = s.op /\ k.next_id = s.next_id /\ k.known = s.known /\ k.frames = s.frames
        /\ k.bytes = s.bytes /\ k.unclean = s.unclean
    BY FailedIsSet, UncleanIsSet, PollsCounted
  <1> HIDE DEF f, d, k
  <1>2. CASE s.at = "motion_on"
    <2>1. u = To(f, "done")
      BY <1>2 DEF Failed, f
    <2> QED  BY <1>1, <1>2, <2>1, ToIs DEF FailedTo, Kept
  <1>3. CASE s.at \in Cleanup
    <2>1. u \in CleanupGoesOn(d)
      BY <1>3 DEF Failed, d
    <2>2. CASE s.at = "clear"
      <3>1. u = To(d, IF d.known THEN "hook_off" ELSE "motion_off")
        BY <2>1, <2>2, <1>1 DEF CleanupGoesOn, AfterClear
      <3> QED  BY <1>1, <2>2, <3>1, ToIs DEF FailedTo, Kept
    <2>3. CASE s.at = "hook_off"
      <3>1. u = To(d, "motion_off")
        BY <2>1, <2>3, <1>1 DEF CleanupGoesOn
      <3> QED  BY <1>1, <2>3, <3>1, ToIs DEF FailedTo, Kept
    <2>4. CASE s.at = "motion_off"
      <3>1. u = To(d, "done")
        BY <2>1, <2>4, <1>1 DEF CleanupGoesOn, AfterCleanup
      <3> QED  BY <1>1, <2>4, <3>1, ToIs DEF FailedTo, Kept
    <2> QED  BY <1>3, <2>2, <2>3, <2>4
  <1>4. CASE s.at = "ready"
    <2>1. u \in {To(f, "url"), To(k, "ready")}
      BY <1>4 DEF Failed, NotReady, f, k
    <2>2. CASE u = To(f, "url")
      <3>1. /\ u \in SessionRecord /\ Kept(u) /\ u.known = s.known /\ u.frames = s.frames /\ u.bytes = s.bytes
            /\ u.unclean = s.unclean /\ u.at = "url" /\ u.failed = f.failed
        <4>1. "url" \in SessionLabels
          OBVIOUS
        <4> HIDE DEF SessionLabels
        <4> QED  BY <1>1, <2>2, <4>1, ToIs DEF Kept
      <3>2. u.failed
        BY <1>1, <3>1
      <3> QED  BY <1>4, <3>1, <3>2 DEF FailedTo
    <2>3. CASE u = To(k, "ready")
      BY <1>1, <1>4, <2>3, ToIs DEF FailedTo, Kept
    <2> QED  BY <2>1, <2>2, <2>3
  <1>5. CASE s.at = "url"
    <2>1. u = To(s, "clear")
      BY <1>5 DEF Failed
    <2> QED  BY <1>5, <2>1, ToIs DEF FailedTo, Kept
  <1>6. CASE s.at = "io_close"
    <2>1. u = To(s, "done")
      BY <1>6 DEF Failed
    <2> QED  BY <1>6, <2>1, ToIs DEF FailedTo, Kept
  <1>7. CASE s.at \in Others
    <2>1. u = To(f, IF s.op \in Suppressing THEN "clear" ELSE "done")
      BY <1>7 DEF Failed, FailOperation, f, Others
    <2> QED  BY <1>1, <1>7, <2>1, ToIs DEF FailedTo, Kept
  <1> QED  BY <1>0, <1>2, <1>3, <1>4, <1>5, <1>6, <1>7 DEF Others

\* A call that succeeds leaves the session as SucceededTo says.
LEMMA SucceededIs ==
  ASSUME s \in SessionRecord, late \in BOOLEAN, s.at \notin {"done", "trace_end"}, NEW m \in MessageRecord,
         s.at = "read" => m.piece \in 1 .. Chunks,
         NEW u \in Succeeded(s, m)
  PROVE  u \in SessionRecord /\ SucceededTo(u, m)
  <1> USE DEF SessionLabels, Cleanup, Setup, Inspected, Traced
  <1>0. s.at \in SessionLabels
    BY DEF SessionRecord
  <1>1. CASE s.at = "motion_on"
    <2>1. u = To(s, "hook_on")
      BY <1>1 DEF Succeeded, AfterOverride
    <2> QED  BY <1>1, <2>1, ToIs DEF SucceededTo, GoesTo, Kept
  <1>2. CASE s.at = "hook_on"
    <2> DEFINE k == [s EXCEPT !.known = TRUE]
    <2>1. u = To(k, "apply")
      BY <1>2 DEF Succeeded
    <2>2. /\ k \in SessionRecord /\ k.known = TRUE /\ k.op = s.op /\ k.next_id = s.next_id
          /\ k.frames = s.frames /\ k.bytes = s.bytes /\ k.failed = s.failed /\ k.unclean = s.unclean
      BY KnownIsSet
    <2> HIDE DEF k
    <2>3. u.known
      BY <2>1, <2>2, ToIs
    <2> QED  BY <1>2, <2>1, <2>2, <2>3, ToIs DEF SucceededTo, Kept
  <1>3. CASE s.at = "apply"
    <2>1. u = To(s, OperationStart(s.op)) /\ OperationStart(s.op) \in SessionLabels
      BY <1>3 DEF Succeeded, OperationStart
    <2> QED  BY <1>3, <2>1, ToIs DEF SucceededTo, GoesTo, Kept
  <1>4. CASE s.at \in {"enable", "goto", "metrics", "url", "trace_start"}
    <2>1. /\ s.at = "enable" => u = To(s, "goto")
          /\ s.at = "goto" => u = To(s, "ready")
          /\ s.at = "metrics" => u = To(s, "capture")
          /\ s.at = "url" => u = To(s, "clear")
          /\ s.at = "trace_start" => u = To(s, "trace_end")
      BY <1>4 DEF Succeeded
    <2> QED  BY <1>4, <2>1, ToIs DEF SucceededTo, GoesTo, Kept
  <1>5. CASE s.at = "ready"
    <2> DEFINE g == [s EXCEPT !.failed = late]
               f == [s EXCEPT !.failed = TRUE]
               k == [s EXCEPT !.polls = @ + 1]
    <2>1. /\ f \in SessionRecord /\ f.failed = TRUE /\ f.op = s.op /\ f.next_id = s.next_id /\ f.known = s.known
          /\ f.frames = s.frames /\ f.bytes = s.bytes /\ f.unclean = s.unclean
      BY FailedIsSet
    <2>2. /\ g \in SessionRecord /\ g.op = s.op /\ g.next_id = s.next_id /\ g.known = s.known
          /\ g.frames = s.frames /\ g.bytes = s.bytes /\ g.unclean = s.unclean
      BY FailedIsSet
    <2>3. /\ k \in SessionRecord /\ k.failed = s.failed /\ k.op = s.op /\ k.next_id = s.next_id /\ k.known = s.known
          /\ k.frames = s.frames /\ k.bytes = s.bytes /\ k.unclean = s.unclean
      BY PollsCounted
    <2>4. \/ m.readyState = "complete" /\ u = To(g, "url")
          \/ u = To(f, "url")
          \/ u = To(k, "ready")
      BY <1>5 DEF Succeeded, NotReady
    <2> HIDE DEF f, g, k
    <2>5. u = To(f, "url") => u.failed
      BY <2>1, ToIs
    <2> QED  BY <1>5, <2>1, <2>2, <2>3, <2>4, <2>5, ToIs DEF SucceededTo, Kept
  <1>6. CASE s.at \in Pictures
    <2> DEFINE k == [s EXCEPT !.frames = @ + 1]
    <2>1. u = To(k, "clear")
      BY <1>6 DEF Succeeded, Pictures
    <2>2. /\ k \in SessionRecord /\ k.known = s.known /\ k.op = s.op /\ k.next_id = s.next_id
          /\ k.frames = s.frames + 1 /\ k.bytes = s.bytes /\ k.failed = s.failed /\ k.unclean = s.unclean
      BY FramesCounted
    <2> HIDE DEF k
    <2> QED  BY <1>6, <2>1, <2>2, ToIs DEF SucceededTo, Kept
  <1>7. CASE s.at = "clear"
    <2>1. u = To(s, IF s.known THEN "hook_off" ELSE "motion_off")
      BY <1>7 DEF Succeeded, CleanupGoesOn, AfterClear
    <2> QED  BY <1>7, <2>1, ToIs DEF SucceededTo, GoesTo, Kept
  <1>8. CASE s.at = "hook_off"
    <2>1. u = To(s, "motion_off")
      BY <1>8 DEF Succeeded, CleanupGoesOn
    <2> QED  BY <1>8, <2>1, ToIs DEF SucceededTo, GoesTo, Kept
  <1>9. CASE s.at = "motion_off"
    <2>1. u \in AfterCleanup(s)
      BY <1>9 DEF Succeeded, CleanupGoesOn
    <2>2. CASE u = To(s, "done")
      BY <1>9, <2>2, ToIs DEF SucceededTo, GoesTo, Kept
    <2>3. CASE u # To(s, "done")
      <3> DEFINE k == [s EXCEPT !.known = FALSE]
      <3>1. s.op = "recording" /\ ~ s.failed /\ ~ s.unclean /\ s.frames < expected_frames /\ u = To(k, "motion_on")
        BY <2>1, <2>3 DEF AfterCleanup
      <3>2. /\ k \in SessionRecord /\ k.known = FALSE /\ k.op = s.op /\ k.next_id = s.next_id
            /\ k.frames = s.frames /\ k.bytes = s.bytes /\ k.failed = s.failed /\ k.unclean = s.unclean
        BY KnownIsSet
      <3> HIDE DEF k
      <3>3. ~ u.known /\ ~ u.failed /\ ~ u.unclean
        BY <3>1, <3>2, ToIs
      <3> QED  BY <1>9, <3>1, <3>2, <3>3, ToIs DEF SucceededTo, Kept
    <2> QED  BY <2>2, <2>3
  <1>10. CASE s.at = "read"
    <2> DEFINE q == Append(s.bytes, m.piece)
               k == [s EXCEPT !.bytes = q]
    <2>1. u = To(k, IF m.piece = Chunks THEN "io_close" ELSE "read")
      BY <1>10 DEF Succeeded, Collected, eof
    <2>2. q \in Seq(1 .. Chunks)
      BY <1>10 DEF SessionRecord
    <2>3. /\ k \in SessionRecord /\ k.known = s.known /\ k.op = s.op /\ k.next_id = s.next_id
          /\ k.frames = s.frames /\ k.bytes = q /\ k.failed = s.failed /\ k.unclean = s.unclean
      <3> HIDE DEF q
      <3> QED  BY <2>2, BytesCollected
    <2> HIDE DEF k
    <2> QED  BY <1>10, <2>1, <2>3, ToIs DEF SucceededTo, Kept
  <1>11. CASE s.at \in {"io_close", "eval"}
    <2>1. u = To(s, "done")
      BY <1>11 DEF Succeeded
    <2> QED  BY <1>11, <2>1, ToIs DEF SucceededTo, GoesTo, Kept
  <1> QED  BY <1>0, <1>1, <1>2, <1>3, <1>4, <1>5, <1>6, <1>7, <1>8, <1>9, <1>10, <1>11 DEF Pictures

-----------------------------------------------------------------------------
(* The steps, by what the invariant speaks of.                             *)

\* A step of the session that reads: it touches neither what was sent nor the page.
Turn ==
  /\ UNCHANGED <<pending, open, document, late, faults, noise, loads>> /\ Sent' = Sent
  /\ inbox' \in Seq(MessageRecord) /\ Arrived' \subseteq Arrived
  /\ s' \in SessionRecord
  /\ seen' \in SeenRecord /\ seen'.asked = seen'.answered
  /\ seen'.arrived = seen.arrived /\ seen'.moving = seen.moving /\ seen'.slipped = seen.slipped
  /\ seen'.cleared = seen.cleared /\ seen'.pictures = seen.pictures

\* How the session goes on: as it was, after a call that failed or succeeded, or with the
\* stream of a complete trace.
GoesOn ==
  \/ s' = s
  \/ s.awaited # 0 /\ FailedTo(s')
  \/ \E m \in Arrived : Granted(m) /\ SucceededTo(s', m)
  \/ /\ s.awaited # 0 /\ s.at = "trace_end" /\ GoesTo(s', "read")
     /\ \E m \in Arrived : m.kind = "tracingComplete" /\ m.outcome = "ok"

\* The answer to a request that is awaited comes last: nothing is left to be served.
LEMMA NothingLeft ==
  ASSUME CdpInd, NEW m \in Arrived, IsAnswer(m), s.awaited # 0
  PROVE  Sent = {} /\ m.method = s.at
  <1>1. s \in SessionRecord /\ Sent \subseteq RequestRecord /\ m \in MessageRecord
    BY ElemsOf DEF CdpInd, SessionTypes, Sent, Arrived
  <1>2. m.kind = "answer" /\ m.id = s.awaited
    BY DEF IsAnswer
  <1>3. m.method = s.at /\ s.next_id = s.awaited + 1 /\ \A x \in Sent : m.id < x.id /\ x.id < s.next_id
    BY <1>2 DEF CdpInd, InOrder
  <1>4. s.awaited \in Nat /\ \A x \in Sent : x.id \in Nat
    BY <1>1 DEF SessionRecord, RequestRecord
  <1>5. \A x \in Sent : FALSE
    BY <1>2, <1>3, <1>4
  <1> QED  BY <1>3, <1>5

\* Reading the awaited answer notes it and nothing else.
LEMMA SeenIs ==
  ASSUME seen \in SeenRecord, NEW a \in SessionLabels \cup {"none"}, seen' = [seen EXCEPT !.asked = a, !.answered = a]
  PROVE  /\ seen' \in SeenRecord /\ seen'.asked = seen'.answered
         /\ seen'.arrived = seen.arrived /\ seen'.moving = seen.moving /\ seen'.slipped = seen.slipped
         /\ seen'.cleared = seen.cleared /\ seen'.pictures = seen.pictures
  <1> DEFINE L == SessionLabels \cup {"none"}
  <1> a \in L /\ SeenRecord = [asked : L, answered : L, arrived : BOOLEAN, moving : BOOLEAN,
                              slipped : BOOLEAN, cleared : BOOLEAN, pictures : Nat]
    BY DEF SeenRecord
  <1> HIDE DEF L
  <1> QED  OBVIOUS

\* Every read, of a message or of a closed socket, is a turn of the session after which it
\* goes on in one of four ways.
LEMMA SessionGoesOn ==
  ASSUME CdpInd, Read \/ ReadClosed
  PROVE  Turn /\ GoesOn
  <1> USE DEF CdpInd, SessionTypes
  <1>0. s.awaited # 0 => s.at # "done"
    BY DEF InOrder
  <1>1. CASE ReadClosed
    <2>1. s' \in SessionRecord /\ FailedTo(s') /\ s.awaited # 0
      BY <1>0, <1>1, FailedIs DEF ReadClosed
    <2>2. UNCHANGED <<pending, open, document, late, faults, noise, loads, inbox, seen>>
      BY <1>1 DEF ReadClosed
    <2> QED  BY <2>1, <2>2 DEF Turn, GoesOn, Sent, Arrived, OwnAnswers
  <1>2. CASE Read
    <2> DEFINE m == Head(inbox)
    <2>1. /\ s.awaited # 0 /\ inbox # <<>> /\ s' \in Taken(m) /\ inbox' = Tail(inbox)
          /\ seen' = IF IsAnswer(m) THEN [seen EXCEPT !.asked = s.at, !.answered = m.method] ELSE seen
          /\ UNCHANGED <<pending, open, document, late, faults, noise, loads>>
      BY <1>2 DEF Read
    <2>2. m \in Arrived /\ m \in MessageRecord /\ inbox' \in Seq(MessageRecord) /\ Arrived' \subseteq Arrived
      BY <2>1, TailOf, ElemsOf DEF Arrived
    <2> HIDE DEF m
    <2>3. /\ seen' \in SeenRecord /\ seen'.asked = seen'.answered
          /\ seen'.arrived = seen.arrived /\ seen'.moving = seen.moving /\ seen'.slipped = seen.slipped
          /\ seen'.cleared = seen.cleared /\ seen'.pictures = seen.pictures
      <3>1. CASE IsAnswer(m)
        <4>1. m.method = s.at /\ s.at \in SessionLabels
          BY <2>1, <2>2, <3>1, NothingLeft DEF SessionRecord
        <4> QED  BY <2>1, <3>1, <4>1, SeenIs
      <3>2. CASE ~ IsAnswer(m)
        BY <2>1, <3>2 DEF OwnAnswers
      <3> QED  BY <3>1, <3>2
    <2>4. CASE s' = s
      BY <2>1, <2>2, <2>3, <2>4 DEF Turn, GoesOn, Sent
    <2>5. CASE s' \in Failed(s)
      <3>1. s' \in SessionRecord /\ FailedTo(s')
        BY <1>0, <2>1, <2>5, FailedIs
      <3> QED  BY <2>1, <2>2, <2>3, <3>1 DEF Turn, GoesOn, Sent
    <2>6. CASE IsAnswer(m) /\ m.outcome = "ok" /\ s.at # "trace_end" /\ s' \in Succeeded(s, m)
      <3>1. Granted(m)
        BY <2>1, <2>6 DEF Granted
      <3>2. s.at = "read" => m.piece \in 1 .. Chunks
        <4> SUFFICES ASSUME s.at = "read" PROVE m.piece \in 1 .. Chunks
          OBVIOUS
        <4>1. s.op = "trace"
          BY DEF Labelled, LabelsOf, Setup, Cleanup
        <4>2. m.piece = Len(s.bytes) + 1 /\ Len(s.bytes) < Chunks
          BY <2>2, <3>1, <4>1 DEF Traces
        <4>3. Len(s.bytes) \in Nat
          BY DEF SessionRecord
        <4> QED  BY <4>2, <4>3, CdpAssumption DEF CdpAssumption
      <3>3. s' \in SessionRecord /\ SucceededTo(s', m)
        BY <1>0, <2>1, <2>2, <2>6, <3>2, SucceededIs
      <3> QED  BY <2>1, <2>2, <2>3, <3>1, <3>3 DEF Turn, GoesOn, Sent
    <2>7. CASE m.kind = "tracingComplete" /\ m.outcome # "lacking" /\ s.at = "trace_end" /\ s' = To(s, "read")
      <3>1. m.outcome = "ok"
        <4>1. m.outcome \in {"ok", "error", "lacking"} /\ m.outcome # "error"
          BY <2>2, <2>7 DEF MessageRecord, InOrder
        <4> QED  BY <2>7, <4>1
      <3>2. s' \in SessionRecord /\ GoesTo(s', "read")
        BY <2>7, ToIs DEF GoesTo, Kept, SessionLabels, Traced
      <3> QED  BY <2>1, <2>2, <2>3, <2>7, <3>1, <3>2 DEF Turn, GoesOn, Sent
    <2> QED
      <3>1. m.outcome \in {"ok", "error", "lacking"}
        BY <2>2 DEF MessageRecord
      <3>2. CASE IsAnswer(m)
        <4>1. m.kind = "answer"
          BY <3>2 DEF IsAnswer
        <4>2. \/ s' \in Failed(s) \/ s' = s
              \/ m.outcome = "ok" /\ s.at # "trace_end" /\ s' \in Succeeded(s, m)
          BY <2>1, <3>1, <3>2, <4>1 DEF Taken, TakenAnswer, Refused
        <4> QED  BY <2>4, <2>5, <2>6, <3>2, <4>2
      <3>3. CASE ~ IsAnswer(m)
        <4>1. \/ s' \in Failed(s) \/ s' = s
              \/ m.kind = "tracingComplete" /\ m.outcome # "lacking" /\ s.at = "trace_end" /\ s' = To(s, "read")
          BY <2>1, <3>3 DEF Taken
        <4> QED  BY <2>4, <2>5, <2>7, <4>1
      <3> QED  BY <3>2, <3>3
  <1> QED  BY <1>1, <1>2

-----------------------------------------------------------------------------
(* Steps of the session that read.                                         *)

\* A message that is passed over keeps the invariant.
LEMMA ReadNothing ==
  ASSUME CdpInd, Turn, s' = s
  PROVE  CdpInd'
  <1> USE DEF CdpInd, Turn
  <1>0. \A m : Granted(m)' <=> Granted(m)
    BY DEF Granted, IsAnswer
  <1>1. SessionTypes' /\ OwnAnswers'
    BY DEF SessionTypes, OwnAnswers
  <1>2. InOrder'
    BY DEF InOrder
  <1>3. Labelled'
    BY DEF Labelled
  <1>4. SetUp'
    BY <1>0 DEF SetUp, Only
  <1>5. Still'
    BY DEF Still
  <1>6. TakenBack'
    BY <1>0 DEF TakenBack, Only, None
  <1>7. Counted'
    BY <1>0 DEF Counted, None
  <1>8. Reached'
    BY DEF Reached
  <1>9. Traces'
    BY <1>0 DEF Traces
  <1> QED  BY <1>1, <1>2, <1>3, <1>4, <1>5, <1>6, <1>7, <1>8, <1>9

\* After a call has ended nothing is awaited.
LEMMA Ended ==
  ASSUME CdpInd, Turn, Kept(s')
  PROVE  /\ \A m : ~ Granted(m)'
         /\ SessionTypes' /\ OwnAnswers' /\ InOrder' /\ Still'
         /\ s.at \in LabelsOf(s.op) /\ s'.op = s.op
         /\ (s'.at \in LabelsOf(s.op) => Labelled')
  <1> USE DEF CdpInd, Turn, Kept
  <1>1. \A m : ~ Granted(m)'
    BY DEF Granted
  <1>2. SessionTypes' /\ OwnAnswers'
    BY DEF SessionTypes, OwnAnswers
  <1>3. InOrder'
    <2>1. \A x \in Sent' : 0 < x.id /\ x.id < s'.next_id /\ x.id # s'.awaited
      BY DEF InOrder
    <2>2. \A m \in Arrived' : m.kind = "answer" =>
            /\ 0 < m.id /\ m.id < s'.next_id /\ m.id # s'.awaited
            /\ \A x \in Sent' : m.id < x.id
      BY DEF InOrder
    <2> QED  BY <2>1, <2>2 DEF InOrder
  <1>4. Still'
    BY DEF Still
  <1>5. s.at \in LabelsOf(s.op) /\ (s'.at \in LabelsOf(s.op) => Labelled')
    BY DEF Labelled
  <1> QED  BY <1>1, <1>2, <1>3, <1>4, <1>5

\* A call that fails keeps the invariant: the cleanup it goes on to finds what it needs.
LEMMA CallFails ==
  ASSUME CdpInd, Turn, s.awaited # 0, FailedTo(s')
  PROVE  CdpInd'
  <1> USE DEF CdpInd, Turn
  <1>0. /\ \A m : ~ Granted(m)'
        /\ SessionTypes' /\ OwnAnswers' /\ InOrder' /\ Still'
        /\ s.at \in LabelsOf(s.op) /\ s'.op = s.op /\ (s'.at \in LabelsOf(s.op) => Labelled')
    BY Ended DEF FailedTo
  <1>3. Labelled'
    <2>1. s'.at \in LabelsOf(s.op)
      BY <1>0 DEF FailedTo, LabelsOf, Setup, Cleanup, Traced, Others, Suppressing
    <2> QED  BY <1>0, <2>1
  <1>4. SetUp'
    BY <1>0 DEF SetUp, Only, FailedTo, Prepared, Others, Cleanup
  <1>5. ~ open => Sent = {}
    BY ElemsOf DEF InOrder, SessionTypes, Sent
  <1>6. TakenBack'
    <2> USE <1>0, <1>5
       DEF TakenBack, SetUp, Labelled, LabelsOf, Prepared, Only, None, SessionLabels, Inspected, Setup,
           Traced, Suppressing, FailedTo, Kept, Others, Cleanup
    <2>1. CASE s.at = "motion_on"
      BY <2>1
    <2>2. CASE s.at = "clear"
      BY <2>2
    <2>3. CASE s.at \in {"hook_off", "motion_off"}
      BY <2>3
    <2>4. CASE s.at = "ready"
      BY <2>4
    <2>5. CASE s.at \in {"url", "io_close"}
      BY <2>5
    <2>6. CASE s.at \in Others
      BY <2>6
    <2> QED  BY <2>1, <2>2, <2>3, <2>4, <2>5, <2>6 DEF FailedTo
  <1>7. Counted'
    <2> USE <1>0
       DEF Counted, None, Labelled, LabelsOf, Setup, Traced, Pictures, Single, FailedTo, Kept, Others,
           Cleanup
    <2>1. CASE s.at = "motion_on"
      BY <2>1
    <2>2. CASE s.at = "clear"
      BY <2>2
    <2>3. CASE s.at \in {"hook_off", "motion_off"}
      BY <2>3
    <2>4. CASE s.at = "ready"
      BY <2>4
    <2>5. CASE s.at \in {"url", "io_close"}
      BY <2>5
    <2>6. CASE s.at \in Others
      BY <2>6
    <2> QED  BY <2>1, <2>2, <2>3, <2>4, <2>5, <2>6 DEF FailedTo
  <1>8. Reached'
    <2> USE <1>0 DEF Reached, Labelled, LabelsOf, Setup, Traced, FailedTo, Kept, Others, Cleanup
    <2>1. CASE s.at = "motion_on"
      BY <2>1
    <2>2. CASE s.at = "clear"
      BY <2>2
    <2>3. CASE s.at \in {"hook_off", "motion_off"}
      BY <2>3
    <2>4. CASE s.at = "ready"
      BY <2>4
    <2>5. CASE s.at \in {"url", "io_close"}
      BY <2>5
    <2>6. CASE s.at \in Others
      BY <2>6
    <2> QED  BY <2>1, <2>2, <2>3, <2>4, <2>5, <2>6 DEF FailedTo
  <1>9. Traces'
    <2> USE <1>0
       DEF Traces, Labelled, LabelsOf, Setup, Traced, FailedTo, Kept, Others, Cleanup,
           Suppressing
    <2>1. CASE s.at = "motion_on"
      BY <2>1
    <2>2. CASE s.at = "clear"
      BY <2>2
    <2>3. CASE s.at \in {"hook_off", "motion_off"}
      BY <2>3
    <2>4. CASE s.at = "ready"
      BY <2>4
    <2>5. CASE s.at \in {"url", "io_close"}
      BY <2>5
    <2>6. CASE s.at \in Others
      BY <2>6
    <2> QED  BY <2>1, <2>2, <2>3, <2>4, <2>5, <2>6 DEF FailedTo
  <1> QED  BY <1>0, <1>3, <1>4, <1>6, <1>7, <1>8, <1>9

\* A call that succeeds keeps it: nothing is left to be served, so what was asked for is so.
LEMMA CallSucceeds ==
  ASSUME CdpInd, Turn, NEW m \in Arrived, Granted(m), SucceededTo(s', m)
  PROVE  CdpInd'
  <1> USE DEF CdpInd, Turn
  <1>0. /\ \A n : ~ Granted(n)'
        /\ SessionTypes' /\ OwnAnswers' /\ InOrder' /\ Still'
        /\ s.at \in LabelsOf(s.op) /\ s'.op = s.op /\ (s'.at \in LabelsOf(s.op) => Labelled')
    BY Ended DEF SucceededTo, GoesTo
  <1>1. Sent = {} /\ m.method = s.at
    BY NothingLeft DEF Granted
  <1>2. m \in MessageRecord /\ s.awaited # 0 /\ m.kind = "answer" /\ m.outcome = "ok"
    BY ElemsOf DEF Arrived, SessionTypes, Granted, IsAnswer
  <1>3. Labelled'
    <2> USE <1>0, <1>1, <1>2
       DEF LabelsOf, Setup, Cleanup, Traced, Pictures, OperationStart, Suppressing, SucceededTo,
           GoesTo, Kept
    <2>1. CASE s.at = "motion_on"
      BY <2>1
    <2>2. CASE s.at = "hook_on"
      BY <2>2
    <2>3. CASE s.at = "apply"
      BY <2>3
    <2>4. CASE s.at \in {"enable", "goto", "metrics"}
      BY <2>4
    <2>5. CASE s.at = "ready"
      BY <2>5
    <2>6. CASE s.at \in Pictures
      BY <2>6
    <2>7. CASE s.at \in {"url", "clear"}
      BY <2>7
    <2>8. CASE s.at = "hook_off"
      BY <2>8
    <2>9. CASE s.at = "motion_off"
      BY <2>9
    <2>10. CASE s.at = "trace_start"
      BY <2>10
    <2>11. CASE s.at = "read"
      BY <2>11
    <2>12. CASE s.at \in {"io_close", "eval"}
      BY <2>12
    <2> QED  BY <2>1, <2>2, <2>3, <2>4, <2>5, <2>6, <2>7, <2>8, <2>9, <2>10, <2>11, <2>12 DEF SucceededTo
  <1>4. SetUp'
    <2> USE <1>0, <1>1, <1>2
       DEF Labelled, LabelsOf, Setup, Cleanup, Traced, SetUp, TakenBack, Only, Prepared, Pictures,
           OperationStart, Suppressing, SucceededTo, GoesTo, Kept
    <2>1. CASE s.at = "motion_on"
      BY <2>1
    <2>2. CASE s.at = "hook_on"
      BY <2>2
    <2>3. CASE s.at = "apply"
      BY <2>3
    <2>4. CASE s.at \in {"enable", "goto", "metrics"}
      BY <2>4
    <2>5. CASE s.at = "ready"
      BY <2>5
    <2>6. CASE s.at \in Pictures
      BY <2>6
    <2>7. CASE s.at \in {"url", "clear"}
      BY <2>7
    <2>8. CASE s.at = "hook_off"
      BY <2>8
    <2>9. CASE s.at = "motion_off"
      BY <2>9
    <2>10. CASE s.at = "trace_start"
      BY <2>10
    <2>11. CASE s.at = "read"
      BY <2>11
    <2>12. CASE s.at \in {"io_close", "eval"}
      BY <2>12
    <2> QED  BY <2>1, <2>2, <2>3, <2>4, <2>5, <2>6, <2>7, <2>8, <2>9, <2>10, <2>11, <2>12 DEF SucceededTo
  <1>6. TakenBack'
    <2> USE <1>0, <1>1, <1>2
       DEF Labelled, LabelsOf, Setup, Cleanup, Traced, SetUp, TakenBack, Only, None, Pictures,
           Prepared, OperationStart, Suppressing, SucceededTo, GoesTo, Kept
    <2>1. CASE s.at = "motion_on"
      BY <2>1
    <2>2. CASE s.at = "hook_on"
      BY <2>2
    <2>3. CASE s.at = "apply"
      BY <2>3
    <2>4. CASE s.at \in {"enable", "goto", "metrics"}
      BY <2>4
    <2>5. CASE s.at = "ready"
      BY <2>5
    <2>6. CASE s.at \in Pictures
      BY <2>6
    <2>7. CASE s.at \in {"url", "clear"}
      BY <2>7
    <2>8. CASE s.at = "hook_off"
      BY <2>8
    <2>9. CASE s.at = "motion_off"
      BY <2>9
    <2>10. CASE s.at = "trace_start"
      BY <2>10
    <2>11. CASE s.at = "read"
      BY <2>11
    <2>12. CASE s.at \in {"io_close", "eval"}
      BY <2>12
    <2> QED  BY <2>1, <2>2, <2>3, <2>4, <2>5, <2>6, <2>7, <2>8, <2>9, <2>10, <2>11, <2>12 DEF SucceededTo
  <1>7. Counted'
    <2> USE <1>0, <1>1, <1>2
       DEF Labelled, LabelsOf, Setup, Cleanup, Traced, Counted, None, Pictures, Single,
           OperationStart, SucceededTo, GoesTo, Kept
    <2>1. CASE s.at = "motion_on"
      BY <2>1
    <2>2. CASE s.at = "hook_on"
      BY <2>2
    <2>3. CASE s.at = "apply"
      BY <2>3
    <2>4. CASE s.at \in {"enable", "goto", "metrics"}
      BY <2>4
    <2>5. CASE s.at = "ready"
      BY <2>5
    <2>6. CASE s.at \in Pictures
      <3>1. s.frames \in Nat /\ seen.pictures \in Nat /\ expected_frames \in Nat
        BY CdpAssumption DEF SessionTypes, SessionRecord, SeenRecord, CdpAssumption
      <3> QED  BY <2>6, <3>1
    <2>7. CASE s.at \in {"url", "clear"}
      BY <2>7
    <2>8. CASE s.at = "hook_off"
      BY <2>8
    <2>9. CASE s.at = "motion_off"
      BY <2>9
    <2>10. CASE s.at = "trace_start"
      BY <2>10
    <2>11. CASE s.at = "read"
      BY <2>11
    <2>12. CASE s.at \in {"io_close", "eval"}
      BY <2>12
    <2> QED  BY <2>1, <2>2, <2>3, <2>4, <2>5, <2>6, <2>7, <2>8, <2>9, <2>10, <2>11, <2>12 DEF SucceededTo
  <1>8. Reached'
    <2> USE <1>0, <1>1, <1>2
       DEF Labelled, LabelsOf, Setup, Cleanup, Traced, Reached, OperationStart, Pictures,
           SucceededTo, GoesTo, Kept
    <2>1. CASE s.at = "motion_on"
      BY <2>1
    <2>2. CASE s.at = "hook_on"
      BY <2>2
    <2>3. CASE s.at = "apply"
      BY <2>3
    <2>4. CASE s.at \in {"enable", "goto", "metrics"}
      BY <2>4
    <2>5. CASE s.at = "ready"
      BY <2>5
    <2>6. CASE s.at \in Pictures
      BY <2>6
    <2>7. CASE s.at \in {"url", "clear"}
      BY <2>7
    <2>8. CASE s.at = "hook_off"
      BY <2>8
    <2>9. CASE s.at = "motion_off"
      BY <2>9
    <2>10. CASE s.at = "trace_start"
      BY <2>10
    <2>11. CASE s.at = "read"
      BY <2>11
    <2>12. CASE s.at \in {"io_close", "eval"}
      BY <2>12
    <2> QED  BY <2>1, <2>2, <2>3, <2>4, <2>5, <2>6, <2>7, <2>8, <2>9, <2>10, <2>11, <2>12 DEF SucceededTo
  <1>9. Traces'
    <2> USE <1>0, <1>1, <1>2
       DEF Labelled, LabelsOf, Setup, Cleanup, Traced, Traces, OperationStart, Pictures,
           SucceededTo, GoesTo, Kept
    <2>1. CASE s.at = "motion_on"
      BY <2>1
    <2>2. CASE s.at = "hook_on"
      BY <2>2
    <2>3. CASE s.at = "apply"
      BY <2>3
    <2>4. CASE s.at \in {"enable", "goto", "metrics"}
      BY <2>4
    <2>5. CASE s.at = "ready"
      BY <2>5
    <2>6. CASE s.at \in Pictures
      BY <2>6
    <2>7. CASE s.at \in {"url", "clear"}
      BY <2>7
    <2>8. CASE s.at = "hook_off"
      BY <2>8
    <2>9. CASE s.at = "motion_off"
      BY <2>9
    <2>10. CASE s.at = "trace_start"
      BY <2>10
    <2>11. CASE s.at = "read"
      <3> DEFINE n == Len(s.bytes)
      <3>1. s.op = "trace"
        BY <2>11 DEF Labelled, LabelsOf, Setup, Cleanup
      <3>2. /\ m.piece = n + 1 /\ document.stream = m.piece + 1 /\ n < Chunks
            /\ s.bytes = [i \in 1 .. n |-> i]
        BY <2>11, <3>1 DEF Traces
      <3>3. n \in Nat /\ s.bytes \in Seq(1 .. Chunks) /\ Chunks \in Nat
        BY CdpAssumption DEF SessionTypes, SessionRecord, CdpAssumption
      <3>4. s'.bytes = Append(s.bytes, n + 1) /\ s'.at = (IF m.piece = Chunks THEN "io_close" ELSE "read")
        <4>1. s'.bytes = Append(s.bytes, m.piece) /\ s'.at = (IF m.piece = Chunks THEN "io_close" ELSE "read")
          BY <2>11 DEF SucceededTo, GoesTo, Pictures
        <4> QED  BY <3>2, <4>1
      <3>5. Len(s'.bytes) = n + 1 /\ s'.bytes = [i \in 1 .. n + 1 |-> i]
        BY <3>2, <3>3, <3>4, NextPiece
      <3> HIDE DEF n
      <3> QED  BY <3>1, <3>2, <3>3, <3>4, <3>5
    <2>12. CASE s.at \in {"io_close", "eval"}
      BY <2>12
    <2> QED  BY <2>1, <2>2, <2>3, <2>4, <2>5, <2>6, <2>7, <2>8, <2>9, <2>10, <2>11, <2>12 DEF SucceededTo
  <1> QED  BY <1>0, <1>3, <1>4, <1>6, <1>7, <1>8, <1>9

\* The end of a trace keeps it: no request is left, and the stream starts at its first piece.
LEMMA TraceCompletes ==
  ASSUME CdpInd, Turn, s.at = "trace_end", s.awaited # 0, GoesTo(s', "read"),
         \E m \in Arrived : m.kind = "tracingComplete" /\ m.outcome = "ok"
  PROVE  CdpInd'
  <1> USE DEF CdpInd, Turn, GoesTo, Kept
  <1>0. /\ \A m : ~ Granted(m)'
        /\ SessionTypes' /\ OwnAnswers' /\ InOrder' /\ Still'
        /\ s.at \in LabelsOf(s.op) /\ s'.op = s.op /\ (s'.at \in LabelsOf(s.op) => Labelled')
    BY Ended
  <1>1. s.op = "trace"
    BY <1>0 DEF LabelsOf, Setup, Cleanup
  <1>2. Sent = {}
    BY <1>1 DEF Traces
  <1>3. Labelled'
    BY <1>0, <1>1 DEF LabelsOf, Traced
  <1>4. SetUp'
    BY <1>0 DEF SetUp, Prepared
  <1>5. TakenBack'
    BY <1>0, <1>1 DEF TakenBack, Suppressing, Prepared
  <1>6. Counted' /\ Reached'
    BY <1>0, <1>1 DEF Counted, Reached, Single
  <1>7. Traces'
    <2>1. s.bytes = <<>> /\ document.stream = 1
      BY <1>1 DEF Traces
    <2>2. Len(s.bytes) = 0 /\ Chunks \in Nat \ {0}
      BY <2>1, CdpAssumption DEF CdpAssumption
    <2> QED  BY <1>0, <1>1, <1>2, <2>1, <2>2 DEF Traces
  <1> QED  BY <1>0, <1>3, <1>4, <1>5, <1>6, <1>7

\* Every step of the session that reads keeps the invariant.
LEMMA ReadKeeps ==
  ASSUME CdpInd, Read \/ ReadClosed
  PROVE  CdpInd'
  <1>1. Turn /\ GoesOn
    BY SessionGoesOn
  <1> QED  BY <1>1, ReadNothing, CallFails, CallSucceeds, TraceCompletes DEF GoesOn

-----------------------------------------------------------------------------
(* Sending.                                                                *)

\* A request that is sent keeps the invariant: its id is above all others.
LEMMA SendKeeps ==
  ASSUME CdpInd, send_request
  PROVE  CdpInd'
  <1> USE DEF CdpInd
  <1> DEFINE r == [id |-> s.next_id, method |-> s.at]
             k == s.next_id
  <1>0. s \in SessionRecord /\ s.next_id \in Nat \ {0} /\ s.at \in SessionLabels /\ pending \in Seq(RequestRecord)
    BY DEF SessionTypes, SessionRecord
  <1>1. /\ s.at # "done" /\ s.awaited = 0
        /\ s' \in SessionRecord /\ s'.awaited = k /\ s'.next_id = k + 1
        /\ s'.op = s.op /\ s'.known = s.known /\ s'.frames = s.frames /\ s'.bytes = s.bytes
        /\ s'.failed = s.failed /\ s'.unclean = s.unclean /\ s'.at = s.at
    <2>1. s.at # "done" /\ s.awaited = 0 /\ s' = [s EXCEPT !.awaited = k, !.next_id = @ + 1]
      BY DEF send_request
    <2> DEFINE j == k + 1
    <2>2. s' = [s EXCEPT !.awaited = k, !.next_id = j]
      BY <2>1
    <2>3. k \in Nat /\ j \in Nat \ {0}
      BY <1>0
    <2> HIDE DEF k, j
    <2>4. /\ s' \in SessionRecord /\ s'.awaited = k /\ s'.next_id = j
          /\ s'.op = s.op /\ s'.known = s.known /\ s'.frames = s.frames /\ s'.bytes = s.bytes
          /\ s'.failed = s.failed /\ s'.unclean = s.unclean /\ s'.at = s.at
      BY <1>0, <2>2, <2>3 DEF SessionRecord
    <2> QED  BY <2>1, <2>4 DEF j
  <1>2. UNCHANGED <<inbox, open, document, late, faults, noise, loads, seen>> /\ Arrived' = Arrived
    BY DEF send_request, Arrived
  <1>3. r \in RequestRecord /\ r.id = k /\ r.method = s.at
    BY <1>0 DEF RequestRecord
  <1>4. \A x \in Sent : x \in RequestRecord /\ x.id \in Nat /\ x.id < k
    <2>1. Sent \subseteq RequestRecord
      BY <1>0, ElemsOf DEF Sent
    <2>2. \A x \in Sent : x.id < k
      BY DEF InOrder
    <2> QED  BY <2>1, <2>2 DEF RequestRecord
  <1>5. pending' = IF open THEN Append(pending, r) ELSE pending
    BY DEF send_request
  <1> HIDE DEF r, k
  <1>6. pending' \in Seq(RequestRecord) /\ Rising(pending')
    BY <1>0, <1>3, <1>4, <1>5, AppendOf DEF InOrder, Sent
  <1>7. (open /\ Sent' = Sent \cup {r}) \/ (~ open /\ Sent' = Sent /\ Sent = {} /\ pending' = <<>>)
    BY <1>0, <1>3, <1>5, AppendOf, ElemsOf DEF Sent, InOrder
  <1>8. k \in Nat \ {0}
    BY <1>0 DEF k
  <1>9. \A m : m \in Arrived /\ Granted(m)' => FALSE
    <2>1. \A m \in Arrived : m.kind = "answer" => m.id < k
      BY DEF InOrder, k
    <2> QED  BY <1>1, <1>8, <2>1 DEF Granted, IsAnswer
  <1>11. SessionTypes' /\ OwnAnswers'
    BY <1>1, <1>2, <1>6 DEF SessionTypes, OwnAnswers
  <1>12. InOrder'
    <2>1. \A x \in Sent' : 0 < x.id /\ x.id < k + 1 /\ (x.id = k => x.method = s.at)
      BY <1>3, <1>4, <1>7, <1>8 DEF InOrder
    <2>2. \A m \in Arrived : m.kind = "answer" => m.id \in Nat /\ 0 < m.id /\ m.id < k /\ \A x \in Sent' : m.id < x.id
      <3>1. \A m \in Arrived : m.id \in Nat
        <4>1. Arrived \subseteq MessageRecord
          BY ElemsOf DEF SessionTypes, Arrived
        <4> QED  BY <4>1 DEF MessageRecord
      <3> QED  BY <1>3, <1>7, <3>1 DEF InOrder, k
    <2>3. \A m \in Arrived : m.kind = "answer" => m.id < k + 1 /\ m.id # k
      BY <1>8, <2>2
    <2> QED  BY <1>1, <1>2, <1>6, <1>7, <1>8, <2>1, <2>2, <2>3 DEF InOrder
  <1>13. Labelled'
    BY <1>1, <1>3, <1>7 DEF Labelled
  <1>14. SetUp'
    BY <1>1, <1>2, <1>3, <1>7, <1>8, <1>9 DEF SetUp, Only, Prepared
  <1>15. Still'
    <2>1. open /\ s.at \in Pictures => document.motion /\ document.hook /\ document.style /\ Only(Prepared)
      BY DEF SetUp, Prepared, Pictures
    <2> QED  BY <1>2, <1>3, <1>4, <1>7, <1>8, <2>1 DEF Still, Only, Prepared, Cleanup, Pictures
  <1>16. TakenBack'
    BY <1>1, <1>2, <1>3, <1>7, <1>8, <1>9 DEF TakenBack, Only, None, Cleanup
  <1>17. Counted'
    BY <1>1, <1>2, <1>3, <1>7, <1>8, <1>9 DEF Counted, None, Setup, Pictures, Cleanup, Single
  <1>18. Reached'
    BY <1>1, <1>2 DEF Reached
  <1>19. Traces'
    <2>1. s.op = "trace" => Sent = {}
      BY <1>1, <1>4, <1>8 DEF Traces, InOrder
    <2>2. s.at = "read" => s.op = "trace"
      BY DEF Labelled, LabelsOf, Setup, Cleanup
    <2>3. s.at = "read" => document.stream <= Chunks
      <3>1. Len(s.bytes) \in Nat /\ Chunks \in Nat
        BY CdpAssumption DEF SessionTypes, SessionRecord, CdpAssumption
      <3> QED  BY <1>1, <2>2, <3>1 DEF Traces
    <2>4. s.op = "trace" => \A x \in Sent' : x = r
      BY <1>7, <2>1
    <2>5. s.op = "trace" /\ s.at = "trace_end" => \A m \in Arrived : ~ (m.kind = "tracingComplete" /\ m.outcome = "ok")
      BY <1>1 DEF Traces
    <2> QED  BY <1>1, <1>2, <1>3, <1>7, <1>8, <1>9, <2>1, <2>2, <2>3, <2>4, <2>5 DEF Traces
  <1> QED  BY <1>11, <1>12, <1>13, <1>14, <1>15, <1>16, <1>17, <1>18, <1>19

-----------------------------------------------------------------------------
(* The browser and the page by themselves.                                 *)

\* Messages nobody asked for.
LEMMA UnaskedIs ==
  ASSUME document \in PageRecord, NEW kind \in {"event", "no_json", "tracingComplete"}, NEW outcome \in {"ok", "lacking"}
  PROVE  /\ Message(kind, Unasked, outcome) \in MessageRecord
         /\ Message(kind, Unasked, outcome).kind = kind
         /\ Message(kind, Unasked, outcome).outcome = outcome
  BY DEF Message, Unasked, MessageRecord

\* Events, pings, texts that are no JSON and an end of a trace without a stream keep it.
LEMMA SpeakKeeps ==
  ASSUME CdpInd, Speak
  PROVE  CdpInd'
  <1> USE DEF CdpInd
  <1>1. PICK n : /\ n \in MessageRecord /\ inbox' = Append(inbox, n)
                 /\ n.kind # "answer" /\ (n.kind = "tracingComplete" => n.outcome = "lacking")
    BY UnaskedIs DEF Speak, SessionTypes
  <1>2. inbox' \in Seq(MessageRecord) /\ Arrived' = Arrived \cup {n}
    BY <1>1, AppendOf DEF SessionTypes, Arrived
  <1>3. UNCHANGED <<s, pending, open, document, late, loads, seen>> /\ Sent' = Sent
    BY DEF Speak, Sent
  <1>4. faults' \in 0 .. MaxFaults /\ noise' \in 0 .. MaxNoise
    BY CdpAssumption DEF Speak, SessionTypes, CdpAssumption
  <1>5. \A m : Granted(m)' <=> Granted(m)
    BY <1>3 DEF Granted, IsAnswer
  <1>6. ~ Granted(n)
    BY <1>1 DEF Granted, IsAnswer
  <1>11. SessionTypes' /\ OwnAnswers'
    BY <1>2, <1>3, <1>4 DEF SessionTypes, OwnAnswers
  <1>12. InOrder'
    BY <1>1, <1>2, <1>3 DEF InOrder
  <1>13. Labelled' /\ Still'
    BY <1>3 DEF Labelled, Still
  <1>14. SetUp'
    BY <1>2, <1>3, <1>5, <1>6 DEF SetUp, Only
  <1>15. TakenBack'
    BY <1>2, <1>3, <1>5, <1>6 DEF TakenBack, Only, None
  <1>16. Counted'
    BY <1>2, <1>3, <1>5, <1>6 DEF Counted, None
  <1>17. Reached'
    BY <1>1, <1>2, <1>3 DEF Reached
  <1>18. Traces'
    BY <1>1, <1>2, <1>3, <1>5, <1>6 DEF Traces
  <1> QED  BY <1>11, <1>12, <1>13, <1>14, <1>15, <1>16, <1>17, <1>18

\* A socket that is closed, by the browser or at the end, keeps it: nothing is served any more.
LEMMA CloseKeeps ==
  ASSUME CdpInd, Close
  PROVE  CdpInd'
  <1> USE DEF CdpInd
  <1>1. UNCHANGED <<s, inbox, late, noise, loads, seen>> /\ Arrived' = Arrived /\ ~ open' /\ pending' = <<>>
    BY DEF Close, Arrived
  <1>2. /\ document' \in PageRecord /\ ~ document'.motion /\ ~ document'.hook /\ document'.style = document.style
        /\ document'.stream = document.stream
    BY DEF Close, SessionTypes, PageRecord
  <1>3. faults' \in 0 .. MaxFaults /\ open' \in BOOLEAN
    <2>1. open' = FALSE
      BY DEF Close
    <2>2. faults' = faults \/ (faults < MaxFaults /\ faults' = faults + 1)
      BY DEF Close
    <2>3. faults \in 0 .. MaxFaults /\ MaxFaults \in Nat
      BY CdpAssumption DEF SessionTypes, CdpAssumption
    <2>4. faults' \in 0 .. MaxFaults
      BY <2>2, <2>3
    <2> QED  BY <2>1, <2>4, Zenon
  <1>4. pending' \in Seq(RequestRecord) /\ Sent' = {} /\ Rising(pending')
    <2>1. pending' \in Seq(RequestRecord) /\ Len(pending') = 0
      BY <1>1
    <2> QED  BY <2>1 DEF Sent, Elems, Rising
  <1>5. \A m : Granted(m)' <=> Granted(m)
    BY <1>1 DEF Granted, IsAnswer
  <1>11. SessionTypes' /\ OwnAnswers'
    BY <1>1, <1>2, <1>3, <1>4 DEF SessionTypes, OwnAnswers
  <1>12. InOrder'
    BY <1>1, <1>4 DEF InOrder
  <1>13. Labelled' /\ Still'
    BY <1>1, <1>4 DEF Labelled, Still
  <1>14. SetUp'
    BY <1>1, <1>2, <1>4, <1>5 DEF SetUp, Only
  <1>15. TakenBack'
    BY <1>1, <1>2, <1>4, <1>5 DEF TakenBack, Only, None
  <1>16. Counted'
    BY <1>1, <1>2, <1>4, <1>5 DEF Counted, None
  <1>17. Reached'
    BY <1>1 DEF Reached
  <1>18. Traces'
    BY <1>1, <1>2, <1>4, <1>5 DEF Traces
  <1> QED  BY <1>11, <1>12, <1>13, <1>14, <1>15, <1>16, <1>17, <1>18

\* A document that the page loads by itself keeps it: the script suppresses its animations as
\* long as it is registered, and a style that it brings back after the cleanup has slipped.
LEMMA LoadsKeeps ==
  ASSUME CdpInd, LoadsDocument
  PROVE  CdpInd'
  <1> USE DEF CdpInd
  <1>1. UNCHANGED <<s, pending, inbox, open, late, faults, noise>> /\ Arrived' = Arrived /\ Sent' = Sent
    BY DEF LoadsDocument, Arrived, Sent
  <1>2. /\ document' \in PageRecord /\ document'.motion = document.motion /\ document'.hook = document.hook
        /\ document'.style = document.hook /\ document'.stream = document.stream
    BY DEF LoadsDocument, Load, SessionTypes, PageRecord
  <1>3. loads' \in 0 .. MaxLoads
    BY CdpAssumption DEF LoadsDocument, SessionTypes, CdpAssumption
  <1>4. /\ seen' \in SeenRecord /\ seen'.asked = seen.asked /\ seen'.answered = seen.answered
        /\ seen'.arrived = seen.arrived /\ seen'.moving = seen.moving
        /\ (seen.slipped => seen'.slipped) /\ (seen.cleared /\ document.hook => seen'.slipped)
        /\ seen'.cleared = seen.cleared /\ seen'.pictures = seen.pictures
    <2> DEFINE b == seen.slipped \/ (seen.cleared /\ document.hook)
    <2>1. b \in BOOLEAN /\ seen' = [seen EXCEPT !.slipped = b] /\ seen \in SeenRecord
      BY DEF LoadsDocument, SessionTypes
    <2>2. (seen.slipped => b) /\ (seen.cleared /\ document.hook => b)
      OBVIOUS
    <2> HIDE DEF b
    <2>3. /\ seen' \in SeenRecord /\ seen'.asked = seen.asked /\ seen'.answered = seen.answered
          /\ seen'.arrived = seen.arrived /\ seen'.moving = seen.moving /\ seen'.slipped = b
          /\ seen'.cleared = seen.cleared /\ seen'.pictures = seen.pictures
      BY <2>1 DEF SeenRecord
    <2> QED  BY <2>2, <2>3, Zenon
  <1>5. \A m : Granted(m)' <=> Granted(m)
    BY <1>1 DEF Granted, IsAnswer
  <1>11. SessionTypes' /\ OwnAnswers'
    BY <1>1, <1>2, <1>3, <1>4 DEF SessionTypes, OwnAnswers
  <1>12. InOrder' /\ Labelled'
    BY <1>1 DEF InOrder, Labelled
  <1>13. Still'
    BY <1>1, <1>2, <1>4 DEF Still
  <1>14. SetUp'
    BY <1>1, <1>2, <1>4, <1>5 DEF SetUp, Only
  <1>15. TakenBack'
    BY <1>1, <1>2, <1>4, <1>5 DEF TakenBack, Only, None
  <1>16. Counted'
    BY <1>1, <1>2, <1>4, <1>5 DEF Counted, None
  <1>17. Reached'
    BY <1>1, <1>4 DEF Reached
  <1>18. Traces'
    BY <1>1, <1>2, <1>4, <1>5 DEF Traces
  <1> QED  BY <1>11, <1>12, <1>13, <1>14, <1>15, <1>16, <1>17, <1>18

\* A page that is loaded, a deadline that passes and a step that changes nothing keep it.
LEMMA QuietKeeps ==
  ASSUME CdpInd, Loaded \/ Deadline \/ UNCHANGED session_vars
  PROVE  CdpInd'
  <1> USE DEF CdpInd
  <1>1. UNCHANGED <<s, pending, inbox, open, faults, noise, loads, seen>> /\ Arrived' = Arrived /\ Sent' = Sent
    BY DEF Loaded, Deadline, session_vars, Arrived, Sent
  <1>2. /\ document' \in PageRecord /\ document'.motion = document.motion /\ document'.hook = document.hook
        /\ document'.style = document.style /\ document'.stream = document.stream
    BY DEF Loaded, Deadline, session_vars, SessionTypes, PageRecord
  <1>3. late' \in BOOLEAN
    BY DEF Loaded, Deadline, session_vars, SessionTypes
  <1>5. \A m : Granted(m)' <=> Granted(m)
    BY <1>1 DEF Granted, IsAnswer
  <1>11. SessionTypes' /\ OwnAnswers'
    BY <1>1, <1>2, <1>3 DEF SessionTypes, OwnAnswers
  <1>12. InOrder' /\ Labelled'
    BY <1>1 DEF InOrder, Labelled
  <1>13. Still'
    BY <1>1, <1>2 DEF Still
  <1>14. SetUp'
    BY <1>1, <1>2, <1>5 DEF SetUp, Only
  <1>15. TakenBack'
    BY <1>1, <1>2, <1>5 DEF TakenBack, Only, None
  <1>16. Counted' /\ Reached'
    BY <1>1, <1>5 DEF Counted, None, Reached
  <1>18. Traces'
    BY <1>1, <1>2, <1>5 DEF Traces
  <1> QED  BY <1>11, <1>12, <1>13, <1>14, <1>15, <1>16, <1>18

-----------------------------------------------------------------------------
(* Requests that are served.                                               *)

\* What serving x does to the page, by field.
PageAfter(x, effect) ==
  /\ document' \in PageRecord
  /\ IF effect /\ x.method = "motion_on" THEN document'.motion
     ELSE IF effect /\ x.method = "motion_off" THEN ~ document'.motion ELSE document'.motion = document.motion
  /\ IF effect /\ x.method = "hook_on" THEN document'.hook
     ELSE IF effect /\ x.method = "hook_off" THEN ~ document'.hook ELSE document'.hook = document.hook
  /\ IF effect /\ x.method = "apply" THEN document'.style
     ELSE IF effect /\ x.method = "clear" THEN ~ document'.style
     ELSE IF effect /\ x.method = "goto" THEN document'.style = document.hook ELSE document'.style = document.style
  /\ document'.stream = IF effect /\ x.method = "read" THEN document.stream + 1 ELSE document.stream

\* What serving x adds to the history.
SeenAfter(x, outcome) ==
  /\ seen' \in SeenRecord /\ seen'.asked = seen.asked /\ seen'.answered = seen.answered
  /\ seen.arrived => seen'.arrived
  /\ x.method = "ready" /\ outcome = "ok" /\ document.ready = "complete" => seen'.arrived
  /\ ~ seen.moving /\ (x.method \in Pictures => document.style /\ document.motion) => ~ seen'.moving
  /\ seen'.slipped = seen.slipped
  /\ IF x.method = "clear" THEN seen'.cleared ELSE x.method # "hook_on" => seen'.cleared = seen.cleared
  /\ seen'.pictures = IF x.method \in Pictures /\ outcome = "ok" THEN seen.pictures + 1 ELSE seen.pictures

\* x leaves the requests and its answer m arrives.
Answers(x, m, outcome) ==
  /\ x \in Sent /\ pending' \in Seq(RequestRecord) /\ Rising(pending') /\ Sent' \subseteq Sent
  /\ \A y \in Sent' : x.id < y.id
  /\ \A y \in Sent : y = x \/ y \in Sent'
  /\ m \in MessageRecord /\ m.kind = "answer" /\ m.id = x.id /\ m.method = x.method /\ m.outcome = outcome
  /\ m.readyState = (IF x.method = "ready" THEN document.ready ELSE "none")
  /\ m.piece = (IF x.method = "read" THEN document.stream ELSE 0)
  /\ inbox' \in Seq(MessageRecord)
  /\ \A n \in Arrived' : \/ n \in Arrived \/ n = m
                         \/ x.method = "trace_end" /\ n.kind = "tracingComplete" /\ n.outcome = "ok"

\* The effect of a request, by field of the page.
LEMMA EffectIs ==
  ASSUME document \in PageRecord, NEW x \in RequestRecord, NEW effect \in BOOLEAN,
         x.method = "read" => document.stream <= Chunks,
         document' = IF effect THEN Effect(document, x.method) ELSE document
  PROVE  PageAfter(x, effect)
  <1> DEFINE n == document.stream + 1
  <1>1. n \in Nat /\ document.stream \in 1 .. Chunks + 1 /\ (x.method = "read" => n \in 1 .. Chunks + 1)
    BY CdpAssumption DEF PageRecord, CdpAssumption
  <1>2. CASE effect /\ x.method = "read"
    <2>1. document' = [document EXCEPT !.stream = n]
      BY <1>2 DEF Effect
    <2> HIDE DEF n
    <2>2. /\ document' \in PageRecord /\ document'.stream = n /\ document'.motion = document.motion
          /\ document'.hook = document.hook /\ document'.style = document.style
      BY <1>1, <1>2, <2>1 DEF PageRecord
    <2> QED  BY <1>2, <2>2 DEF PageAfter, n
  <1>3. CASE effect /\ x.method \in {"motion_on", "motion_off", "hook_on", "hook_off", "apply", "clear"}
    BY <1>3 DEF Effect, PageAfter, PageRecord
  <1>4. CASE effect /\ x.method = "goto"
    BY <1>4 DEF Effect, Load, PageAfter, PageRecord
  <1>5. CASE ~ effect \/ x.method \notin {"motion_on", "motion_off", "hook_on", "hook_off", "apply", "clear", "goto", "read"}
    <2>1. document' = document
      BY <1>5 DEF Effect
    <2> QED  BY <1>5, <2>1 DEF PageAfter
  <1> QED  BY <1>2, <1>3, <1>4, <1>5

\* What is observed when a request is served.
LEMMA ObservedIs ==
  ASSUME seen \in SeenRecord, NEW x \in RequestRecord, NEW outcome \in {"ok", "error", "lacking"},
         seen' = Observed(x.method, outcome)
  PROVE  SeenAfter(x, outcome)
  <1> DEFINE a == seen.arrived \/ (x.method = "ready" /\ outcome = "ok" /\ document.ready = "complete")
             v == seen.moving \/ (x.method \in {"capture", "print"} /\ ~ (document.style /\ document.motion))
             c == (seen.cleared \/ x.method = "clear") /\ x.method # "hook_on"
             k == IF x.method \in {"capture", "print"} /\ outcome = "ok" THEN seen.pictures + 1 ELSE seen.pictures
  <1>1. seen' = [seen EXCEPT !.arrived = a, !.moving = v, !.cleared = c, !.pictures = k]
    BY DEF Observed
  <1>2. a \in BOOLEAN /\ v \in BOOLEAN /\ c \in BOOLEAN
    OBVIOUS
  <1>3. k \in Nat
    BY DEF SeenRecord
  <1>4. /\ (seen.arrived => a) /\ (x.method = "ready" /\ outcome = "ok" /\ document.ready = "complete" => a)
        /\ (~ seen.moving /\ (x.method \in Pictures => document.style /\ document.motion) => ~ v)
        /\ (x.method = "clear" => c)
    BY DEF Pictures
  <1>5. x.method # "hook_on" /\ x.method # "clear" => c = seen.cleared
    <2>1. seen.cleared \in BOOLEAN
      BY DEF SeenRecord
    <2> QED  BY <2>1
  <1> HIDE DEF a, v, c, k
  <1>6. /\ seen' \in SeenRecord /\ seen'.asked = seen.asked /\ seen'.answered = seen.answered
        /\ seen'.arrived = a /\ seen'.moving = v /\ seen'.slipped = seen.slipped
        /\ seen'.cleared = c /\ seen'.pictures = k
    BY <1>1, <1>2, <1>3 DEF SeenRecord
  <1>7. seen'.pictures = IF x.method \in Pictures /\ outcome = "ok" THEN seen.pictures + 1 ELSE seen.pictures
    BY <1>6 DEF k, Pictures
  <1>8. /\ (seen.arrived => seen'.arrived)
        /\ (x.method = "ready" /\ outcome = "ok" /\ document.ready = "complete" => seen'.arrived)
        /\ (~ seen.moving /\ (x.method \in Pictures => document.style /\ document.motion) => ~ seen'.moving)
    BY <1>4, <1>6
  <1>9. IF x.method = "clear" THEN seen'.cleared ELSE x.method # "hook_on" => seen'.cleared = seen.cleared
    BY <1>4, <1>5, <1>6
  <1> QED  BY <1>6, <1>7, <1>8, <1>9 DEF SeenAfter

\* The answer to a request.
LEMMA AnswerIs ==
  ASSUME document \in PageRecord, NEW x \in RequestRecord, NEW outcome \in {"ok", "error", "lacking"}
  PROVE  LET m == Message("answer", x, outcome)
         IN  /\ m \in MessageRecord /\ m.kind = "answer" /\ m.id = x.id /\ m.method = x.method /\ m.outcome = outcome
             /\ m.readyState = (IF x.method = "ready" THEN document.ready ELSE "none")
             /\ m.piece = (IF x.method = "read" THEN document.stream ELSE 0)
  <1> DEFINE d == IF x.method = "ready" THEN document.ready ELSE "none"
             k == IF x.method = "read" THEN document.stream ELSE 0
             L == SessionLabels \cup {"none"}
  <1>1. d \in {"none", "loading", "complete"} /\ k \in Nat /\ x.id \in Nat /\ x.method \in L
    BY CdpAssumption DEF PageRecord, RequestRecord, CdpAssumption
  <1>2. Message("answer", x, outcome) =
          [kind |-> "answer", id |-> x.id, method |-> x.method, outcome |-> outcome, readyState |-> d, piece |-> k]
    BY DEF Message
  <1>3. MessageRecord =
          [kind : {"answer", "event", "no_json", "tracingComplete"}, id : Nat, method : L,
           outcome : {"ok", "error", "lacking"}, readyState : {"none", "loading", "complete"}, piece : Nat]
    BY DEF MessageRecord
  <1> HIDE DEF d, k, L
  <1>4. /\ Message("answer", x, outcome) \in MessageRecord
        /\ Message("answer", x, outcome).kind = "answer"
        /\ Message("answer", x, outcome).id = x.id /\ Message("answer", x, outcome).method = x.method
        /\ Message("answer", x, outcome).outcome = outcome
        /\ Message("answer", x, outcome).readyState = d /\ Message("answer", x, outcome).piece = k
    BY <1>1, <1>2, <1>3
  <1> QED  BY <1>4 DEF d, k

\* What a served request does, for the invariant.
ServedAs(x, m, outcome, effect) ==
  /\ open /\ UNCHANGED <<s, open, late, noise, loads>>
  /\ faults' \in 0 .. MaxFaults
  /\ outcome \in {"ok", "error", "lacking"} /\ effect \in BOOLEAN
  /\ outcome = "ok" => effect
  /\ outcome = "error" => ~ effect
  /\ outcome = "lacking" => x.method \in Inspected
  /\ outcome = "lacking" /\ x.method \notin {"apply", "clear"} => effect
  /\ PageAfter(x, effect) /\ SeenAfter(x, outcome) /\ Answers(x, m, outcome)

\* Serving takes the oldest request and answers it.
LEMMA ServeIs ==
  ASSUME CdpInd, Serve
  PROVE  \E x, m, outcome, effect : ServedAs(x, m, outcome, effect)
  <1> USE DEF CdpInd, SessionTypes
  <1> DEFINE x == Head(pending)
             S == {"ok", "error"} \cup (IF x.method \in Inspected THEN {"lacking"} ELSE {})
  <1>1. PICK outcome \in S, effect \in BOOLEAN :
          /\ outcome # "ok" => faults < MaxFaults
          /\ outcome = "ok" => effect
          /\ outcome = "error" => ~ effect
          /\ outcome = "lacking" /\ x.method \notin {"apply", "clear"} => effect
          /\ faults' = IF outcome = "ok" THEN faults ELSE faults + 1
          /\ document' = IF effect THEN Effect(document, x.method) ELSE document
          /\ seen' = Observed(x.method, outcome)
          /\ LET answer == Message("answer", x, outcome)
                 complete == Message("tracingComplete", Unasked, "ok")
             IN  IF x.method = "trace_end" /\ outcome = "ok"
                 THEN inbox' \in {inbox \o <<answer, complete>>, inbox \o <<complete, answer>>}
                 ELSE inbox' = Append(inbox, answer)
    BY DEF Serve
  <1>2. pending # <<>> /\ open /\ pending' = Tail(pending) /\ UNCHANGED <<s, open, late, noise, loads>>
    BY DEF Serve
  <1>3. /\ x \in Sent /\ pending' \in Seq(RequestRecord) /\ Rising(pending') /\ Sent' \subseteq Sent
        /\ \A y \in Sent' : x.id < y.id
        /\ \A y \in Sent : y = x \/ y \in Sent'
    BY <1>2, TailOf DEF Sent, InOrder
  <1>4. x \in RequestRecord
    BY <1>3, ElemsOf DEF Sent
  <1>5. outcome \in {"ok", "error", "lacking"} /\ (outcome = "lacking" => x.method \in Inspected)
    BY <1>1
  <1> HIDE DEF x, S
  <1>6. faults' \in 0 .. MaxFaults
    BY <1>1, CdpAssumption DEF CdpAssumption
  <1>7. PageAfter(x, effect)
    BY <1>1, <1>3, <1>4, EffectIs DEF Traces
  <1>8. SeenAfter(x, outcome)
    BY <1>1, <1>4, <1>5, ObservedIs
  <1> DEFINE m == Message("answer", x, outcome)
             c == Message("tracingComplete", Unasked, "ok")
  <1>9. /\ m \in MessageRecord /\ m.kind = "answer" /\ m.id = x.id /\ m.method = x.method /\ m.outcome = outcome
        /\ m.readyState = (IF x.method = "ready" THEN document.ready ELSE "none")
        /\ m.piece = (IF x.method = "read" THEN document.stream ELSE 0)
    BY <1>4, <1>5, AnswerIs
  <1>10. c \in MessageRecord /\ c.kind = "tracingComplete" /\ c.outcome = "ok"
    BY UnaskedIs
  <1>11. \/ inbox' = Append(inbox, m)
         \/ x.method = "trace_end" /\ inbox' \in {inbox \o <<m, c>>, inbox \o <<c, m>>}
    BY <1>1
  <1> HIDE DEF m, c
  <1>12. inbox' \in Seq(MessageRecord) /\ Arrived' \subseteq Arrived \cup {m, c}
         /\ (x.method # "trace_end" => Arrived' \subseteq Arrived \cup {m})
    <2>1. CASE inbox' = Append(inbox, m)
      BY <2>1, <1>9, AppendOf DEF Arrived
    <2>2. ASSUME x.method = "trace_end", inbox' = inbox \o <<m, c>>
          PROVE  inbox' \in Seq(MessageRecord) /\ Arrived' \subseteq Arrived \cup {m, c}
      <3>1. inbox' = Append(Append(inbox, m), c)
        BY <2>2, <1>9, <1>10, PairAppended
      <3> DEFINE q == Append(inbox, m)
      <3>2. q \in Seq(MessageRecord) /\ Elems(q) = Arrived \cup {m}
        BY <1>9, AppendOf DEF Arrived
      <3> HIDE DEF q
      <3>3. Append(q, c) \in Seq(MessageRecord) /\ Elems(Append(q, c)) = Elems(q) \cup {c}
        BY <1>10, <3>2, AppendOf
      <3> QED  BY <3>1, <3>2, <3>3 DEF Arrived, q
    <2>3. ASSUME x.method = "trace_end", inbox' = inbox \o <<c, m>>
          PROVE  inbox' \in Seq(MessageRecord) /\ Arrived' \subseteq Arrived \cup {m, c}
      <3>1. inbox' = Append(Append(inbox, c), m)
        BY <2>3, <1>9, <1>10, PairAppended
      <3> DEFINE q == Append(inbox, c)
      <3>2. q \in Seq(MessageRecord) /\ Elems(q) = Arrived \cup {c}
        BY <1>10, AppendOf DEF Arrived
      <3> HIDE DEF q
      <3>3. Append(q, m) \in Seq(MessageRecord) /\ Elems(Append(q, m)) = Elems(q) \cup {m}
        BY <1>9, <3>2, AppendOf
      <3> QED  BY <3>1, <3>2, <3>3 DEF Arrived, q
    <2> QED  BY <1>11, <2>1, <2>2, <2>3
  <1>13. Answers(x, m, outcome)
    BY <1>3, <1>9, <1>10, <1>12 DEF Answers
  <1>14. ServedAs(x, m, outcome, effect)
    BY <1>1, <1>2, <1>5, <1>6, <1>7, <1>8, <1>13 DEF ServedAs
  <1> QED  BY <1>14

\* A request that is served keeps the invariant, whatever its outcome: it is an old one, of a
\* call that was given up, or the one awaited, and then the last.
LEMMA ServeKeeps ==
  ASSUME CdpInd, Serve
  PROVE  CdpInd'
  <1>0. PICK x, m, outcome, effect : ServedAs(x, m, outcome, effect)
    BY ServeIs
  <1> USE DEF CdpInd
  <1>1. /\ open /\ UNCHANGED <<s, open, late, noise, loads>> /\ faults' \in 0 .. MaxFaults
        /\ outcome \in {"ok", "error", "lacking"} /\ effect \in BOOLEAN /\ (outcome = "ok" => effect)
    BY <1>0 DEF ServedAs
  <1>2. /\ x \in Sent /\ pending' \in Seq(RequestRecord) /\ Rising(pending') /\ Sent' \subseteq Sent
        /\ \A y \in Sent' : x.id < y.id
        /\ \A y \in Sent : y = x \/ y \in Sent'
    BY <1>0 DEF ServedAs, Answers
  <1>3. /\ m \in MessageRecord /\ m.kind = "answer" /\ m.id = x.id /\ m.method = x.method /\ m.outcome = outcome
        /\ m.readyState = (IF x.method = "ready" THEN document.ready ELSE "none")
        /\ m.piece = (IF x.method = "read" THEN document.stream ELSE 0)
        /\ inbox' \in Seq(MessageRecord)
        /\ \A n \in Arrived' : \/ n \in Arrived \/ n = m
                               \/ x.method = "trace_end" /\ n.kind = "tracingComplete" /\ n.outcome = "ok"
    BY <1>0 DEF ServedAs, Answers
  <1>4. PageAfter(x, effect) /\ SeenAfter(x, outcome)
    BY <1>0 DEF ServedAs
  <1>5. \A y \in Sent : y.id \in Nat /\ 0 < y.id /\ y.id < s.next_id /\ (y.id = s.awaited => y.method = s.at)
    <2>1. Sent \subseteq RequestRecord
      BY ElemsOf DEF SessionTypes, Sent
    <2> QED  BY <2>1 DEF RequestRecord, InOrder
  <1>6. s.awaited \in Nat /\ s.next_id \in Nat /\ (s.awaited # 0 => s.next_id = s.awaited + 1)
    BY DEF SessionTypes, SessionRecord, InOrder
  \* Only the answer to x can be the one awaited: another one would have left nothing.
  <1>7. ASSUME NEW n \in Arrived', Granted(n)'
        PROVE  n = m /\ outcome = "ok" /\ x.method = s.at /\ x.id = s.awaited /\ s.awaited # 0 /\ Sent' = {}
    <2>1. IsAnswer(n) /\ s.awaited # 0 /\ n.outcome = "ok" /\ n.kind = "answer" /\ n.id = s.awaited
      BY <1>1, <1>7 DEF Granted, IsAnswer
    <2>2. n = m
      BY <1>2, <1>3, <2>1, NothingLeft
    <2>3. \A y \in Sent' : FALSE
      BY <1>2, <1>3, <1>5, <1>6, <2>1, <2>2
    <2> QED  BY <1>2, <1>3, <1>5, <2>1, <2>2, <2>3
  <1>8. x.id = s.awaited => Sent' = {} /\ s.awaited # 0 /\ x.method = s.at
    <2>1. x.id = s.awaited => \A y \in Sent' : FALSE
      BY <1>2, <1>5, <1>6
    <2> QED  BY <1>2, <1>5, <2>1
  <1>11. SessionTypes' /\ OwnAnswers'
    BY <1>1, <1>2, <1>3, <1>4 DEF SessionTypes, OwnAnswers, PageAfter, SeenAfter
  <1>12. InOrder'
    BY <1>1, <1>2, <1>3, <1>5, <1>6 DEF InOrder
  <1>13. Labelled'
    BY <1>1, <1>2 DEF Labelled
  <1>14. SetUp'
    <2>1. \A n \in Arrived' : Granted(n)' /\ s.at = "motion_on" => document'.motion
      BY <1>1, <1>4, <1>7 DEF PageAfter
    <2>2. \A n \in Arrived' : Granted(n)' /\ s.at = "hook_on" => document'.hook
      BY <1>1, <1>4, <1>7 DEF PageAfter
    <2>3. \A n \in Arrived' : Granted(n)' /\ s.at = "apply" => document'.style
      BY <1>1, <1>4, <1>7 DEF PageAfter
    <2>4. s.at = "motion_on" => (document'.style => seen'.slipped) /\ ~ document'.hook /\ Only({"motion_on"})'
      BY <1>1, <1>2, <1>4 DEF PageAfter, SeenAfter, SetUp, Only
    <2>5. s.at = "motion_on" /\ s.awaited = 0 => Sent' = {}
      BY <1>2 DEF SetUp
    <2>6. s.at = "hook_on" => document'.motion /\ Only({"hook_on"})'
      BY <1>1, <1>2, <1>4 DEF PageAfter, SetUp, Only
    <2>7. s.at = "apply" => document'.motion /\ document'.hook /\ Only({"apply"})'
      BY <1>1, <1>2, <1>4 DEF PageAfter, SetUp, Only
    <2>8. s.at \in Prepared => document'.motion /\ document'.hook /\ document'.style /\ Only(Prepared)'
      BY <1>1, <1>2, <1>4 DEF PageAfter, SetUp, Only, Prepared
    <2> QED  BY <1>1, <2>1, <2>2, <2>3, <2>4, <2>5, <2>6, <2>7, <2>8 DEF SetUp
  <1>15. Still'
    <2>1. ~ seen'.moving
      BY <1>2, <1>4 DEF SeenAfter, Still
    <2>2. ASSUME NEW y \in Sent', y.method \in Pictures
          PROVE  /\ document'.motion /\ document'.hook /\ document'.style
                 /\ \A z \in Sent' : z.id < y.id => z.method \notin Cleanup
      <3>1. document.motion /\ document.hook /\ document.style /\ x.method \notin Cleanup
        BY <1>2, <2>2 DEF Still
      <3>2. \A z \in Sent' : z.id < y.id => z.method \notin Cleanup
        BY <1>2, <2>2 DEF Still
      <3> QED  BY <1>4, <3>1, <3>2 DEF PageAfter, Cleanup
    <2> QED  BY <2>1, <2>2 DEF Still
  <1>16. TakenBack'
    <2>1. \A n \in Arrived' : Granted(n)' /\ s.at = "clear" => (document'.style => seen'.slipped) /\ seen'.cleared
      BY <1>1, <1>4, <1>7 DEF PageAfter, SeenAfter
    <2>2. \A n \in Arrived' : Granted(n)' /\ s.at = "hook_off" => ~ document'.hook
      BY <1>1, <1>4, <1>7 DEF PageAfter
    <2>3. \A n \in Arrived' : Granted(n)' /\ s.at = "motion_off" => ~ document'.motion
      BY <1>1, <1>4, <1>7 DEF PageAfter
    <2>4. s.op \notin Suppressing => ~ document'.motion /\ ~ document'.hook /\ ~ document'.style
      <3>1. s.op \in Ops /\ Ops \subseteq {"evaluate", "navigate", "screenshot", "full_page", "pdf", "recording", "trace"}
        BY CdpAssumption DEF SessionTypes, SessionRecord, CdpAssumption
      <3>2. s.op \notin Suppressing => x.method \in {"eval"} \cup Traced
        BY <1>2, <3>1 DEF Labelled, LabelsOf, Suppressing
      <3> QED  BY <1>4, <3>2 DEF PageAfter, TakenBack, Traced
    <2>5. s.at = "clear" => None({"hook_off", "motion_off"})'
      BY <1>2 DEF TakenBack, None
    <2>6. s.at \in {"hook_off", "motion_off"} /\ ~ s.unclean =>
            (document'.style => seen'.slipped) /\ seen'.cleared /\ Only({"hook_off", "motion_off"})'
      BY <1>2, <1>4 DEF PageAfter, SeenAfter, TakenBack, Only
    <2>7. s.at = "motion_off" /\ ~ s.unclean /\ s.known => ~ document'.hook
      BY <1>2, <1>4 DEF PageAfter, TakenBack, Only
    <2>8. s.at = "motion_off" /\ ~ s.unclean => Only({"motion_off"})'
      BY <1>2 DEF TakenBack, Only
    <2>9. s.at = "done" /\ ~ s.unclean /\ s.op \in Suppressing =>
            /\ document'.style => seen'.slipped
            /\ document'.hook => seen'.cleared
            /\ Only({"motion_on"})'
            /\ ~ s.failed => ~ document'.motion /\ ~ document'.hook /\ Sent' = {}
      BY <1>2, <1>4 DEF PageAfter, SeenAfter, TakenBack, Only
    <2>10. /\ s.op \in Suppressing /\ ~ s.failed /\ s.at \notin {"motion_on", "hook_on"} => s.known
           /\ s.at \in {"apply", "hook_off"} \cup Prepared => s.known
      BY DEF TakenBack
    <2> QED  BY <1>1, <2>1, <2>2, <2>3, <2>4, <2>5, <2>6, <2>7, <2>8, <2>9, <2>10 DEF TakenBack
  <1>17. Counted'
    <2>1. s.frames \in Nat /\ seen.pictures \in Nat /\ seen'.pictures \in Nat /\ seen.pictures <= seen'.pictures
      BY <1>4 DEF SessionTypes, SessionRecord, SeenRecord, SeenAfter
    <2>2. \A n \in Arrived' : Granted(n)' /\ s.at \in Pictures => s.frames < seen'.pictures
      <3> SUFFICES ASSUME NEW n \in Arrived', Granted(n)', s.at \in Pictures  PROVE s.frames < seen'.pictures
        OBVIOUS
      <3>1. seen'.pictures = seen.pictures + 1
        BY <1>4, <1>7 DEF SeenAfter
      <3>2. s.op \in Single \cup {"recording"}
        <4>1. s.op \in Ops /\ Ops \subseteq {"evaluate", "navigate", "screenshot", "full_page", "pdf", "recording", "trace"}
          BY CdpAssumption DEF SessionTypes, SessionRecord, CdpAssumption
        <4> QED  BY <4>1 DEF Labelled, LabelsOf, Pictures, Setup, Cleanup, Traced, Single
      <3>3. s.frames <= seen.pictures
        BY <2>1, <3>2 DEF Counted
      <3> QED  BY <2>1, <3>1, <3>3
    <2>3. s.op = "recording" =>
            /\ s.frames <= seen'.pictures /\ s.frames <= expected_frames
            /\ s.at \in Setup \cup Pictures => s.frames < expected_frames
      BY <2>1 DEF Counted
    <2>4. s.op \in Single /\ (s.at \in Setup \cup {"metrics"} \/ (s.at \in Pictures /\ s.awaited = 0)) =>
            s.frames = 0 /\ seen'.pictures = 0 /\ None(Pictures)'
      BY <1>2, <1>4 DEF Counted, None, SeenAfter
    <2>5. s.op \in Single /\ s.at \in Pictures =>
            /\ s.frames = 0 /\ seen'.pictures <= 1
            /\ \A y \in Sent' : y.method \in Pictures => y.id = s.awaited /\ seen'.pictures = 0
      <3>1. CASE x.method \in Pictures
        BY <1>2, <1>4, <1>8, <2>1, <3>1 DEF Counted, SeenAfter
      <3>2. CASE x.method \notin Pictures
        BY <1>2, <1>4, <3>2 DEF Counted, SeenAfter
      <3> QED  BY <3>1, <3>2
    <2>6. s.op \in Single /\ s.at \in Cleanup \cup {"done"} /\ ~ s.failed =>
            s.frames = 1 /\ seen'.pictures = 1 /\ None(Pictures)'
      BY <1>2, <1>4 DEF Counted, None, SeenAfter
    <2> QED  BY <1>1, <2>2, <2>3, <2>4, <2>5, <2>6 DEF Counted
  <1>18. Reached'
    <2>1. seen.arrived => seen'.arrived
      BY <1>4 DEF SeenAfter
    <2>2. m.method = "ready" /\ m.outcome = "ok" /\ m.readyState = "complete" => seen'.arrived
      BY <1>3, <1>4 DEF SeenAfter
    <2>3. \A n \in Arrived' : n.kind = "answer" => n \in Arrived \/ n = m
      BY <1>3
    <2> QED  BY <1>1, <2>1, <2>2, <2>3 DEF Reached
  <1>19. Traces'
    <2>1. Len(s.bytes) \in Nat /\ Chunks \in Nat \ {0} /\ document.stream \in Nat
      BY CdpAssumption DEF SessionTypes, SessionRecord, PageRecord, CdpAssumption
    <2>2. document'.stream = document.stream \/ (x.method = "read" /\ document'.stream = document.stream + 1)
      BY <1>4 DEF PageAfter
    <2>3. x.method \in Traced => s.op = "trace"
      BY <1>2 DEF Labelled, LabelsOf, Setup, Cleanup, Traced
    <2>4. s.op = "trace" => Sent' = {}
      <3>1. s.op = "trace" => \A y \in Sent' : FALSE
        BY <1>2, <1>5 DEF Traces
      <3> QED  BY <3>1
    <2>5. s.op = "trace" /\ s.at # "done" => x.method = s.at /\ x.id = s.awaited /\ s.awaited # 0
      BY <1>2, <1>5, <1>8 DEF Traces
    <2>6. \A y \in Sent' : y.method = "read" => document'.stream <= Chunks
      <3>1. \A y \in Sent' : y.method = "read" => s.op = "trace"
        BY <1>2 DEF Labelled, LabelsOf, Setup, Cleanup, Traced
      <3> QED  BY <2>4, <3>1
    <2>7. s.op = "trace" /\ s.at \in {"trace_start", "trace_end"} => s.bytes = <<>> /\ document'.stream = 1
      BY <2>2, <2>5 DEF Traces
    <2>8. s.op = "trace" /\ (s.at = "trace_start" \/ (s.at = "trace_end" /\ s.awaited = 0)) =>
            \A n \in Arrived' : n.kind = "tracingComplete" => n.outcome # "ok"
      BY <1>3, <2>5 DEF Traces
    <2>9. s.op = "trace" /\ s.at = "read" => Len(s.bytes) < Chunks /\ s.awaited # 0
      BY <2>5 DEF Traces
    <2>10. ASSUME s.op = "trace", NEW n \in Arrived', Granted(n)', s.at = "read"
           PROVE  n.piece = Len(s.bytes) + 1 /\ document'.stream = n.piece + 1
      <3>1. n = m /\ x.method = "read" /\ effect
        BY <1>1, <1>7, <2>10
      <3>2. document.stream = Len(s.bytes) + 1
        BY <1>2, <2>10 DEF Traces
      <3>3. m.piece = document.stream /\ document'.stream = document.stream + 1
        BY <1>3, <1>4, <3>1 DEF PageAfter
      <3> QED  BY <3>1, <3>2, <3>3
    <2>11. s.bytes = [i \in 1 .. Len(s.bytes) |-> i]
      BY DEF Traces
    <2>12. s.op = "trace" /\ (s.at = "io_close" \/ (s.at = "done" /\ ~ s.failed)) => Len(s.bytes) = Chunks
      BY DEF Traces
    <2> QED  BY <1>1, <2>4, <2>6, <2>7, <2>8, <2>9, <2>10, <2>11, <2>12 DEF Traces
  <1> QED  BY <1>11, <1>12, <1>13, <1>14, <1>15, <1>16, <1>17, <1>18, <1>19

-----------------------------------------------------------------------------
(* The session's invariant.                                                *)

\* A session that has just been opened.
LEMMA SessionStarts ==
  ASSUME SessionInit
  PROVE  CdpInd
  <1> USE DEF SessionInit
  <1>0. PICK job \in Ops :
       s = [op |-> job, awaited |-> 0, next_id |-> 1, known |-> FALSE, frames |-> 0, polls |-> 0, bytes |-> <<>>,
            failed |-> FALSE, unclean |-> FALSE,
            at |-> CASE job = "evaluate" -> "eval" [] job = "trace" -> "trace_start" [] OTHER -> "motion_on"]
    OBVIOUS
  <1>1. job \in {"evaluate", "navigate", "screenshot", "full_page", "pdf", "recording", "trace"}
    BY CdpAssumption DEF CdpAssumption
  <1> DEFINE first == CASE job = "evaluate" -> "eval" [] job = "trace" -> "trace_start" [] OTHER -> "motion_on"
  <1>2. /\ job = "evaluate" => first = "eval"
        /\ job = "trace" => first = "trace_start"
        /\ job \in Suppressing => first = "motion_on"
    BY <1>1 DEF Suppressing
  <1>3. /\ s.op = job /\ s.awaited = 0 /\ s.next_id = 1 /\ ~ s.known /\ s.frames = 0 /\ s.bytes = <<>>
        /\ ~ s.failed /\ ~ s.unclean /\ s.at = first
    BY <1>0
  <1>4. job \in {"evaluate", "trace"} \cup Suppressing
    BY <1>1 DEF Suppressing
  <1>5. first \in SessionLabels
    BY <1>2, <1>4 DEF SessionLabels, Inspected, Setup, Traced
  <1> HIDE DEF first
  <1>6. Sent = {} /\ Arrived = {}
    BY DEF Sent, Arrived, Elems
  <1>7. s \in SessionRecord
    <2>1. s = [op |-> job, awaited |-> 0, next_id |-> 1, known |-> FALSE, frames |-> 0, polls |-> 0, bytes |-> <<>>,
               failed |-> FALSE, unclean |-> FALSE, at |-> first]
      BY <1>0 DEF first
    <2>2. <<>> \in Seq(1 .. Chunks)
      OBVIOUS
    <2> QED  BY <2>1, <2>2, <1>5 DEF SessionRecord
  <1>8. document \in PageRecord
    BY CdpAssumption DEF PageRecord, CdpAssumption
  <1>9. SessionTypes
    <2>1. pending \in Seq(RequestRecord) /\ inbox \in Seq(MessageRecord)
      OBVIOUS
    <2>2. seen \in SeenRecord
      BY DEF SeenRecord
    <2>3. faults \in 0 .. MaxFaults /\ noise \in 0 .. MaxNoise /\ loads \in 0 .. MaxLoads
      BY CdpAssumption DEF CdpAssumption
    <2> QED  BY <1>7, <1>8, <2>1, <2>2, <2>3 DEF SessionTypes
  <1>10. InOrder /\ OwnAnswers
    <2>1. Rising(pending)
      BY DEF Rising
    <2> QED  BY <1>3, <1>6, <2>1 DEF InOrder, OwnAnswers
  <1>11. Labelled
    BY <1>2, <1>3, <1>4, <1>6 DEF Labelled, LabelsOf, Setup, Traced, Suppressing
  <1>12. SetUp /\ Still
    BY <1>2, <1>3, <1>4, <1>6 DEF SetUp, Still, Only, Prepared
  <1>13. TakenBack
    BY <1>2, <1>3, <1>4, <1>6 DEF TakenBack, Prepared
  <1>14. Counted
    BY <1>2, <1>3, <1>4, <1>6, CdpAssumption
       DEF Counted, None, Pictures, Cleanup, Single, Suppressing, CdpAssumption
  <1>15. Reached
    BY <1>2, <1>3, <1>4, <1>6 DEF Reached, Cleanup
  <1>16. Traces
    <2>1. s.bytes = [i \in 1 .. Len(s.bytes) |-> i]
      BY <1>3
    <2> QED  BY <2>1, <1>2, <1>3, <1>4, <1>6 DEF Traces
  <1> QED  BY <1>9, <1>10, <1>11, <1>12, <1>13, <1>14, <1>15, <1>16 DEF CdpInd

\* Every step keeps the invariant.
LEMMA SessionStays ==
  ASSUME CdpInd, [SessionNext]_session_vars
  PROVE  CdpInd'
  <1>1. CASE Session
    BY <1>1, SendKeeps, ReadKeeps DEF Session
  <1>2. CASE Serve
    BY <1>2, ServeKeeps
  <1>3. CASE Speak
    BY <1>3, SpeakKeeps
  <1>4. CASE Close
    BY <1>4, CloseKeeps
  <1>5. CASE LoadsDocument
    BY <1>5, LoadsKeeps
  <1>6. CASE Loaded \/ Deadline \/ UNCHANGED session_vars
    BY <1>6, QuietKeeps
  <1> QED  BY <1>1, <1>2, <1>3, <1>4, <1>5, <1>6 DEF SessionNext

\* The invariant gives the three properties.
LEMMA SessionHolds ==
  ASSUME CdpInd
  PROVE  SessionInv /\ PageRestored /\ ResultsTrue
  <1> USE DEF CdpInd
  <1>1. SessionInv
    <2>1. SessionTypeOK
      BY CdpAssumption DEF SessionTypes, SessionTypeOK, SessionRecord, RequestRecord, PageRecord, CdpAssumption
    <2> QED  BY <2>1 DEF SessionInv
  <1>2. PageRestored
    <2>1. s.op \in Suppressing \/ s.op \notin Suppressing
      OBVIOUS
    <2> QED  BY <2>1 DEF PageRestored, Reported, TakenBack
  <1>3. CapturesStill
    <2>1. s.op \in {"screenshot", "full_page", "pdf"} /\ s.at = "done" /\ ~ s.failed => s.frames = 1 /\ seen.pictures = 1
      BY DEF Counted, Single
    <2> QED  BY <2>1 DEF CapturesStill, Reported, Still, Counted
  <1>4. NavigationTrue
    BY DEF NavigationTrue, Reported, Reached
  <1>5. TraceWhole
    BY DEF TraceWhole, Reported, Traces
  <1> QED  BY <1>1, <1>2, <1>3, <1>4, <1>5 DEF ResultsTrue

\* The invariant holds of every session.
LEMMA SessionIsInductive == SessionSpec => []CdpInd
  <1>1. SessionInit => CdpInd
    BY SessionStarts
  <1>2. CdpInd /\ [SessionNext]_session_vars => CdpInd'
    BY SessionStays
  <1> QED  BY <1>1, <1>2, PTL DEF SessionSpec

\* However many events and late answers lie between, CdpClient::call takes only the answer to
\* its own request, and a trace that is read to its last piece never reads past it.
THEOREM AnswersStayOwn == SessionSpec => []SessionInv
  <1>1. CdpInd => SessionInv
    BY SessionHolds
  <1> QED  BY <1>1, SessionIsInductive, PTL

\* with_animation_suppression restores the page however the operation in it ends: the media
\* override, the script for new documents and the style are taken back, or the cleanup is
\* reported to have failed; only a document that the page loads by itself in the middle of
\* clear_animation_suppression_state keeps the style.
THEOREM PageIsRestored == SessionSpec => []PageRestored
  <1>1. CdpInd => PageRestored
    BY SessionHolds
  <1> QED  BY <1>1, SessionIsInductive, PTL

\* Captures and prints are taken with animations suppressed and those that are reported were
\* taken; navigate reports a page only after it said that it is complete; and
\* end_tracing_and_collect returns every piece of the trace, once and in order.
THEOREM ResultsStayTrue == SessionSpec => []ResultsTrue
  <1>1. CdpInd => ResultsTrue
    BY SessionHolds
  <1> QED  BY <1>1, SessionIsInductive, PTL

=============================================================================
