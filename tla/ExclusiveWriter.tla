--------------------------- MODULE ExclusiveWriter ---------------------------
(***************************************************************************)
(* What the lease layer promises about writing to an instance, without     *)
(* tables, statements or text timestamps.  Clients ask for the grant of an *)
(* instance, to give it up, or to hand it over.  At most one holder has    *)
(* it, and a holder loses it only because somebody asked for that holder's *)
(* release or hand-over, or because the clock has reached the second in    *)
(* which the grant expires.  Asking for a grant never takes a running one  *)
(* away from another holder.                                               *)
(***************************************************************************)
EXTENDS Naturals

CONSTANTS Instances, Holders, Fractions, MaxTtl, Processes

VARIABLES
  clock,
  grants,     \* the running grants
  asked       \* per process: what it asks for at the moment (at most one thing)

Grant == [resource : Instances, holder : Holders,
          expires_at : [sec : 0 .. clock.sec + MaxTtl, frac : 0 .. Fractions - 1]]

Wish == [kind : {"acquire", "release", "transfer"},
         resource : Instances, from : Holders, to : Holders]

Lapsed == {g \in grants : g.expires_at.sec <= clock.sec}

\* grants without the lapsed ones in S, and with g in place of g.resource's.
Regrant(S, g) == {x \in grants \ S : x.resource # g.resource} \cup {g}

\* A process asks for something, or changes its mind.
Ask(p, S) ==
  /\ asked' \in [Processes -> SUBSET Wish]
  /\ \A q \in Processes \ {p} : asked'[q] = asked[q]
  /\ grants' = grants \ S

Fulfil(p) == asked' = [asked EXCEPT ![p] = {}]

\* No other holder has the grant: it is given or renewed.
Give(p, S, w, g) ==
  /\ w.kind = "acquire" /\ w.resource = g.resource /\ w.to = g.holder
  /\ \A x \in grants \ S : x.resource = g.resource => x.holder = g.holder
  /\ grants' = Regrant(S, g)
  /\ Fulfil(p)

\* The holder the wish names has the grant: it becomes g.
HandOver(p, S, w, g) ==
  /\ w.kind = "transfer" /\ w.resource = g.resource /\ w.to = g.holder
  /\ \E x \in grants \ S : x.resource = w.resource /\ x.holder = w.from
  /\ grants' = Regrant(S, g)
  /\ Fulfil(p)

GiveUp(p, w) ==
  /\ w.kind = "release"
  /\ grants' = {x \in grants : ~(x.resource = w.resource /\ x.holder = w.from)}
  /\ Fulfil(p)

Tick ==
  /\ \/ clock' = [clock EXCEPT !.frac = @ + 1]
     \/ clock' = [sec |-> clock.sec + 1, frac |-> 0]
  /\ UNCHANGED <<grants, asked>>

Init ==
  /\ clock = [sec |-> 0, frac |-> 0]
  /\ grants = {}
  /\ asked = [p \in Processes |-> {}]

Act(p) ==
  /\ UNCHANGED clock
  /\ \/ \E S \in SUBSET Lapsed : Ask(p, S)
     \/ \E w \in asked[p] : GiveUp(p, w)
     \/ \E S \in SUBSET Lapsed, w \in asked[p], g \in Grant :
          Give(p, S, w, g) \/ HandOver(p, S, w, g)

Next == Tick \/ \E p \in Processes : Act(p)

Spec == Init /\ [][Next]_<<clock, grants, asked>>
=============================================================================
