----------------------- MODULE TerminalGuidanceProofs -----------------------
(***************************************************************************)
(* Proofs about TerminalGuidance, for every bound.  A tick is a tree of    *)
(* steps that end in Flies or in a warning.  Sound says of such a step     *)
(* that it keeps the types, the owner and the equivalence of a captured    *)
(* Final with a delivery; one lemma for each operator of the tree shows    *)
(* it, and the ticks and the other actions follow.                         *)
(***************************************************************************)
EXTENDS TerminalGuidance, TLAPS

IInv == TerminalTypeOK /\ OneOwner /\ DeliveredToFinal

\* What a step from the terminal executive t leaves.
Sound(t) ==
  /\ route' \in Routes /\ taem' \in Taems /\ asked' \in Requests
  /\ acquired' \in BOOLEAN /\ phase' \in Phases /\ final' \in BOOLEAN
  /\ taem'.owned = t.owned
  /\ final' <=> taem'.complete

\* The bounds are numbers.
LEMMA BoundsAreNumbers == /\ MaxUt \in Nat /\ AdmissionAge \in Nat
                          /\ RouteAge \in Nat /\ MaxModel \in Nat \ {0}
                          /\ Transition \in Nat \ {0}
  BY TerminalAssumption

\* One update of the terminal executive keeps its type and its owner, and
\* completes nothing that is not ready.
LEMMA Updated ==
  ASSUME NEW t \in Taems, NEW s \in BOOLEAN, NEW i \in BOOLEAN,
         NEW y \in BOOLEAN, NEW f \in BOOLEAN
  PROVE  LET u == TaemUpdated(t, s, i, y, f) IN
         /\ u \in Taems /\ u.owned = t.owned
         /\ t.complete => u.complete
         /\ u.complete => t.complete \/ y
  BY DEF TaemUpdated, Taems

\* So does the synchronization of every tick, which takes Final's word.
LEMMA Synced ==
  ASSUME NEW t \in Taems, NEW r \in Routes, NEW l \in BOOLEAN,
         NEW f \in BOOLEAN, final \in BOOLEAN, law \in BOOLEAN,
         finalTest \in BOOLEAN, final <=> t.complete
  PROVE  LET u == TaemSynced(t, r, l, f) IN
         /\ u \in Taems /\ u.owned = t.owned
         /\ final <=> u.complete
<1>1. Selected(r, l) \in BOOLEAN
  BY DEF Selected, Routes
<1>2. (finalTest \/ (Selected(r, l) /\ r.exit)) \in BOOLEAN
  BY <1>1 DEF Routes
<1> DEFINE i == finalTest \/ (Selected(r, l) /\ r.exit)
           v == TaemUpdated(t, Selected(r, l), i, final, f)
<1>3. TaemSynced(t, r, l, f) = v
  BY DEF TaemSynced
<1>4. i \in BOOLEAN
  BY <1>2
<1> HIDE DEF i
<1>5. /\ v \in Taems /\ v.owned = t.owned
      /\ t.complete => v.complete
      /\ v.complete => t.complete \/ final
  BY <1>1, <1>4, Updated
<1>6. QED BY <1>3, <1>5

\* What becomes of a route is a route.
LEMMA RouteTypes ==
  ASSUME NEW r \in Routes
  PROVE  /\ Direct(r) \in Routes /\ Released(r) \in Routes
         /\ Invalidated(r) \in Routes /\ Dropped(r) \in Routes
         /\ Exited(r) \in Routes
  BY DEF Direct, Released, Invalidated, Dropped, Exited, Routes

LEMMA NewRoutes ==
  /\ NoRoute \in Routes
  /\ \A r, m : m \in Models => Adopted(r, m) \in Routes
  /\ \A r : model \in Models => BestEffort(r) \in Routes
  /\ \A b \in BOOLEAN : [NoRoute EXCEPT !.best = b] \in Routes
<1> USE BoundsAreNumbers
<1>1. QED BY DEF NoRoute, Adopted, BestEffort, Routes, Models

\* A command and a warning are sound when Final agrees with the executive.
LEMMA WarnedSound ==
  ASSUME NEW r \in Routes, NEW t \in Taems, NEW a \in Requests,
         final' \in BOOLEAN, final' <=> t.complete, Warned(r, t, a)
  PROVE  Sound(t)
<1>1. PICK p \in {"other", "taem", "entry"} : Flies(Dropped(r), t, a, FALSE, p)
  BY DEF Warned
<1>2. QED BY <1>1, RouteTypes DEF Flies, Sound, Phases

LEMMA FliesOrWarnsSound ==
  ASSUME NEW r \in Routes, NEW t \in Taems, NEW a \in Requests,
         NEW q \in BOOLEAN, NEW p \in Phases,
         final' \in BOOLEAN, final' <=> t.complete, FliesOrWarns(r, t, a, q, p)
  PROVE  Sound(t)
  BY WarnedSound DEF FliesOrWarns, Flies, Sound

\* The types that a tick leaves to the tests of its branches.
Quiet == /\ final \in BOOLEAN /\ law \in BOOLEAN /\ finalTest \in BOOLEAN
         /\ line' \in BOOLEAN

LEMMA FinalStepSound ==
  ASSUME NEW r \in Routes, NEW t \in Taems, NEW a \in Requests,
         NEW q \in BOOLEAN, Quiet, final <=> t.complete, FinalStep(r, t, a, q)
  PROVE  Sound(t)
<1> DEFINE s == TaemSynced(t, r, line', TRUE)
           d == TaemUpdated(s, Selected(r, line'), TRUE, TRUE, TRUE)
<1>0. "taem" \in Phases /\ "other" \in Phases
  BY DEF Phases
<1>1. s \in Taems /\ s.owned = t.owned /\ (final <=> s.complete)
  BY Synced DEF Quiet
<1>2. Selected(r, line') \in BOOLEAN
  BY DEF Selected, Routes, Quiet
<1>3. d \in Taems /\ d.owned = t.owned
  BY <1>1, <1>2, Updated
<1>4. CASE UNCHANGED final /\ \E p \in Phases : FliesOrWarns(r, t, a, q, p)
  BY <1>4, FliesOrWarnsSound DEF Quiet
<1>5. CASE UNCHANGED final /\ Flies(r, s, a, q, "taem")
  BY <1>5, <1>0, <1>1 DEF Flies, Sound, Quiet
<1>6. CASE d.complete /\ final' = TRUE /\ Flies(r, d, a, q, "other")
  BY <1>6, <1>0, <1>3 DEF Flies, Sound
<1>7. QED BY <1>0, <1>4, <1>5, <1>6 DEF FinalStep

LEMMA DeliverSound ==
  ASSUME NEW r \in Routes, NEW t \in Taems, NEW a \in Requests,
         NEW q \in BOOLEAN, DeliverLowEnergy(r, t, a, q)
  PROVE  Sound(t)
<1>1. TaemDelivered(t) \in Taems /\ TaemDelivered(t).owned = t.owned
      /\ TaemDelivered(t).complete = TRUE
  BY DEF TaemDelivered, Taems
<1>2. final' = TRUE /\ FliesOrWarns(Exited(r), TaemDelivered(t), a, q, "other")
  BY DEF DeliverLowEnergy
<1>3. Exited(r) \in Routes /\ "other" \in Phases
  BY RouteTypes DEF Phases
<1>4. Sound(TaemDelivered(t))
  BY <1>1, <1>2, <1>3, FliesOrWarnsSound
<1>5. QED BY <1>1, <1>4 DEF Sound

LEMMA LawSound ==
  ASSUME NEW r \in Routes, NEW t \in Taems, NEW a \in Requests,
         NEW q \in BOOLEAN, final \in BOOLEAN, law \in BOOLEAN,
         finalTest \in BOOLEAN, final <=> t.complete, LawStep(r, t, a, q)
  PROVE  Sound(t)
<1>1. line' \in BOOLEAN
  BY DEF LawStep
<1>2. PICK f \in BOOLEAN :
        LET s == TaemSynced(t, r, line', f) IN
        \/ UNCHANGED final /\ Flies(r, s, a, q, "taem")
        \/ DeliverLowEnergy(r, s, a, q)
        \/ FinalStep(Exited(r), TaemSynced(s, Exited(r), line', TRUE), a, q)
  BY Zenon DEF LawStep
<1>3. PICK l \in BOOLEAN : l = line'
  BY <1>1
<1>4. Exited(r) \in Routes /\ "taem" \in Phases
  BY RouteTypes DEF Phases
<1>5. PICK s \in Taems : /\ s = TaemSynced(t, r, l, f)
                         /\ s.owned = t.owned /\ (final <=> s.complete)
  BY Synced
<1>6. PICK u \in Taems : /\ u = TaemSynced(s, Exited(r), l, TRUE)
                         /\ u.owned = s.owned /\ (final <=> u.complete)
  BY <1>4, <1>5, Synced
<1>7. CASE UNCHANGED final /\ Flies(r, s, a, q, "taem")
  BY <1>4, <1>5, <1>7 DEF Flies, Sound
<1>8. CASE DeliverLowEnergy(r, s, a, q)
  BY <1>5, <1>8, DeliverSound DEF Sound
<1>9. CASE FinalStep(Exited(r), u, a, q)
  BY <1>1, <1>4, <1>5, <1>6, <1>9, FinalStepSound DEF Sound, Quiet
<1>10. QED BY <1>2, <1>3, <1>5, <1>6, <1>7, <1>8, <1>9

LEMMA PathSound ==
  ASSUME NEW r \in Routes, NEW t \in Taems, NEW a \in Requests,
         NEW q \in BOOLEAN, Quiet, ut' \in Times, final <=> t.complete,
         \/ DirectStep(r, t, a) \/ RouteStep(r, t, a, q)
         \/ AcquisitionStep(r, t, a)
  PROVE  Sound(t)
<1>0. "taem" \in Phases /\ ut' \in Requests /\ FALSE \in BOOLEAN
  BY DEF Phases, Requests
<1>1. /\ Direct(r) \in Routes /\ Released(r) \in Routes
      /\ Exited(r) \in Routes /\ Exited(Direct(r)) \in Routes
  BY RouteTypes
<1>2. ASSUME NEW n \in Routes, NEW b \in Requests, NEW c \in BOOLEAN,
             UNCHANGED final, Flies(n, t, b, c, "taem")
      PROVE  Sound(t)
  BY <1>0, <1>2 DEF Flies, Sound, Quiet
<1>3. CASE DirectStep(r, t, a)
  BY <1>0, <1>1, <1>2, <1>3, FinalStepSound DEF DirectStep
<1>4. CASE RouteStep(r, t, a, q)
  <2>1. CASE \E b \in {a} \cup (IF ~r.best /\ a = Nobody THEN {ut'} ELSE {}) :
               UNCHANGED final /\ Flies(r, t, b, q, "taem")
    BY <2>1, <1>0, <1>2
  <2>2. CASE \E c \in BOOLEAN :
               UNCHANGED final /\ Flies(Released(r), t, ut', c, "taem")
    BY <2>2, <1>0, <1>1, <1>2
  <2>3. CASE FinalStep(Exited(r), t, a, q)
    BY <2>3, <1>1, FinalStepSound
  <2>4. QED BY <1>4, <2>1, <2>2, <2>3 DEF RouteStep
<1>5. CASE AcquisitionStep(r, t, a)
  BY <1>2, <1>5 DEF AcquisitionStep
<1>6. QED BY <1>3, <1>4, <1>5

LEMMA NativeSound ==
  ASSUME NEW r \in Routes, NEW t \in Taems, NEW a \in Requests,
         NEW q \in BOOLEAN, NEW p, final \in BOOLEAN, law \in BOOLEAN,
         finalTest \in BOOLEAN, line \in BOOLEAN, model \in Models,
         ut' \in Times, final <=> t.complete, NativeStep(r, t, a, q, p)
  PROVE  Sound(t) /\ line' \in BOOLEAN
<1>0. Nobody \in Requests /\ ut' \in Requests
  BY DEF Requests
<1>1. BestEffort(r) \in Routes
  BY NewRoutes
<1>2. PICK b \in {a} \cup (IF ~r.committed /\ ~law /\ a = Nobody
                          THEN {ut'} ELSE {}) :
        \/ UNCHANGED <<final, line>> /\ Warned(r, t, b)
        \/ UNCHANGED line /\ DeliverLowEnergy(r, t, a, q)
        \/ LawStep(r, t, b, q)
        \/ UNCHANGED line /\ PathStep(r, t, b, q)
        \/ UNCHANGED line /\ PathStep(BestEffort(r), t, Nobody, FALSE)
        \/ UNCHANGED line /\ DirectStep(r, t, b)
  BY Zenon DEF NativeStep
<1>3. b \in Requests
  BY <1>0, <1>2
<1>4. CASE UNCHANGED <<final, line>> /\ Warned(r, t, b)
  BY <1>3, <1>4, WarnedSound
<1>5. CASE UNCHANGED line /\ DeliverLowEnergy(r, t, a, q)
  BY <1>5, DeliverSound
<1>6. CASE LawStep(r, t, b, q)
  <2>1. line' \in BOOLEAN
    BY <1>6 DEF LawStep
  <2>2. QED BY <1>3, <1>6, <2>1, LawSound
<1>7. CASE UNCHANGED line /\ PathStep(r, t, b, q)
  BY <1>3, <1>7, PathSound DEF PathStep, Quiet
<1>8. CASE UNCHANGED line /\ PathStep(BestEffort(r), t, Nobody, FALSE)
  <2>1. \/ DirectStep(BestEffort(r), t, Nobody)
        \/ RouteStep(BestEffort(r), t, Nobody, FALSE)
        \/ AcquisitionStep(BestEffort(r), t, Nobody)
    BY <1>8 DEF PathStep
  <2>2. Quiet
    BY <1>8 DEF Quiet
  <2>3. QED BY <1>0, <1>1, <1>8, <2>1, <2>2, PathSound
<1>9. CASE UNCHANGED line /\ DirectStep(r, t, b)
  BY <1>3, <1>9, PathSound DEF Quiet
<1>10. QED BY <1>2, <1>4, <1>5, <1>6, <1>7, <1>8, <1>9

\* A handoff makes MM305 the owner, by a qualified answer or by a law.
LEMMA AdmissionTypes ==
  ASSUME adm \in Answers, admAsked \in Requests, ut' \in Times,
         model \in Models, NEW w \in Admissions
  PROVE  /\ w.adm \in Answers /\ w.asked \in Requests
         /\ w.ok => w.adm.found /\ w.adm.ut = ut' /\ w.adm.model = model
<1>0. Nobody \in Requests /\ ut' \in Requests
  BY DEF Requests
<1>1. CASE adm.found /\ adm.model = model /\ adm.ut # ut'
  <2>1. PICK x \in {Refused, Found(ut', model)} :
          w = [ok |-> x.found, adm |-> x, asked |-> Nobody]
    BY <1>1 DEF Admissions
  <2>2. x \in Answers
    <3>1. NoAnswer \in Answers
      BY BoundsAreNumbers DEF NoAnswer, Answers, Times, Models
    <3>2. Refused \in Answers
      BY <3>1 DEF Refused, Answers
    <3>3. Found(ut', model) \in Answers
      BY DEF Found, Answers
    <3>4. QED BY <3>2, <3>3
  <2>3. x.found => x.ut = ut' /\ x.model = model
    BY DEF Refused, NoAnswer, Found
  <2>4. QED BY <1>0, <2>1, <2>2, <2>3
<1>2. CASE ~(adm.found /\ adm.model = model /\ adm.ut # ut')
  <2>1. PICK y \in AdmissionAsked :
          w = [ok |-> AdmissionFresh, adm |-> adm, asked |-> y]
    BY <1>2 DEF Admissions
  <2>2. y \in Requests
    BY <1>0 DEF AdmissionAsked
  <2>3. AdmissionFresh => adm.found /\ adm.ut = ut' /\ adm.model = model
    BY <1>2 DEF AdmissionFresh
  <2>4. QED BY <2>1, <2>2, <2>3
<1>3. QED BY <1>1, <1>2

LEMMA EntryTypes ==
  ASSUME NEW e \in Entries
  PROVE  /\ EntryUpdated(e) \subseteq Entries
         /\ \A x \in EntryUpdated(e) : x.complete = e.complete
         /\ EntryHandedOver \in Entries /\ EntryHandedOver.complete
         /\ EntryReset \in Entries /\ ~EntryReset.complete
<1>1. \A x \in EntryUpdated(e) : x \in Entries /\ x.complete = e.complete
  <2> SUFFICES ASSUME NEW x \in EntryUpdated(e)
               PROVE  x \in Entries /\ x.complete = e.complete
    OBVIOUS
  <2>1. CASE e.complete \/ e.phase = Transition
    BY <2>1 DEF EntryUpdated
  <2>2. CASE ~(e.complete \/ e.phase = Transition)
    <3>1. PICK n \in IF e.phase = 0 THEN 1 .. Transition ELSE {e.phase, e.phase + 1} :
            x = [e EXCEPT !.phase = n]
      BY <2>2 DEF EntryUpdated
    <3>2. e.phase \in 0 .. Transition
      BY DEF Entries
    <3>3. n \in 0 .. Transition
      BY <2>2, <3>1, <3>2, BoundsAreNumbers
    <3>4. QED BY <3>1, <3>3 DEF Entries
  <2>3. QED BY <2>1, <2>2
<1>2. 0 \in 0 .. Transition /\ Transition \in 0 .. Transition
  BY BoundsAreNumbers
<1>3. QED BY <1>1, <1>2 DEF EntryHandedOver, EntryReset, Entries

LEMMA TaemTypes ==
  /\ TaemReset \in Taems /\ ~TaemReset.owned /\ ~TaemReset.complete
  /\ \A t \in Taems : \A c \in {"acquisition", "alignment"} :
       /\ TaemEntered(t, c) \in Taems /\ TaemEntered(t, c).owned
       /\ ~t.owned => ~TaemEntered(t, c).complete
  BY DEF TaemReset, TaemEntered, Taems

\* The types of the variables that only a tick near the handoff writes.
Keeps == /\ entry' \in Entries /\ adm' \in Answers /\ admAsked' \in Requests
         /\ region' \in BOOLEAN /\ line' \in BOOLEAN

LEMMA HandoffSound ==
  ASSUME IInv, ~region, ~final, ut' \in Times, NEW r \in Routes, Handoff(r)
  PROVE  /\ Keeps /\ region' /\ taem'.owned
         /\ route' \in Routes /\ taem' \in Taems /\ asked' \in Requests
         /\ acquired' \in BOOLEAN /\ phase' \in Phases /\ final' \in BOOLEAN
         /\ final' <=> taem'.complete
         /\ ~law => adm'.found /\ adm'.ut = ut' /\ adm'.model = model
<1> DEFINE t == TaemEntered(taem, "acquisition")
<1>1. PICK w \in Admissions :
        /\ w.ok \/ law
        /\ entry' = EntryHandedOver /\ region' = TRUE
        /\ admAsked' = Nobody /\ adm' = w.adm
        /\ \/ NativeStep(Adopted(r, w.adm.model), t, Nobody, FALSE, "taem")
           \/ NativeStep([NoRoute EXCEPT !.best = r.best], t,
                         IF law THEN Nobody ELSE ut', FALSE, "taem")
  BY Zenon DEF Handoff
<1>2. /\ final \in BOOLEAN /\ law \in BOOLEAN /\ finalTest \in BOOLEAN
      /\ line \in BOOLEAN /\ model \in Models /\ adm \in Answers
      /\ admAsked \in Requests /\ taem \in Taems /\ entry \in Entries
  BY DEF IInv, TerminalTypeOK
<1>3. t \in Taems /\ t.owned /\ ~t.complete
  <2>1. ~taem.owned
    BY DEF IInv, OneOwner
  <2>2. QED BY <1>2, <2>1, TaemTypes
<1>4. PICK u \in Taems : u = t /\ u.owned /\ ~u.complete
  BY <1>3
<1> HIDE DEF t
<1>5. /\ w.adm \in Answers
      /\ w.ok => w.adm.found /\ w.adm.ut = ut' /\ w.adm.model = model
  BY <1>2, AdmissionTypes
<1>6. /\ Adopted(r, w.adm.model) \in Routes
      /\ [NoRoute EXCEPT !.best = r.best] \in Routes
  BY <1>5, NewRoutes DEF Answers, Routes
<1>7. Nobody \in Requests /\ (IF law THEN Nobody ELSE ut') \in Requests
  BY DEF Requests
<1>8. PICK n \in Routes, b \in Requests, q \in BOOLEAN, p \in Phases :
        NativeStep(n, u, b, q, p)
  <2>0. FALSE \in BOOLEAN /\ "taem" \in Phases
    BY DEF Phases
  <2>1. CASE NativeStep(Adopted(r, w.adm.model), t, Nobody, FALSE, "taem")
    BY <2>0, <1>4, <1>6, <1>7, <2>1
  <2>2. CASE NativeStep([NoRoute EXCEPT !.best = r.best], t,
                        IF law THEN Nobody ELSE ut', FALSE, "taem")
    BY <2>0, <1>4, <1>6, <1>7, <2>2
  <2>3. QED BY <1>1, <2>1, <2>2
<1>11. final <=> u.complete
  BY <1>4
<1>12. Sound(u) /\ line' \in BOOLEAN
  BY <1>2, <1>8, <1>11, NativeSound
<1>9. entry' \in Entries
  BY <1>1, <1>2, EntryTypes
<1>10. QED BY <1>1, <1>4, <1>5, <1>7, <1>9, <1>12 DEF Sound, Keeps

\* A sound tick that agrees on the owner keeps the invariant.
LEMMA TickInvariant ==
  ASSUME IInv, Sampled, NEW t, Sound(t), Keeps, recovering' \in BOOLEAN,
         engaged' = engaged, region' <=> taem'.owned,
         entry'.complete => taem'.owned
  PROVE  IInv'
<1>1. TerminalTypeOK'
  <2>1. /\ law' \in BOOLEAN /\ finalTest' \in BOOLEAN /\ recovering' \in BOOLEAN
        /\ region' \in BOOLEAN /\ acquired' \in BOOLEAN /\ line' \in BOOLEAN
        /\ final' \in BOOLEAN
    BY Zenon DEF IInv, TerminalTypeOK, Sampled, Sound, Keeps
  <2>2. /\ engaged' \in {"on", "paused", "off"} /\ phase' \in Phases
        /\ ut' \in Times /\ model' \in Models
    BY Zenon DEF IInv, TerminalTypeOK, Sampled, Sound
  <2>3. /\ entry' \in Entries /\ taem' \in Taems /\ route' \in Routes
        /\ asked' \in Requests /\ admAsked' \in Requests
        /\ adm' \in Answers /\ job' \in Jobs
    BY Zenon DEF IInv, TerminalTypeOK, Sampled, Sound, Keeps
  <2>4. QED BY Zenon, <2>1, <2>2, <2>3 DEF TerminalTypeOK
<1>2. OneOwner'
  BY Zenon DEF OneOwner
<1>3. DeliveredToFinal'
  BY Zenon DEF DeliveredToFinal, Sound
<1>4. QED BY <1>1, <1>2, <1>3 DEF IInv

\* The facts of the invariant that the ticks need.
LEMMA Facts ==
  ASSUME IInv
  PROVE  /\ law \in BOOLEAN /\ finalTest \in BOOLEAN /\ recovering \in BOOLEAN
         /\ region \in BOOLEAN /\ acquired \in BOOLEAN /\ line \in BOOLEAN
         /\ final \in BOOLEAN /\ phase \in Phases /\ ut \in Times
         /\ model \in Models /\ entry \in Entries /\ taem \in Taems
         /\ route \in Routes /\ asked \in Requests /\ admAsked \in Requests
         /\ adm \in Answers /\ job \in Jobs
         /\ (region <=> taem.owned) /\ (entry.complete => taem.owned)
         /\ (final <=> taem.complete)
  BY Zenon DEF IInv, TerminalTypeOK, OneOwner, DeliveredToFinal

LEMMA MM304KeepsSound ==
  ASSUME IInv, ut' \in Times, NEW r \in Routes, MM304Keeps(r)
  PROVE  /\ Sound(taem) /\ Keeps /\ region' = region
         /\ entry'.complete = entry.complete
<1>1. /\ entry' \in EntryUpdated(entry)
      /\ Flies(r, taem, asked, acquired, "entry")
      /\ UNCHANGED <<region, line, final>>
  BY Zenon DEF MM304Keeps
<1>2. entry' \in Entries /\ entry'.complete = entry.complete
  BY <1>1, Facts, EntryTypes
<1>3. adm' \in Answers /\ admAsked' \in Requests
  <2>1. \/ admAsked' = Nobody /\ UNCHANGED adm
        \/ \E w \in Admissions : adm' = w.adm /\ admAsked' = w.asked
    BY Zenon DEF MM304Keeps
  <2>2. Nobody \in Requests
    BY DEF Requests
  <2>3. QED BY <2>1, <2>2, Facts, AdmissionTypes
<1>4. "entry" \in Phases
  BY DEF Phases
<1>5. Sound(taem)
  BY <1>1, <1>4, Facts DEF Flies, Sound
<1>6. QED BY <1>1, <1>2, <1>3, <1>5, Facts DEF Keeps

LEMMA TickGuidesInvariant ==
  ASSUME IInv, TickGuides
  PROVE  /\ IInv'
         /\ ~taem.owned /\ taem'.owned /\ ~law =>
              adm'.found /\ adm'.ut = ut' /\ adm'.model = model'
<1>1. /\ Sampled /\ engaged' = engaged /\ recovering' = FALSE
      /\ ut' \in Times /\ model' = model
  BY Zenon DEF TickGuides, Guides, Sampled
<1>2. PICK r \in Routes :
        \/ /\ ~region /\ ~final
           /\ MM304Keeps(r) \/ Handoff(r)
        \/ /\ UNCHANGED <<region, entry, line, admission>>
           /\ FinalStep(r, taem, asked, acquired)
        \/ /\ UNCHANGED <<region, entry, admission>>
           /\ NativeStep(r, taem, asked, acquired, phase)
  <2>1. (IF recovering THEN Invalidated(route) ELSE route) \in Routes
    BY Facts, RouteTypes
  <2>2. QED BY <2>1 DEF TickGuides
<1>3. PICK t \in Taems : t = taem
  BY Facts
<1>4. CASE ~region /\ ~final /\ MM304Keeps(r)
  <2>1. Sound(taem) /\ Keeps /\ region' = region
        /\ entry'.complete = entry.complete
    BY <1>1, <1>4, MM304KeepsSound
  <2>2. taem'.owned = taem.owned
    BY <2>1 DEF Sound
  <2>3. QED BY <1>1, <2>1, <2>2, Facts, TickInvariant
<1>5. CASE ~region /\ ~final /\ Handoff(r)
  <2>1. /\ Keeps /\ region' /\ taem'.owned
        /\ route' \in Routes /\ taem' \in Taems /\ asked' \in Requests
        /\ acquired' \in BOOLEAN /\ phase' \in Phases /\ final' \in BOOLEAN
        /\ final' <=> taem'.complete
        /\ ~law => adm'.found /\ adm'.ut = ut' /\ adm'.model = model
    BY <1>1, <1>5, HandoffSound
  <2>2. Sound(taem')
    BY <2>1 DEF Sound
  <2>3. PICK x : Sound(x)
    BY <2>2
  <2>4. QED BY <1>1, <2>1, <2>3, TickInvariant
<1>6. CASE /\ UNCHANGED <<region, entry, line, admission>>
           /\ FinalStep(r, taem, asked, acquired)
  <2>1. Quiet /\ Keeps
    BY <1>6, Facts DEF Quiet, Keeps, admission
  <2>2. Sound(t)
    BY <1>3, <1>6, <2>1, Facts, FinalStepSound
  <2>3. taem'.owned = taem.owned
    BY <1>3, <2>2 DEF Sound
  <2>4. QED BY <1>1, <1>6, <2>1, <2>2, <2>3, Facts, TickInvariant
<1>7. CASE /\ UNCHANGED <<region, entry, admission>>
           /\ NativeStep(r, taem, asked, acquired, phase)
  <2>1. Sound(t) /\ line' \in BOOLEAN
    BY <1>1, <1>3, <1>7, Facts, NativeSound
  <2>2. Keeps
    BY <1>7, <2>1, Facts DEF Keeps, admission
  <2>3. taem'.owned = taem.owned
    BY <1>3, <2>1 DEF Sound
  <2>4. QED BY <1>1, <1>7, <2>1, <2>2, <2>3, Facts, TickInvariant
<1>8. QED BY <1>2, <1>4, <1>5, <1>6, <1>7

\* The other ticks.
LEMMA OtherTicksInvariant ==
  ASSUME IInv, TickRecovers \/ TickReturns \/ TickFinalTest
  PROVE  IInv' /\ taem'.owned = taem.owned
<1>1. Sampled /\ engaged' = engaged
  BY Zenon DEF TickRecovers, TickReturns, TickFinalTest, Guides
<1>2. "entry" \in Phases /\ "other" \in Phases
  BY DEF Phases
<1>3. Invalidated(route) \in Routes
  BY Facts, RouteTypes
<1>4. CASE TickRecovers
  <2>1. /\ recovering' = TRUE
        /\ UNCHANGED <<region, entry, line, final, admission>>
    BY <1>4 DEF TickRecovers
  <2>2. PICK r \in Routes : FliesOrWarns(r, taem, asked, acquired, "other")
    <3>1. PICK r \in {route, Invalidated(route)} :
            FliesOrWarns(r, taem, asked, acquired, "other")
      BY <1>4 DEF TickRecovers
    <3>2. QED BY <1>3, <3>1, Facts
  <2>3. PICK t \in Taems : t = taem
    BY Facts
  <2>4. final' \in BOOLEAN /\ (final' <=> t.complete)
    BY <2>1, <2>3, Facts
  <2>5. Sound(t)
    BY <1>2, <2>2, <2>3, <2>4, Facts, FliesOrWarnsSound
  <2>6. Keeps
    BY <2>1, Facts DEF Keeps, admission
  <2>7. taem'.owned = taem.owned
    BY <2>3, <2>5 DEF Sound
  <2>8. QED BY <1>1, <2>1, <2>5, <2>6, <2>7, Facts, TickInvariant
<1>5. CASE TickReturns
  <2>1. /\ recovering' = FALSE /\ entry' \in EntryUpdated(entry)
        /\ Flies(Invalidated(route), taem, asked, acquired, "entry")
        /\ UNCHANGED <<region, line, final, admission>>
    BY <1>5 DEF TickReturns
  <2>2. entry' \in Entries /\ entry'.complete = entry.complete
    BY <2>1, Facts, EntryTypes
  <2>3. Sound(taem) /\ taem'.owned = taem.owned
    BY <1>2, <1>3, <2>1, Facts DEF Flies, Sound
  <2>4. Keeps
    BY <2>1, <2>2, Facts DEF Keeps, admission
  <2>5. QED BY <1>1, <2>1, <2>2, <2>3, <2>4, Facts, TickInvariant
<1>6. CASE TickFinalTest
  <2>1. /\ UNCHANGED <<recovering, region, entry, line, admission>>
        /\ FinalStep(route, taem, asked, acquired)
    BY <1>6 DEF TickFinalTest
  <2>2. PICK t \in Taems : t = taem
    BY Facts
  <2>3. Quiet /\ Keeps
    BY <2>1, Facts DEF Quiet, Keeps, admission
  <2>4. Sound(t)
    BY <2>1, <2>2, <2>3, Facts, FinalStepSound
  <2>5. taem'.owned = taem.owned
    BY <2>2, <2>4 DEF Sound
  <2>6. QED BY <1>1, <2>1, <2>3, <2>4, <2>5, Facts, TickInvariant
<1>7. QED BY <1>4, <1>5, <1>6

\* When the guidance is taken from the vehicle, nobody owns it.
LEMMA ResetInvariant ==
  ASSUME IInv, ut' \in Times, job' \in Jobs, Disengaged
  PROVE  IInv' /\ ~taem'.owned
<1>1. EntryReset \in Entries /\ ~EntryReset.complete
  BY Facts, EntryTypes
<1>2. Nobody \in Requests /\ "other" \in Phases
  BY DEF Requests, Phases
<1>3. /\ law' \in BOOLEAN /\ finalTest' \in BOOLEAN /\ recovering' \in BOOLEAN
      /\ region' \in BOOLEAN /\ acquired' \in BOOLEAN /\ line' \in BOOLEAN
      /\ final' \in BOOLEAN
  BY Facts DEF Disengaged
<1>4. /\ engaged' \in {"on", "paused", "off"} /\ phase' \in Phases
      /\ model' \in Models
  BY <1>2, Facts DEF Disengaged
<1>5. /\ entry' \in Entries /\ taem' \in Taems /\ route' \in Routes
      /\ asked' \in Requests /\ admAsked' \in Requests /\ adm' \in Answers
  BY <1>1, <1>2, Facts, NewRoutes, TaemTypes DEF Disengaged, admission
<1>6. TerminalTypeOK'
  BY Zenon, <1>3, <1>4, <1>5 DEF TerminalTypeOK
<1>7. ~taem'.owned /\ ~taem'.complete /\ region' = FALSE /\ final' = FALSE
      /\ ~entry'.complete
  BY <1>1, TaemTypes DEF Disengaged
<1>8. QED BY <1>6, <1>7 DEF IInv, OneOwner, DeliveredToFinal

\* What leaves the owners alone and keeps the types keeps the invariant.
LEMMA OwnersKept ==
  ASSUME IInv, TerminalTypeOK', UNCHANGED <<region, entry, taem, final>>
  PROVE  IInv' /\ taem'.owned = taem.owned
  BY Zenon DEF IInv, OneOwner, DeliveredToFinal

\* A job of the planner.
LEMMA JobTypes ==
  /\ Free \in Jobs
  /\ \A k \in {"plan", "admission"} :
       [Free EXCEPT !.on = TRUE, !.kind = k, !.outdated = TRUE] \in Jobs
  /\ ut \in Times /\ model \in Models =>
       \A k \in {"plan", "admission"}, x \in Times : Job(k, x) \in Jobs
<1>1. Free \in Jobs
  BY BoundsAreNumbers DEF Free, Jobs, Times, Models
<1>2. \A k \in {"plan", "admission"} :
        [Free EXCEPT !.on = TRUE, !.kind = k, !.outdated = TRUE] \in Jobs
  BY <1>1 DEF Jobs
<1>3. ASSUME ut \in Times, model \in Models, NEW k \in {"plan", "admission"},
             NEW x \in Times
      PROVE  Job(k, x) \in Jobs
  BY <1>1, <1>3 DEF Job, Jobs
<1>4. QED BY <1>1, <1>2, <1>3

LEMMA PlannerInvariant ==
  ASSUME IInv, Planner
  PROVE  IInv' /\ taem'.owned = taem.owned
<1>0. Nobody \in Requests /\ \A x \in Requests : x # Nobody => x \in Times
  BY DEF Requests
<1>1. CASE TakePlan
  <2>1. /\ UNCHANGED <<law, finalTest, engaged, phase, recovering, region, entry,
                       taem, flown, final, ut, model, admission>>
        /\ asked' \in Requests /\ job' \in Jobs
    BY <1>0, <1>1, Facts, JobTypes DEF TakePlan
  <2>2. TerminalTypeOK'
    BY <2>1 DEF IInv, TerminalTypeOK, flown, admission
  <2>3. QED BY <2>1, <2>2, OwnersKept
<1>2. CASE TakeAdmission
  <2>1. /\ UNCHANGED <<law, guidance, ut, model, adm>>
        /\ admAsked' \in Requests /\ job' \in Jobs
    BY <1>0, <1>2, Facts, JobTypes DEF TakeAdmission
  <2>2. TerminalTypeOK'
    BY <2>1 DEF IInv, TerminalTypeOK, guidance, flown
  <2>3. QED BY <2>1, <2>2, OwnersKept DEF guidance
<1>3. CASE Revalidate
  <2>1. UNCHANGED <<law, guidance, ut, model, admission>> /\ job' \in Jobs
    BY <1>3, Facts DEF Revalidate, Jobs
  <2>2. TerminalTypeOK'
    BY <2>1 DEF IInv, TerminalTypeOK, guidance, flown, admission
  <2>3. QED BY <2>1, <2>2, OwnersKept DEF guidance
<1>4. CASE FinishPlan
  <2>1. /\ UNCHANGED <<law, finalTest, engaged, phase, recovering, region, entry,
                       taem, line, final, ut, model, admission>>
        /\ job' = Free
    BY <1>4 DEF FinishPlan
  <2>2. job.model \in Models
    BY Facts DEF Jobs
  <2>3. asked' \in Requests /\ route' \in Routes /\ acquired' \in BOOLEAN
    BY <1>0, <1>4, <2>2, Facts, NewRoutes DEF FinishPlan, AcceptPlan
  <2>4. TerminalTypeOK'
    BY <2>1, <2>3, JobTypes DEF IInv, TerminalTypeOK, admission
  <2>5. QED BY <2>1, <2>4, OwnersKept
<1>5. CASE FinishAdmission
  <2>1. UNCHANGED <<law, guidance, ut, model>> /\ job' = Free
    BY <1>5 DEF FinishAdmission
  <2>2. Refused \in Answers /\ Found(job.ut, job.model) \in Answers
    <3>1. NoAnswer \in Answers
      BY BoundsAreNumbers DEF NoAnswer, Answers, Times, Models
    <3>2. Refused \in Answers
      BY <3>1 DEF Refused, Answers
    <3>3. job.ut \in Times /\ job.model \in Models
      BY Facts DEF Jobs
    <3>4. Found(job.ut, job.model) \in Answers
      BY <3>3 DEF Found, Answers
    <3>5. QED BY <3>2, <3>4
  <2>3. admAsked' \in Requests /\ adm' \in Answers
    BY <1>0, <1>5, <2>2, Facts DEF FinishAdmission, admission
  <2>4. TerminalTypeOK'
    BY <2>1, <2>3, JobTypes DEF IInv, TerminalTypeOK, guidance, flown
  <2>5. QED BY <2>1, <2>4, OwnersKept DEF guidance
<1>6. QED BY <1>1, <1>2, <1>3, <1>4, <1>5 DEF Planner

LEMMA OperatorInvariant ==
  ASSUME IInv, Operator
  PROVE  IInv' /\ (taem'.owned => taem.owned \/ ~entry'.complete)
<1>0. Outdate => job' \in Jobs
  <2>1. job \in Jobs /\ job.kind \in {"plan", "admission"}
    BY Facts DEF Jobs
  <2>2. QED BY <2>1, JobTypes DEF Outdate
<1>1. CASE SetPaused
  <2>1. /\ UNCHANGED <<law, finalTest, recovering, region, entry, taem, flown,
                       final, asked, ut, model, admission>>
        /\ engaged' \in {"on", "paused", "off"} /\ phase' \in Phases
        /\ job' \in Jobs
    BY <1>0, <1>1, Facts DEF SetPaused, Phases
  <2>2. TerminalTypeOK'
    BY <2>1 DEF IInv, TerminalTypeOK, flown, admission
  <2>3. QED BY <2>1, <2>2, OwnersKept
<1>2. CASE Abort
  BY <1>0, <1>2, Facts, ResetInvariant DEF Abort
<1>3. CASE Engage
  <2>1. /\ UNCHANGED <<law, finalTest, phase, recovering, region, entry, taem,
                       flown, final, asked, ut, model, admission>>
        /\ engaged' \in {"on", "paused", "off"} /\ job' \in Jobs
    BY <1>0, <1>3 DEF Engage
  <2>2. TerminalTypeOK'
    BY <2>1 DEF IInv, TerminalTypeOK, flown, admission
  <2>3. QED BY <2>1, <2>2, OwnersKept
<1>4. CASE Begin
  <2>1. EntryReset \in Entries /\ ~EntryReset.complete
    BY Facts, EntryTypes
  <2>2. Nobody \in Requests /\ "other" \in Phases /\ "taem" \in Phases
        /\ NoAnswer \in Answers /\ Exited(NoRoute) \in Routes
    BY BoundsAreNumbers, NewRoutes, RouteTypes
       DEF Requests, Phases, NoAnswer, Answers, Times, Models
  <2>3. /\ law' \in BOOLEAN /\ finalTest' \in BOOLEAN /\ recovering' \in BOOLEAN
        /\ region' \in BOOLEAN /\ acquired' \in BOOLEAN /\ line' \in BOOLEAN
        /\ final' \in BOOLEAN /\ ut' \in Times /\ model' \in Models
    BY <1>4, Facts DEF Begin
  <2>4. /\ engaged' \in {"on", "paused", "off"} /\ phase' \in Phases
        /\ route' \in Routes /\ asked' \in Requests /\ admAsked' \in Requests
        /\ adm' \in Answers /\ entry' \in Entries /\ job' \in Jobs
    BY <1>0, <1>4, <2>1, <2>2, NewRoutes DEF Begin
  <2>5. taem' \in Taems /\ taem'.owned /\ ~taem'.complete
    <3>1. PICK c \in {"acquisition", "alignment"} :
            taem' = TaemEntered(TaemReset, c)
      BY <1>4 DEF Begin
    <3>2. QED BY <3>1, TaemTypes
  <2>6. TerminalTypeOK'
    BY Zenon, <2>3, <2>4, <2>5 DEF TerminalTypeOK
  <2>7. region' = TRUE /\ final' = FALSE /\ ~entry'.complete
    BY <1>4, <2>1 DEF Begin
  <2>8. QED BY <2>5, <2>6, <2>7 DEF IInv, OneOwner, DeliveredToFinal
<1>5. CASE UpdateModel
  <2>1. UNCHANGED <<law, guidance, ut, admission>> /\ job' \in Jobs
    BY <1>0, <1>5 DEF UpdateModel
  <2>2. model' \in Models
    BY <1>5, Facts, BoundsAreNumbers DEF UpdateModel, Models
  <2>3. TerminalTypeOK'
    BY <2>1, <2>2 DEF IInv, TerminalTypeOK, guidance, flown, admission
  <2>4. QED BY <2>1, <2>3, OwnersKept DEF guidance
<1>6. QED BY <1>1, <1>2, <1>3, <1>4, <1>5 DEF Operator

LEMMA InitInvariant == Init => IInv
<1> SUFFICES ASSUME Init PROVE IInv
  OBVIOUS
<1>1. EntryReset \in Entries /\ ~EntryReset.complete
  <2>1. 0 \in 0 .. Transition
    BY BoundsAreNumbers
  <2>2. QED BY <2>1 DEF EntryReset, Entries
<1>2. /\ 1 \in Models /\ 0 \in Times /\ Nobody \in Requests /\ "other" \in Phases
      /\ NoAnswer \in Answers
  BY BoundsAreNumbers DEF Models, Times, Requests, Phases, NoAnswer, Answers
<1>3. TerminalTypeOK
  BY <1>1, <1>2, NewRoutes, TaemTypes, JobTypes DEF Init, TerminalTypeOK
<1>4. QED BY <1>1, <1>3, TaemTypes DEF Init, IInv, OneOwner, DeliveredToFinal

\* One step of anybody: the invariant, and by what MM305 becomes the owner.
LEMMA StepInvariant ==
  ASSUME IInv, [Next]_vars
  PROVE  /\ IInv'
         /\ ~taem.owned /\ taem'.owned /\ entry'.complete /\ ~law =>
              adm'.found /\ adm'.ut = ut' /\ adm'.model = model'
<1>1. CASE Tick
  <2>1. CASE TickGuides
    BY <2>1, TickGuidesInvariant
  <2>2. CASE TickRecovers \/ TickReturns \/ TickFinalTest
    BY <2>2, OtherTicksInvariant
  <2>3. CASE TickStops
    BY <2>3, Facts, ResetInvariant DEF TickStops
  <2>4. CASE TickIdles
    <3>1. /\ UNCHANGED <<law, finalTest, model, job, engaged, phase, recovering,
                         region, entry, taem, flown, final, asked, admission>>
          /\ ut' \in Times
      BY <2>4 DEF TickIdles, Sampled
    <3>2. TerminalTypeOK'
      BY <3>1 DEF IInv, TerminalTypeOK, flown, admission
    <3>3. QED BY <3>1, <3>2, OwnersKept
  <2>5. QED BY <1>1, <2>1, <2>2, <2>3, <2>4 DEF Tick
<1>2. CASE Planner
  BY <1>2, PlannerInvariant
<1>3. CASE Operator
  BY <1>3, OperatorInvariant
<1>4. CASE UNCHANGED vars
  <2>1. TerminalTypeOK'
    BY <1>4 DEF IInv, TerminalTypeOK, vars, guidance, flown, admission
  <2>2. QED BY <1>4, <2>1, OwnersKept DEF vars, guidance
<1>5. QED BY <1>1, <1>2, <1>3, <1>4 DEF Next

LEMMA Invariance == Spec => []IInv
<1>1. IInv /\ [Next]_vars => IInv'
  BY StepInvariant
<1>2. QED BY <1>1, InitInvariant, PTL DEF Spec

\* Every variable of the end of the flight keeps its type.
THEOREM TerminalType == Spec => []TerminalTypeOK
<1>1. IInv => TerminalTypeOK
  BY DEF IInv
<1>2. QED BY <1>1, Invariance, PTL

\* Entry and terminal executive never both own the vehicle, and a complete
\* entry has handed it over.
THEOREM VehicleOwned == Spec => []OneOwner
<1>1. IInv => OneOwner
  BY DEF IInv
<1>2. QED BY <1>1, Invariance, PTL

\* The terminal executive completes in the very tick in which Final is
\* captured, whoever delivers.
THEOREM FinalDelivered == Spec => []DeliveredToFinal
<1>1. IInv => DeliveredToFinal
  BY DEF IInv
<1>2. QED BY <1>1, Invariance, PTL

\* The entry hands over to a flight by routes only with an answer for the
\* sample of the handoff and the model in use.
THEOREM HandoffByFreshAnswer == Spec => HandoffQualified
<1> DEFINE A == ~taem.owned /\ taem'.owned /\ entry'.complete /\ ~law =>
                  adm'.found /\ adm'.ut = ut' /\ adm'.model = model'
<1>1. IInv /\ [Next]_vars => [A]_vars
  BY StepInvariant
<1>2. QED BY <1>1, Invariance, PTL DEF Spec, HandoffQualified

\* Only a result of the planner that is fresh and for the model in use
\* replaces what is flown.
THEOREM FreshRouteAdopted == Spec => RouteAdoptedFresh
<1> DEFINE A == job.on /\ ~job'.on /\ route' # route =>
                  /\ ut - job.ut \in 0 .. RouteAge /\ route'.model = model
                  /\ phase = "taem" /\ ~route.exit /\ ~final
<1>1. ASSUME Next, job.on, ~job'.on, route' # route
      PROVE  FinishPlan
  <2>1. CASE Tick
    <3>1. job' = job \/ (TickStops /\ job' = job)
      BY <2>1 DEF Tick, TickGuides, TickRecovers, TickReturns, TickFinalTest,
                  TickStops, TickIdles, Guides, Sampled
    <3>2. QED BY <1>1, <3>1
  <2>2. CASE Operator
    <3>1. Outdate
      BY <2>2 DEF Operator, SetPaused, Abort, Engage, Begin, UpdateModel
    <3>2. QED BY <1>1, <3>1 DEF Outdate
  <2>3. CASE Planner
    BY <1>1, <2>3 DEF Planner, TakePlan, TakeAdmission, Revalidate,
                      FinishAdmission, guidance, flown
  <2>4. QED BY <1>1, <2>1, <2>2, <2>3 DEF Next
<1>2. ASSUME FinishPlan, route' # route
      PROVE  /\ ut - job.ut \in 0 .. RouteAge /\ route'.model = model
             /\ phase = "taem" /\ ~route.exit /\ ~final
  <2>1. PlanCurrent /\ AcceptPlan
    BY <1>2 DEF FinishPlan
  <2>2. QED BY <2>1 DEF PlanCurrent, AcceptPlan, RouteFresh, Adopted
<1>3. IInv /\ [Next]_vars => [A]_vars
  BY <1>1, <1>2
<1>4. QED BY <1>3, Invariance, PTL DEF Spec, RouteAdoptedFresh
=============================================================================
