------------------------- MODULE ServiceLoop_proofs -------------------------
(***************************************************************************)
(* Theorems about ServiceLoop for any files, workflows and bounds: type    *)
(* correctness and the five safety invariants of its run, by way of the    *)
(* inductive invariant IInv.                                               *)
(***************************************************************************)
EXTENDS ServiceLoop, Lemmas, TLAPS

Busy    == {"announce", "send", "woken", "receipt"}
Reading == In("requests") \/ In("approvals") \/ In("controls")

\* The file between its effect and its receipt.
InHand(f) == svc.pc \in Busy /\ Reading /\ f = This

\* What is still to do in each phase; a file still to do has no receipt yet.
TodoAt ==
    /\ svc.phase = End <=> At("down") \/ At("loop")
    /\ svc.phase = End => svc.todo = {} /\ svc.send = {}
    /\ In("requests")  => svc.todo \subseteq Requests
    /\ In("approvals") => svc.todo \subseteq Commands
    /\ In("controls")  => svc.todo \subseteq Controls
    /\ Reading => svc.todo \subseteq Waiting(File)
    /\ In("tick") => svc.todo \subseteq Workflows
    /\ In("deliver") => svc.todo = {} /\ svc.pc \in {"send", "woken"}
    /\ svc.pc \in Busy /\ ~In("deliver") => svc.todo # {}
    /\ At("receipt") => Reading

\* What is still to send in each step of a delivery round.
SendAt ==
    /\ At("announce") => svc.note # None
    /\ svc.pc \in {"scan", "announce", "receipt"} => svc.send = {}
    /\ At("woken") => svc.send # {}
    /\ \A n \in svc.send : outbox[n].status # "DELIVERED"

\* A crash pays for every effect before the one that the receipt confirms; a request
\* that took effect and has no receipt is still to be read, before any tick.
EffectsArePaid ==
    /\ \A f \in File :
          applied[f] <= faults.crashes + (IF receipt[f] # None \/ InHand(f) THEN 1 ELSE 0)
    /\ \A f \in File : applied[f] > 0 => Content[f].type \notin {"INVALID", "UNSAFE"}
    /\ \A f \in Requests : applied[f] > 0 /\ receipt[f] = None =>
          f \in queued /\ (At("down") \/ At("loop") \/ (In("requests") /\ f \in svc.todo))

\* A CREATE that took effect, or was accepted, left a run behind.
CreatesAreSeen ==
    \A f \in File : Content[f].type = "CREATE" =>
        /\ applied[f] <= 1
        /\ applied[f] > 0 \/ receipt[f] = "ACCEPTED" \/ InHand(f) =>
              runs[Content[f].workflow].state # None

\* A question that was answered is not the open one, and is never asked again.
AnswersAreFinal ==
    /\ \A w \in Workflows : runs[w].pending <= runs[w].asked
    /\ \A f \in File : Content[f].type = "ANSWER" =>
          /\ applied[f] <= 1
          /\ applied[f] > 0 => /\ Content[f].decision <= runs[Content[f].workflow].asked
                               /\ Content[f].decision # runs[Content[f].workflow].pending
    /\ OneAnswerPerQuestion

\* An attempt of the row, a crash or a failing write pays for every turn of the Manager
\* but the one that has just ended; what is delivered has been attempted.
WakesArePaid ==
    \A n \in DOMAIN outbox :
        /\ outbox[n].wakes <= outbox[n].attempts + faults.crashes + faults.writes
                               + (IF At("woken") /\ n = Oldest THEN 1 ELSE 0)
        /\ outbox[n].status = "DELIVERED" => outbox[n].attempts > 0

IInv == /\ TypeOK /\ TodoAt /\ SendAt
        /\ EffectsArePaid /\ CreatesAreSeen /\ AnswersAreFinal /\ WakesArePaid

-----------------------------------------------------------------------------
(* Where the service is. *)

\* The phases by number.
LEMMA Phases ==
    /\ End = 6
    /\ Phase[1] = "requests" /\ Phase[2] = "approvals" /\ Phase[3] = "controls"
    /\ Phase[4] = "tick" /\ Phase[5] = "deliver"
    /\ TypeOK => /\ In("requests")  <=> svc.phase = 1
                 /\ In("approvals") <=> svc.phase = 2
                 /\ In("controls")  <=> svc.phase = 3
                 /\ In("tick")      <=> svc.phase = 4
                 /\ In("deliver")   <=> svc.phase = 5
                 /\ svc.phase \in 1 .. 6
<1>1. /\ End = 6
      /\ Phase[1] = "requests" /\ Phase[2] = "approvals" /\ Phase[3] = "controls"
      /\ Phase[4] = "tick" /\ Phase[5] = "deliver"
  BY DEF End, Phase
<1>2. TypeOK => svc.phase \in 1 .. 6
  BY <1>1 DEF TypeOK
<1> QED
  BY <1>1, <1>2 DEF In

\* The phase of the service after a step, by number.
LEMMA PhasesPrime ==
    TypeOK' => /\ In("requests")'  <=> svc'.phase = 1
               /\ In("approvals")' <=> svc'.phase = 2
               /\ In("controls")'  <=> svc'.phase = 3
               /\ In("tick")'      <=> svc'.phase = 4
               /\ In("deliver")'   <=> svc'.phase = 5
               /\ svc'.phase \in 1 .. 6
<1>1. TypeOK' => svc'.phase \in 1 .. 6
  BY Phases DEF TypeOK
<1> QED
  BY <1>1, Phases DEF In

\* The item in hand is one of those to do: a file without a receipt, or a run.
LEMMA ThisIsToDo ==
    ASSUME TypeOK, TodoAt, svc.todo # {}
    PROVE  /\ This \in svc.todo
           /\ Reading => This \in File /\ This \in queued /\ receipt[This] = None
           /\ In("tick") => This \in Workflows
<1>1. CASE In("tick")
  <2>1. This \in svc.todo
    BY <1>1 DEF This
  <2>2. ~Reading
    BY <1>1, Phases DEF Reading
  <2> QED
    BY <1>1, <2>1, <2>2 DEF TodoAt
<1>2. CASE ~In("tick")
  <2>1. Reading
    BY <1>2, Phases DEF Reading, TodoAt
  <2>2. svc.todo \subseteq File /\ svc.todo \subseteq Waiting(File)
    BY <2>1 DEF TodoAt, Waiting
  <2>3. This \in svc.todo
    <3>1. svc.todo \in SUBSET Nat
      BY <2>2, ServiceAssumption
    <3> QED
      BY <1>2, <3>1, MinOfNat DEF This
  <2> QED
    BY <1>2, <2>1, <2>2, <2>3 DEF Waiting
<1> QED
  BY <1>1, <1>2

\* The item in hand is the same while the service is busy with it.
LEMMA SameItem ==
    ASSUME svc'.todo = svc.todo, svc'.phase = svc.phase
    PROVE  /\ This' = This
           /\ Reading' <=> Reading
<1>1. \A p : In(p)' <=> In(p)
  BY DEF In
<1> QED
  BY <1>1 DEF This, Reading

\* The notification in hand is one of those to send.
LEMMA OldestIsToSend ==
    ASSUME TypeOK, svc.send # {}
    PROVE  Oldest \in svc.send /\ Oldest \in DOMAIN outbox /\ outbox[Oldest] \in Notification
<1>1. svc.send \in SUBSET DOMAIN outbox /\ DOMAIN outbox \subseteq Nat
  BY DEF TypeOK
<1>2. Oldest \in svc.send
  BY <1>1, MinOfNat DEF Oldest
<1> QED
  BY <1>1, <1>2 DEF TypeOK

\* The counters of a row are numbers.
LEMMA RowCounts ==
    ASSUME TypeOK
    PROVE  \A n \in DOMAIN outbox : outbox[n].wakes \in Nat /\ outbox[n].attempts \in Nat
<1>1. outbox \in Seq(Notification)
  BY DEF TypeOK
<1>2. \A n \in DOMAIN outbox : outbox[n] \in Notification
  BY <1>1
<1> QED
  BY <1>2 DEF Notification

LEMMA RowCountsPrime ==
    TypeOK' => \A n \in DOMAIN outbox' : outbox'[n].wakes \in Nat /\ outbox'[n].attempts \in Nat
<1> SUFFICES ASSUME TypeOK'
             PROVE  \A n \in DOMAIN outbox' : outbox'[n].wakes \in Nat /\ outbox'[n].attempts \in Nat
  OBVIOUS
<1>1. outbox' \in Seq(Notification)
  BY DEF TypeOK
<1>2. \A n \in DOMAIN outbox' : outbox'[n] \in Notification
  BY <1>1
<1> QED
  BY <1>2 DEF Notification

-----------------------------------------------------------------------------
(* Parts of a step. *)

RunRow  == [state : {None, "ACTIVE", "WAITING_HUMAN", "HOLD", "TERMINAL"}, pending : Nat, asked : Nat]
FaultRow == [crashes : 0 .. FaultBound, stops : 0 .. FaultBound, refusals : 0 .. FaultBound,
             writes : 0 .. FaultBound]
SvcOver(rows) ==
    [pc : {"down", "loop", "scan", "announce", "send", "woken", "receipt"},
     phase : 1 .. End, todo : SUBSET (File \cup Workflows), send : SUBSET DOMAIN rows,
     note : Waking \cup Suppressed \cup {None}]

\* A fault is counted within its bound, and the other counts stay.
LEMMA FaultCounts ==
    ASSUME TypeOK, NEW k \in {"crashes", "stops", "refusals", "writes"}, Fault(k)
    PROVE  /\ faults' \in FaultRow
           /\ faults'.crashes = faults.crashes + (IF k = "crashes" THEN 1 ELSE 0)
           /\ faults'.writes = faults.writes + (IF k = "writes" THEN 1 ELSE 0)
<1>1. /\ faults.crashes \in Nat /\ faults.stops \in Nat /\ faults.refusals \in Nat
      /\ faults.writes \in Nat /\ FaultBound \in Nat
      /\ faults \in FaultRow
  BY ServiceAssumption DEF TypeOK, FaultRow
<1>2. /\ faults.crashes + faults.stops + faults.refusals + faults.writes < FaultBound
      /\ faults' = [faults EXCEPT ![k] = @ + 1]
  BY DEF Fault
<1>3. CASE k = "crashes"
  BY <1>1, <1>2, <1>3 DEF FaultRow
<1>4. CASE k = "stops"
  BY <1>1, <1>2, <1>4 DEF FaultRow
<1>5. CASE k = "refusals"
  BY <1>1, <1>2, <1>5 DEF FaultRow
<1>6. CASE k = "writes"
  BY <1>1, <1>2, <1>6 DEF FaultRow
<1> QED
  BY <1>3, <1>4, <1>5, <1>6

\* The service down: nothing to do and nothing to send.
LEMMA DownState ==
    /\ Down.pc = "down" /\ Down.phase = End /\ Down.todo = {} /\ Down.send = {}
    /\ [Down EXCEPT !.pc = "loop"].pc = "loop" /\ [Down EXCEPT !.pc = "loop"].phase = End
    /\ [Down EXCEPT !.pc = "loop"].todo = {} /\ [Down EXCEPT !.pc = "loop"].send = {}
    /\ \A rows : Down \in SvcOver(rows) /\ [Down EXCEPT !.pc = "loop"] \in SvcOver(rows)
  BY Phases DEF Down, SvcOver

\* A phase begins with its list; past the last one the service is in its loop again.
LEMMA EnterPhase ==
    ASSUME TypeOK, NEW i \in 1 .. End, Enter(i), UNCHANGED <<queued, receipt, runs, outbox>>
    PROVE  /\ svc' \in SvcOver(outbox)
           /\ svc'.phase = i
           /\ i = End => svc'.pc = "loop" /\ svc'.todo = {} /\ svc'.send = {}
           /\ i = 5 => svc'.pc = "send" /\ svc'.todo = {} /\ svc'.send = Round
           /\ i < 5 => svc'.pc = "scan" /\ svc'.send = {}
           /\ i = 1 => svc'.todo = Waiting(Requests)
           /\ i = 2 => svc'.todo = Waiting(Commands)
           /\ i = 3 => svc'.todo = Waiting(Controls)
           /\ i = 4 => svc'.todo \subseteq Workflows
<1>1. CASE i = End
  BY <1>1, DownState, Phases DEF Enter
<1>2. CASE i # End
  <2>1. i \in 1 .. 5
    BY <1>2, Phases
  <2>2. svc' = [svc EXCEPT !.phase = i, !.todo = Listed(Phase[i]),
                           !.pc   = IF Phase[i] = "deliver" THEN "send" ELSE "scan",
                           !.send = IF Phase[i] = "deliver" THEN Round ELSE {}]
    BY <1>2 DEF Enter
  <2>3. Listed(Phase[i]) \subseteq File \cup Workflows
    BY <2>1, Phases DEF Listed, Waiting, File
  <2>4. Round \subseteq DOMAIN outbox
    BY DEF Round
  <2>5. svc \in SvcOver(outbox)
    BY DEF TypeOK, SvcOver
  <2>6. /\ svc'.phase = i /\ svc'.todo = Listed(Phase[i])
        /\ svc'.pc = (IF Phase[i] = "deliver" THEN "send" ELSE "scan")
        /\ svc'.send = (IF Phase[i] = "deliver" THEN Round ELSE {})
    BY <2>2, <2>5 DEF SvcOver
  <2>7. svc' \in SvcOver(outbox)
    <3> DEFINE pc   == IF Phase[i] = "deliver" THEN "send" ELSE "scan"
               send == IF Phase[i] = "deliver" THEN Round ELSE {}
               todo == Listed(Phase[i])
    <3>1. /\ pc \in {"send", "scan"} /\ send \in SUBSET DOMAIN outbox
          /\ todo \in SUBSET (File \cup Workflows)
      BY <2>3, <2>4
    <3>2. svc' = [svc EXCEPT !.phase = i, !.todo = todo, !.pc = pc, !.send = send]
      BY <2>2
    <3> HIDE DEF pc, send, todo
    <3> QED
      BY <2>5, <3>1, <3>2 DEF SvcOver
  <2> QED
    BY <1>2, <2>1, <2>6, <2>7, Phases DEF Listed
<1> QED
  BY <1>1, <1>2

\* A phase that begins has what is still to do and to send in order.
LEMMA EnterKeeps ==
    ASSUME TypeOK, NEW i \in 1 .. End, Enter(i), UNCHANGED <<queued, receipt, runs, outbox>>
    PROVE  (TypeOK' => TodoAt' /\ SendAt') /\ ~At("woken")' /\ \A f \in File : ~InHand(f)'
<1>1. /\ \A f \in Round : outbox[f].status # "DELIVERED"
      /\ \A files \in SUBSET File : Waiting(files)' = Waiting(files)
      /\ \A files \in SUBSET File : Waiting(files) \subseteq Waiting(File)
      /\ \A files : Waiting(files) \subseteq files
  BY DEF Round, Waiting
<1>2. Requests \in SUBSET File /\ Commands \in SUBSET File /\ Controls \in SUBSET File
  BY DEF File
<1>3. Waiting(File)' = Waiting(File)
  BY DEF Waiting
<1>4. TypeOK' => TodoAt'
  BY <1>1, <1>2, <1>3, EnterPhase, Phases, PhasesPrime DEF TodoAt, At, Reading, Busy
<1>5. TypeOK' => SendAt'
  BY <1>1, EnterPhase, Phases DEF SendAt, At
<1>6. ~At("woken")' /\ \A f \in File : ~InHand(f)'
  <2>1. i \in 1 .. 6
    BY Phases
  <2>2. svc'.pc = "send" => svc'.phase = 5
    BY <2>1, EnterPhase, Phases
  <2>3. svc'.pc \in {"loop", "scan", "send"}
    BY <2>1, EnterPhase, Phases
  <2>4. svc'.phase = 5 => ~Reading'
    BY Phases DEF Reading, In
  <2> QED
    BY <2>2, <2>3, <2>4 DEF InHand, Busy, At
<1> QED
  BY <1>4, <1>5, <1>6

\* A step that leaves the tables, the receipts and the files alone keeps what is paid
\* for, provided that it does not lose sight of the file in hand.
LEMMA StoreKept ==
    ASSUME IInv, UNCHANGED <<queued, receipt, store, faults>>,
           ~At("woken"), ~At("woken")',
           \A f \in File : receipt[f] = None /\ InHand(f) => InHand(f)',
           \A f \in File : InHand(f)' => InHand(f) \/ Content[f].type # "CREATE",
           \A f \in Requests : applied[f] > 0 /\ receipt[f] = None =>
              (At("down") \/ At("loop") \/ (In("requests") /\ f \in svc.todo))'
    PROVE  EffectsArePaid' /\ CreatesAreSeen' /\ AnswersAreFinal' /\ WakesArePaid'
<1>1. UNCHANGED <<runs, outbox, applied>>
  BY DEF store
<1>2. EffectsArePaid'
  <2>1. applied \in [File -> Nat] /\ faults.crashes \in Nat
    BY ServiceAssumption DEF IInv, TypeOK
  <2>2. \A f \in File :
          applied'[f] <= faults'.crashes + (IF receipt'[f] # None \/ InHand(f)' THEN 1 ELSE 0)
    BY <1>1, <2>1 DEF IInv, EffectsArePaid
  <2> QED
    BY <1>1, <2>2 DEF IInv, EffectsArePaid
<1>3. CreatesAreSeen'
  BY <1>1 DEF IInv, CreatesAreSeen
<1>4. AnswersAreFinal'
  BY <1>1 DEF IInv, AnswersAreFinal, OneAnswerPerQuestion
<1>5. WakesArePaid'
  BY <1>1 DEF IInv, WakesArePaid
<1> QED
  BY <1>2, <1>3, <1>4, <1>5

\* What an effect does to its run: it exists afterwards, no question is opened, and an
\* answer closes the question it was for.
LEMMA EffectOnRun ==
    ASSUME TypeOK, TodoAt, OnFile, Effect.can
    PROVE  /\ Asks.workflow \in Workflows /\ Run \in RunRow
           /\ Effect.run \in RunRow /\ Effect.run.state # None
           /\ Effect.run.asked = Run.asked /\ Effect.run.pending \in {0, Run.pending}
           /\ Effect.note \in Waking \cup Suppressed
           /\ Asks.type \notin {"INVALID", "UNSAFE"}
           /\ Asks.type = "CREATE" => Run.state = None
           /\ Asks.type = "ANSWER" => /\ Run.pending = Asks.decision /\ Effect.run.pending = 0
                                      /\ Asks.decision \in Nat \ {0}
<1>1. This \in File
  <2>1. svc.todo # {} /\ Reading
    BY Phases DEF OnFile, TodoAt, Reading, At
  <2> QED
    BY <2>1, ThisIsToDo
<1>2. Asks.workflow \in Workflows
  BY <1>1, ServiceAssumption DEF Asks
<1>3. Asks.type \in {"CREATE", "CHANGE", "ANSWER", "PAUSE", "RESUME", "INVALID", "UNSAFE"}
  BY <1>1, ServiceAssumption DEF Asks, File
<1>4. Run \in RunRow
  BY <1>2 DEF Run, TypeOK, RunRow
<1>5. Asks.type = "ANSWER" => Asks.decision \in Nat \ {0}
  BY <1>1, ServiceAssumption DEF Asks
<1>6. CASE Asks.type = "CREATE"
  BY <1>2, <1>4, <1>6 DEF Effect, CreateRun, RunRow, Waking, Suppressed, None
<1>7. CASE Asks.type = "CHANGE"
  BY <1>2, <1>4, <1>7 DEF Effect, ReviseRun, RunRow, Waking, Suppressed, None
<1>8. CASE Asks.type = "ANSWER"
  <2>1. Effect = ResolveDecision
    BY <1>8 DEF Effect
  <2>2. /\ ResolveDecision.can = (Run.pending = Asks.decision)
        /\ ResolveDecision.run = [Run EXCEPT !.pending = 0,
                                    !.state = IF Asks.declines THEN "TERMINAL" ELSE "ACTIVE"]
        /\ ResolveDecision.note = IF Asks.declines THEN "WORKFLOW_TERMINAL"
                                                    ELSE "HUMAN_APPROVAL_RESOLVED"
    BY DEF ResolveDecision
  <2>3. /\ ResolveDecision.run \in RunRow /\ ResolveDecision.run.state # None
        /\ ResolveDecision.run.asked = Run.asked /\ ResolveDecision.run.pending = 0
    <3> DEFINE to  == IF Asks.declines THEN "TERMINAL" ELSE "ACTIVE"
               new == ResolveDecision.run
    <3>1. to \in {"ACTIVE", "TERMINAL"}
      OBVIOUS
    <3>2. new = [Run EXCEPT !.pending = 0, !.state = to]
      BY <2>2
    <3> HIDE DEF to, new
    <3>3. ASSUME NEW r \in RunRow, NEW t \in {"ACTIVE", "TERMINAL"}
          PROVE  LET s == [r EXCEPT !.pending = 0, !.state = t]
                 IN s.state = t /\ s.pending = 0 /\ s.asked = r.asked /\ s \in RunRow
      BY DEF RunRow
    <3>4. new.state = to /\ new.pending = 0 /\ new.asked = Run.asked /\ new \in RunRow
      BY <1>4, <3>1, <3>2, <3>3
    <3>5. to # None
      BY <3>1 DEF None
    <3> QED
      BY <3>4, <3>5 DEF new
  <2>4. ResolveDecision.note \in Waking \cup Suppressed
    BY <2>2 DEF Waking, Suppressed
  <2> QED
    BY <1>2, <1>4, <1>5, <1>8, <2>1, <2>2, <2>3, <2>4
<1>9. CASE Asks.type = "PAUSE"
  BY <1>2, <1>4, <1>9 DEF Effect, PauseRun, RunRow, Waking, Suppressed, None
<1>10. CASE Asks.type = "RESUME"
  BY <1>2, <1>4, <1>10 DEF Effect, ResumeRun, RunRow, Waking, Suppressed, None
<1>11. CASE Asks.type \in {"INVALID", "UNSAFE"}
  BY <1>11 DEF Effect, Unusable
<1> QED
  BY <1>3, <1>6, <1>7, <1>8, <1>9, <1>10, <1>11

-----------------------------------------------------------------------------
(* The initial state, and one lemma per action. *)

\* The invariant holds at first.
LEMMA InitKeeps == Init => IInv
<1> SUFFICES ASSUME Init PROVE IInv
  OBVIOUS
<1>1. TypeOK
  <2>1. svc \in SvcOver(outbox)
    BY DownState DEF Init
  <2>2. runs \in [Workflows -> RunRow]
    BY DEF Init, RunRow
  <2>3. faults \in FaultRow
    BY ServiceAssumption DEF Init, FaultRow
  <2>4. outbox \in Seq(Notification)
    BY DEF Init
  <2> QED
    BY <2>1, <2>2, <2>3, <2>4 DEF Init, TypeOK, SvcOver, RunRow, FaultRow
<1>2. svc.pc = "down" /\ svc.phase = End /\ svc.todo = {} /\ svc.send = {}
  BY DownState DEF Init
<1>3. TodoAt /\ SendAt
  BY <1>1, <1>2, Phases DEF TodoAt, SendAt, At, Reading, Busy
<1>4. EffectsArePaid /\ CreatesAreSeen /\ AnswersAreFinal /\ WakesArePaid
  <2>1. \A f \in File : ~InHand(f)
    BY <1>2 DEF InHand, Busy
  <2>2. \A f \in File : applied[f] = 0 /\ receipt[f] = None
    BY DEF Init
  <2>3. faults.crashes = 0 /\ outbox = <<>> /\ \A w \in Workflows : runs[w].pending <= runs[w].asked
    BY DEF Init
  <2>4. EffectsArePaid /\ CreatesAreSeen
    BY <2>1, <2>2, <2>3 DEF EffectsArePaid, CreatesAreSeen, None, File
  <2>5. AnswersAreFinal
    BY <2>2, <2>3 DEF AnswersAreFinal, OneAnswerPerQuestion
  <2>6. WakesArePaid
    BY <2>3 DEF WakesArePaid
  <2> QED
    BY <2>4, <2>5, <2>6
<1> QED
  BY <1>1, <1>3, <1>4 DEF IInv

\* A file is written to its directory.
LEMMA SubmitKeeps ==
    ASSUME IInv, NEW f \in File, Submit(f)
    PROVE  IInv'
<1>1. /\ queued' = queued \cup {f}
      /\ UNCHANGED <<receipt, runs, outbox, applied, svc, stop, faults>>
  BY DEF Submit, store
<1>2. TypeOK'
  BY <1>1 DEF IInv, TypeOK
<1>3. \A p : (At(p)' <=> At(p)) /\ (In(p)' <=> In(p))
  BY <1>1 DEF At, In
<1>4. This' = This /\ (Reading' <=> Reading) /\ Oldest' = Oldest
  BY <1>1, SameItem DEF Oldest
<1>5. \A g \in File : InHand(g)' <=> InHand(g)
  BY <1>1, <1>4 DEF InHand
<1>6. Waiting(File) \subseteq Waiting(File)'
  BY <1>1 DEF Waiting
<1>7. TodoAt' /\ SendAt'
  BY <1>1, <1>3, <1>4, <1>6 DEF IInv, TodoAt, SendAt
<1>8. EffectsArePaid'
  BY <1>1, <1>3, <1>5 DEF IInv, EffectsArePaid
<1>9. CreatesAreSeen' /\ AnswersAreFinal'
  BY <1>1, <1>5 DEF IInv, CreatesAreSeen, AnswersAreFinal, OneAnswerPerQuestion
<1>10. WakesArePaid'
  BY <1>1, <1>3, <1>4 DEF IInv, WakesArePaid
<1> QED
  BY <1>2, <1>7, <1>8, <1>9, <1>10 DEF IInv

\* Someone asks the service to stop.
LEMMA RequestStopKeeps ==
    ASSUME IInv, RequestStop
    PROVE  IInv'
<1>1. /\ stop' = TRUE /\ Fault("stops")
      /\ UNCHANGED <<queued, receipt, runs, outbox, applied, svc>>
  BY DEF RequestStop, store
<1>2. /\ faults' \in FaultRow
      /\ faults'.crashes = faults.crashes /\ faults'.writes = faults.writes
  <2>1. faults.crashes \in Nat /\ faults.writes \in Nat
    BY ServiceAssumption DEF IInv, TypeOK
  <2> QED
    BY <1>1, <2>1, FaultCounts DEF IInv
<1>3. TypeOK'
  BY <1>1, <1>2 DEF IInv, TypeOK, FaultRow
<1>4. \A p : (At(p)' <=> At(p)) /\ (In(p)' <=> In(p))
  BY <1>1 DEF At, In
<1>5. This' = This /\ (Reading' <=> Reading) /\ Oldest' = Oldest
  BY <1>1, SameItem DEF Oldest
<1>6. \A g \in File : InHand(g)' <=> InHand(g)
  BY <1>1, <1>5 DEF InHand
<1>7. TodoAt' /\ SendAt'
  BY <1>1, <1>4, <1>5 DEF IInv, TodoAt, SendAt, Waiting
<1>8. EffectsArePaid'
  BY <1>1, <1>2, <1>4, <1>6 DEF IInv, EffectsArePaid
<1>9. CreatesAreSeen' /\ AnswersAreFinal'
  BY <1>1, <1>6 DEF IInv, CreatesAreSeen, AnswersAreFinal, OneAnswerPerQuestion
<1>10. WakesArePaid'
  BY <1>1, <1>2, <1>4, <1>5 DEF IInv, WakesArePaid
<1> QED
  BY <1>3, <1>7, <1>8, <1>9, <1>10 DEF IInv

\* The process starts, stops as it was asked to, or crashes.
LEMMA StartKeeps ==
    ASSUME IInv, Start \/ Stopped
    PROVE  IInv'
<1>1. /\ svc' \in {[Down EXCEPT !.pc = "loop"], Down} /\ stop' = FALSE
      /\ UNCHANGED <<queued, receipt, store, faults>>
      /\ UNCHANGED <<runs, outbox, applied>>
      /\ svc.pc \in {"down", "loop"}
  BY DEF Start, Stopped, At, store
<1>2. /\ svc'.pc \in {"down", "loop"} /\ svc'.phase = End /\ svc'.todo = {} /\ svc'.send = {}
      /\ svc' \in SvcOver(outbox)
  BY <1>1, DownState
<1>3. TypeOK'
  BY <1>1, <1>2 DEF IInv, TypeOK, SvcOver
<1>4. TodoAt' /\ SendAt'
  BY <1>2, <1>3, Phases, PhasesPrime DEF TodoAt, SendAt, At, Reading, Busy
<1>5. EffectsArePaid' /\ CreatesAreSeen' /\ AnswersAreFinal' /\ WakesArePaid'
  <2>1. \A f : ~InHand(f) /\ ~InHand(f)'
    BY <1>1, <1>2 DEF InHand, Busy
  <2> QED
    BY <1>1, <1>2, <2>1, StoreKept DEF At
<1> QED
  BY <1>3, <1>4, <1>5 DEF IInv

\* The crash pays for the effect or the turn that was not recorded.
LEMMA CrashKeeps ==
    ASSUME IInv, Crash
    PROVE  IInv'
<1>1. /\ svc' = Down /\ Fault("crashes")
      /\ UNCHANGED <<queued, receipt, runs, outbox, applied, stop>>
  BY DEF Crash, store
<1>2. /\ svc'.pc = "down" /\ svc'.phase = End /\ svc'.todo = {} /\ svc'.send = {}
      /\ svc' \in SvcOver(outbox)
  BY <1>1, DownState
<1>3. /\ faults' \in FaultRow
      /\ faults'.crashes = faults.crashes + 1 /\ faults.crashes \in Nat
      /\ faults'.writes = faults.writes /\ faults.writes \in Nat
  <2>1. faults.crashes \in Nat /\ faults.writes \in Nat
    BY ServiceAssumption DEF IInv, TypeOK
  <2> QED
    BY <1>1, <2>1, FaultCounts DEF IInv
<1>4. TypeOK'
  BY <1>1, <1>2, <1>3 DEF IInv, TypeOK, SvcOver, FaultRow
<1>5. TodoAt' /\ SendAt'
  BY <1>2, <1>4, Phases, PhasesPrime DEF TodoAt, SendAt, At, Reading, Busy
<1>6. \A f \in File : ~InHand(f)'
  BY <1>2 DEF InHand, Busy
<1>7. EffectsArePaid'
  <2>1. \A f \in File : applied[f] \in Nat
    BY DEF IInv, TypeOK
  <2>2. \A f \in File : applied[f] <= faults.crashes + 1
    BY <1>3, <2>1 DEF IInv, EffectsArePaid
  <2> QED
    BY <1>1, <1>2, <1>3, <2>1, <2>2 DEF IInv, EffectsArePaid, At
<1>8. CreatesAreSeen' /\ AnswersAreFinal'
  BY <1>1, <1>6 DEF IInv, CreatesAreSeen, AnswersAreFinal, OneAnswerPerQuestion
<1>9. WakesArePaid'
  <2>1. \A n \in DOMAIN outbox : outbox[n].wakes \in Nat /\ outbox[n].attempts \in Nat
    BY RowCounts DEF IInv
  <2>2. \A n \in DOMAIN outbox : /\ outbox[n].wakes <= outbox[n].attempts + faults.crashes + faults.writes + 1
                                 /\ outbox[n].status = "DELIVERED" => outbox[n].attempts > 0
    BY <1>3, <2>1 DEF IInv, WakesArePaid
  <2>3. ~At("woken")'
    BY <1>2 DEF At
  <2> QED
    BY <1>1, <1>3, <2>1, <2>2, <2>3 DEF WakesArePaid
<1> QED
  BY <1>4, <1>5, <1>7, <1>8, <1>9 DEF IInv

\* A phase begins: what the phase before had to do is done.
LEMMA EnterStepKeeps ==
    ASSUME IInv, NEW i \in 1 .. End, Enter(i),
           UNCHANGED <<queued, receipt, store, faults>>, stop' \in BOOLEAN,
           svc.pc \in {"loop", "scan"} \/ (In("deliver") /\ svc.pc # "woken"),
           i = 1 => At("loop"),
           i \in 2 .. 5 => ~In("requests") \/ svc.todo = {},
           i # 1 /\ i # End => ~At("loop")
    PROVE  IInv'
<1>1. UNCHANGED <<runs, outbox, applied>>
  BY DEF store
<1>2. TypeOK'
  <2>1. svc' \in SvcOver(outbox)
    BY <1>1, EnterPhase DEF IInv
  <2> QED
    BY <1>1, <2>1 DEF IInv, TypeOK, SvcOver
<1>3. TodoAt' /\ SendAt' /\ ~At("woken")' /\ \A f \in File : ~InHand(f)'
  BY <1>1, <1>2, EnterKeeps DEF IInv
<1>4. ~At("woken") /\ \A f \in File : ~InHand(f)
  BY Phases DEF IInv, InHand, Busy, At, Reading
<1>5. ASSUME NEW f \in Requests, applied[f] > 0, receipt[f] = None
      PROVE  (At("down") \/ At("loop") \/ (In("requests") /\ f \in svc.todo))'
  <2>1. f \in Waiting(Requests) /\ (At("down") \/ At("loop") \/ (In("requests") /\ f \in svc.todo))
    BY <1>5 DEF IInv, EffectsArePaid, Waiting
  <2>2. CASE i = 1
    <3>1. svc'.todo = Waiting(Requests) /\ svc'.phase = 1
      BY <1>1, <2>2, EnterPhase DEF IInv
    <3> QED
      BY <1>2, <2>1, <3>1, PhasesPrime
  <2>3. CASE i = End
    <3>1. svc'.pc = "loop"
      BY <1>1, <2>3, EnterPhase DEF IInv
    <3> QED
      BY <3>1 DEF At
  <2>4. CASE i # 1 /\ i # End
    <3>1. i \in 2 .. 5
      BY <2>4, Phases
    <3>2. ~At("down")
      BY Phases DEF IInv, At, TodoAt
    <3> QED
      BY <2>1, <2>4, <3>1, <3>2
  <2> QED
    BY <2>2, <2>3, <2>4
<1>6. EffectsArePaid' /\ CreatesAreSeen' /\ AnswersAreFinal' /\ WakesArePaid'
  BY <1>3, <1>4, <1>5, StoreKept
<1> QED
  BY <1>2, <1>3, <1>6 DEF IInv

\* A cycle begins, a phase ends, or the error of a tick ends the cycle.
LEMMA PhaseStepKeeps ==
    ASSUME IInv, Cycle \/ NextPhase \/ TickThrows
    PROVE  IInv'
<1>1. stop \in BOOLEAN /\ 1 \in 1 .. End /\ End \in 1 .. End
  BY Phases DEF IInv, TypeOK
<1>2. CASE Cycle
  BY <1>1, <1>2, EnterStepKeeps, Phases DEF Cycle, At
<1>3. CASE NextPhase
  <2>1. svc.phase \in 1 .. 5
    BY <1>3, Phases DEF NextPhase, IInv, TodoAt, At
  <2>2. svc.phase + 1 \in 1 .. End /\ svc.phase + 1 # 1
    BY <2>1, Phases
  <2>3. ~In("requests") \/ svc.todo = {}
    BY <1>3, Phases DEF NextPhase, IInv
  <2> QED
    BY <1>1, <1>3, <2>2, <2>3, EnterStepKeeps DEF NextPhase, At
<1>4. CASE TickThrows
  <2>1. 6 \notin 2 .. 5 /\ End # 1
    BY Phases
  <2> QED
    BY <1>1, <1>4, <2>1, Phases, EnterStepKeeps DEF TickThrows, Ticking, At
<1> QED
  BY <1>2, <1>3, <1>4

-----------------------------------------------------------------------------
(* The steps on one file. *)

\* The file that a scan has come to.
LEMMA ScannedFile ==
    ASSUME IInv, OnFile
    PROVE  /\ This \in File /\ This \in queued /\ receipt[This] = None /\ This \in svc.todo
           /\ svc.pc = "scan" /\ Reading /\ svc.send = {} /\ ~At("woken")
           /\ \A f : ~InHand(f)
           /\ svc.phase \in 1 .. 3
<1>1. svc.todo # {} /\ svc.pc = "scan" /\ ~In("tick")
  BY DEF OnFile, At
<1>2. Reading /\ svc.phase \in 1 .. 3
  BY <1>1, Phases DEF IInv, TodoAt, Reading, At
<1>3. svc.send = {} /\ ~At("woken") /\ \A f : ~InHand(f)
  BY <1>1 DEF IInv, SendAt, At, InHand, Busy
<1> QED
  BY <1>1, <1>2, <1>3, ThisIsToDo DEF IInv

\* The next item is taken: what was to do without the one in hand.
LEMMA NextItemState ==
    ASSUME IInv, NextItem, UNCHANGED outbox
    PROVE  /\ svc'.pc = "scan" /\ svc'.todo = svc.todo \ {This}
           /\ svc'.phase = svc.phase /\ svc'.send = svc.send
           /\ svc' \in SvcOver(outbox)
  BY DEF IInv, TypeOK, NextItem, SvcOver

\* The file in hand gets its receipt and is no longer to do.
LEMMA FileDone ==
    ASSUME IInv, Reading, svc.todo # {}, svc.pc \notin {"down", "loop"},
           NEW result \in {"ACCEPTED", "REJECTED"}, receipt' = [receipt EXCEPT ![This] = result],
           svc'.pc = "scan", svc'.todo = svc.todo \ {This}, svc'.phase = svc.phase, svc'.send = {},
           svc' \in SvcOver(outbox), UNCHANGED <<queued, runs, outbox, applied, stop>>,
           faults' \in FaultRow, faults'.crashes = faults.crashes, WakesArePaid',
           result = "ACCEPTED" => At("receipt")
    PROVE  IInv'
<1>1. UNCHANGED <<runs, outbox, applied>>
  OBVIOUS
<1>2. /\ svc'.pc = "scan" /\ svc'.todo = svc.todo \ {This}
      /\ svc'.phase = svc.phase /\ svc'.send = {}
      /\ svc' \in SvcOver(outbox)
  OBVIOUS
<1>3. This \in File /\ This \in queued /\ receipt[This] = None
  BY ThisIsToDo DEF IInv
<1>4. /\ receipt'[This] = result
      /\ \A f \in File \ {This} : receipt'[f] = receipt[f]
      /\ receipt' \in [File -> {None, "ACCEPTED", "REJECTED"}]
  BY <1>3 DEF IInv, TypeOK
<1>5. TypeOK'
  BY <1>1, <1>2, <1>4 DEF IInv, TypeOK, SvcOver, FaultRow
<1>6. \A f : ~InHand(f)'
  BY <1>2 DEF InHand, Busy
<1>7. \A p : In(p)' <=> In(p)
  BY <1>2 DEF In
<1>8. TodoAt'
  <2>1. svc'.phase # End /\ ~In("tick") /\ ~In("deliver")
    BY <1>2, Phases DEF IInv, Reading
  <2>2. svc.todo \subseteq Waiting(File)
    BY DEF IInv, TodoAt
  <2>3. svc.todo \ {This} \subseteq Waiting(File)'
    BY <1>4, <2>2 DEF Waiting
  <2> QED
    BY <1>2, <1>7, <2>1, <2>3, Phases DEF IInv, TodoAt, At, Busy, Reading
<1>9. SendAt'
  BY <1>2 DEF SendAt, At
<1>10. EffectsArePaid'
  <2>1. applied \in [File -> Nat] /\ faults.crashes \in Nat
    BY ServiceAssumption DEF IInv, TypeOK
  <2>2. result # None
    BY DEF None
  <2>3. \A f \in File : f # This => ~InHand(f)
    BY DEF InHand
  <2>4. \A f \in File : applied'[f] <= faults'.crashes + (IF receipt'[f] # None \/ InHand(f)' THEN 1 ELSE 0)
    <3>1. ASSUME NEW f \in File, f = This
          PROVE  applied[f] <= faults.crashes + 1
      BY <2>1, <3>1 DEF IInv, EffectsArePaid
    <3>2. ASSUME NEW f \in File, f # This
          PROVE  applied[f] <= faults.crashes + (IF receipt'[f] # None THEN 1 ELSE 0)
      BY <1>4, <2>1, <2>3, <3>2 DEF IInv, EffectsArePaid
    <3> QED
      BY <1>1, <1>4, <1>6, <2>1, <2>2, <3>1, <3>2
  <2>5. \A f \in Requests : applied'[f] > 0 /\ receipt'[f] = None =>
          f \in queued' /\ (At("down") \/ At("loop") \/ (In("requests") /\ f \in svc.todo))'
    <3>1. SUFFICES ASSUME NEW f \in Requests, applied[f] > 0, receipt'[f] = None
                   PROVE  f \in queued /\ In("requests") /\ f \in svc'.todo
      BY <1>1, <1>7
    <3>2. f # This /\ receipt[f] = None
      BY <1>4, <2>2, <3>1 DEF File
    <3>3. ~At("down") /\ ~At("loop")
      BY DEF At
    <3> QED
      BY <1>2, <3>1, <3>2, <3>3 DEF IInv, EffectsArePaid
  <2> QED
    BY <1>1, <2>4, <2>5 DEF IInv, EffectsArePaid
<1>11. CreatesAreSeen'
  <2>1. At("receipt") => InHand(This)
    BY DEF InHand, Busy, At
  <2>2. result = "ACCEPTED" /\ Content[This].type = "CREATE" => runs[Content[This].workflow].state # None
    BY <1>3, <2>1 DEF IInv, CreatesAreSeen
  <2> QED
    BY <1>1, <1>4, <1>6, <2>2 DEF IInv, CreatesAreSeen
<1>12. AnswersAreFinal'
  BY <1>1 DEF IInv, AnswersAreFinal, OneAnswerPerQuestion
<1> QED
  BY <1>5, <1>8, <1>9, <1>10, <1>11, <1>12 DEF IInv

\* A receipt is written and the next item taken.
LEMMA ReceiptKeeps ==
    ASSUME IInv, Reading, svc.todo # {}, svc.send = {}, ~At("woken"), svc.pc \in {"scan", "receipt"},
           NEW result \in {"ACCEPTED", "REJECTED"}, receipt' = [receipt EXCEPT ![This] = result],
           NextItem, UNCHANGED <<queued, store, stop, faults>>,
           result = "ACCEPTED" => At("receipt")
    PROVE  IInv'
<1>1. UNCHANGED <<queued, runs, outbox, applied, stop>>
  BY DEF store
<1>2. /\ svc'.pc = "scan" /\ svc'.todo = svc.todo \ {This}
      /\ svc'.phase = svc.phase /\ svc'.send = {}
      /\ svc' \in SvcOver(outbox)
  BY <1>1, NextItemState
<1>3. WakesArePaid'
  BY <1>1, <1>2 DEF IInv, WakesArePaid, At
<1>4. faults' \in FaultRow /\ faults'.crashes = faults.crashes
  BY DEF IInv, TypeOK, FaultRow
<1> QED
  BY <1>1, <1>2, <1>3, <1>4, FileDone

\* An effect takes place and its announcement is next.
LEMMA ApplyKeeps ==
    ASSUME IInv, OnFile, Apply, UNCHANGED <<queued, stop>>
    PROVE  IInv'
<1>1. /\ This \in File /\ This \in queued /\ receipt[This] = None /\ This \in svc.todo
      /\ svc.pc = "scan" /\ Reading /\ svc.send = {} /\ ~At("woken")
      /\ svc.phase \in 1 .. 3 /\ \A f : ~InHand(f)
  BY ScannedFile
<1>2. /\ Effect.can
      /\ runs' = [runs EXCEPT ![Asks.workflow] = Effect.run]
      /\ applied' = [applied EXCEPT ![This] = @ + 1]
      /\ svc' = [svc EXCEPT !.pc = "announce", !.note = Effect.note]
      /\ UNCHANGED <<receipt, outbox, faults>>
  BY DEF Apply
<1>3. /\ Asks.workflow \in Workflows /\ Run \in RunRow
      /\ Effect.run \in RunRow /\ Effect.run.state # None
      /\ Effect.run.asked = Run.asked /\ Effect.run.pending \in {0, Run.pending}
      /\ Effect.note \in Waking \cup Suppressed
      /\ Asks.type \notin {"INVALID", "UNSAFE"}
      /\ Asks.type = "CREATE" => Run.state = None
      /\ Asks.type = "ANSWER" => /\ Run.pending = Asks.decision /\ Effect.run.pending = 0
                                 /\ Asks.decision \in Nat \ {0}
  BY <1>2, EffectOnRun DEF IInv
<1>4. /\ svc'.pc = "announce" /\ svc'.todo = svc.todo /\ svc'.phase = svc.phase
      /\ svc'.send = {} /\ svc'.note = Effect.note
      /\ svc' \in SvcOver(outbox)
  BY <1>1, <1>2, <1>3 DEF IInv, TypeOK, SvcOver
<1>5. runs \in [Workflows -> RunRow] /\ applied \in [File -> Nat] /\ faults.crashes \in Nat
  BY ServiceAssumption DEF IInv, TypeOK, RunRow
<1>6. /\ runs' \in [Workflows -> RunRow] /\ runs'[Asks.workflow] = Effect.run
      /\ \A w \in Workflows : w # Asks.workflow => runs'[w] = runs[w]
  BY <1>2, <1>3, <1>5
<1>7. /\ applied' \in [File -> Nat] /\ applied'[This] = applied[This] + 1
      /\ \A f \in File : f # This => applied'[f] = applied[f]
  BY <1>1, <1>2, <1>5
<1>8. TypeOK'
  BY <1>2, <1>4, <1>6, <1>7 DEF IInv, TypeOK, SvcOver, RunRow
<1>9. (\A p : In(p)' <=> In(p)) /\ This' = This /\ (Reading' <=> Reading)
  BY <1>4, SameItem DEF In
<1>10. \A f : InHand(f)' <=> f = This
  BY <1>1, <1>4, <1>9 DEF InHand, Busy
<1>11. TodoAt'
  <2>1. Waiting(File)' = Waiting(File)
    BY <1>2 DEF Waiting
  <2>2. svc'.phase # End /\ ~In("tick") /\ ~In("deliver") /\ svc.todo # {}
    BY <1>1, <1>4, Phases DEF IInv, Reading
  <2> QED
    BY <1>1, <1>4, <1>9, <2>1, <2>2 DEF IInv, TodoAt, At, Busy
<1>12. SendAt'
  <2>1. Effect.note # None
    BY <1>3 DEF Waking, Suppressed, None
  <2> QED
    BY <1>4, <2>1 DEF SendAt, At
<1>13. applied[This] <= faults.crashes
  BY <1>1, <1>5 DEF IInv, EffectsArePaid
<1>14. EffectsArePaid'
  <2>1. \A f \in File : applied'[f] <= faults'.crashes + (IF receipt'[f] # None \/ InHand(f)' THEN 1 ELSE 0)
    <3>1. ASSUME NEW f \in File, f # This
          PROVE  applied[f] <= faults.crashes + (IF receipt[f] # None THEN 1 ELSE 0)
      BY <1>1, <1>5 DEF IInv, EffectsArePaid
    <3> QED
      BY <1>2, <1>5, <1>7, <1>10, <1>13, <3>1
  <2>2. \A f \in File : applied'[f] > 0 => Content[f].type \notin {"INVALID", "UNSAFE"}
    BY <1>3, <1>7 DEF IInv, EffectsArePaid, Asks
  <2>3. \A f \in Requests : applied'[f] > 0 /\ receipt'[f] = None =>
          f \in queued' /\ (At("down") \/ At("loop") \/ (In("requests") /\ f \in svc.todo))'
    <3>1. SUFFICES ASSUME NEW f \in Requests, applied'[f] > 0, receipt[f] = None
                   PROVE  f \in queued /\ In("requests") /\ f \in svc.todo
      BY <1>2, <1>4, <1>9
    <3>2. CASE f = This
      <4>1. ~In("approvals") /\ ~In("controls")
        BY <1>1, <3>2, ServiceAssumption DEF IInv, TodoAt
      <4> QED
        BY <1>1, <3>2, <4>1 DEF Reading
    <3>3. CASE f # This
      BY <1>1, <1>7, <3>1, <3>3 DEF IInv, EffectsArePaid, At, File
    <3> QED
      BY <3>2, <3>3
  <2> QED
    BY <2>1, <2>2, <2>3 DEF EffectsArePaid
<1>15. CreatesAreSeen'
  <2>1. SUFFICES ASSUME NEW f \in File, Content[f].type = "CREATE"
                 PROVE  /\ applied'[f] <= 1
                        /\ applied'[f] > 0 \/ receipt[f] = "ACCEPTED" \/ f = This =>
                              runs'[Content[f].workflow].state # None
    BY <1>2, <1>10 DEF CreatesAreSeen
  <2>2. Content[f].workflow \in Workflows
    BY ServiceAssumption
  <2>3. CASE f = This
    <3>1. Run.state = None /\ Content[f].workflow = Asks.workflow
      BY <1>3, <2>1, <2>3 DEF Asks
    <3>2. applied[f] = 0
      BY <1>5, <2>1, <3>1 DEF IInv, CreatesAreSeen, Run
    <3> QED
      BY <1>3, <1>6, <1>7, <2>3, <3>1, <3>2
  <2>4. CASE f # This
    BY <1>3, <1>6, <1>7, <2>1, <2>2, <2>4 DEF IInv, CreatesAreSeen
  <2> QED
    BY <2>3, <2>4
<1>16. AnswersAreFinal'
  <2>1. \A w \in Workflows : /\ runs'[w].asked = runs[w].asked
                             /\ runs'[w].pending \in {0, runs[w].pending}
                             /\ runs[w].asked \in Nat /\ runs[w].pending \in Nat
    BY <1>3, <1>5, <1>6 DEF Run, RunRow
  <2>2. \A w \in Workflows : runs'[w].pending <= runs'[w].asked
    BY <2>1 DEF IInv, AnswersAreFinal
  <2>3. \A f \in File : Content[f].type = "ANSWER" =>
          /\ Content[f].workflow \in Workflows /\ Content[f].decision \in Nat \ {0}
    BY ServiceAssumption
  <2>4. Asks.type = "ANSWER" => applied[This] = 0 /\ Asks.decision <= Run.asked
    BY <1>1, <1>3, <1>5, <2>1, <2>3 DEF IInv, AnswersAreFinal, Asks, Run
  <2>5. ASSUME NEW f \in File, Content[f].type = "ANSWER"
        PROVE  /\ applied'[f] <= 1
               /\ applied'[f] > 0 => /\ Content[f].decision <= runs'[Content[f].workflow].asked
                                     /\ Content[f].decision # runs'[Content[f].workflow].pending
    <3>1. CASE f = This
      BY <1>3, <1>6, <1>7, <2>1, <2>3, <2>4, <2>5, <3>1 DEF Asks, Run
    <3>2. CASE f # This
      BY <1>7, <2>1, <2>3, <2>5, <3>2 DEF IInv, AnswersAreFinal
    <3> QED
      BY <3>1, <3>2
  <2>6. ASSUME NEW f \in File, Content[f].type = "ANSWER", Asks.type = "ANSWER", applied[f] > 0,
               Content[f].workflow = Asks.workflow
        PROVE  Content[f].decision # Asks.decision
    <3>1. runs[Asks.workflow].pending = Asks.decision
      BY <1>3, <2>6 DEF Run
    <3>2. Content[f].decision # runs[Content[f].workflow].pending
      BY <2>6 DEF IInv, AnswersAreFinal
    <3> QED
      BY <2>6, <3>1, <3>2
  <2>7. OneAnswerPerQuestion'
    BY <1>7, <2>6 DEF IInv, AnswersAreFinal, OneAnswerPerQuestion, Asks
  <2> QED
    BY <2>2, <2>5, <2>7 DEF AnswersAreFinal
<1>17. WakesArePaid'
  BY <1>1, <1>2, <1>4 DEF IInv, WakesArePaid, At
<1> QED
  BY <1>8, <1>11, <1>12, <1>14, <1>15, <1>16, <1>17 DEF IInv

\* A file that is read is applied, refused, found done, or ends the scan.
LEMMA FileKeeps ==
    ASSUME IInv, ProcessRequest \/ ProcessApprovalCommand \/ ProcessControlCommand
    PROVE  IInv'
<1>1. OnFile /\ UNCHANGED <<queued, stop>>
  BY DEF ProcessRequest, ProcessApprovalCommand, ProcessControlCommand
<1>2. /\ This \in File /\ This \in queued /\ receipt[This] = None /\ This \in svc.todo
      /\ svc.pc = "scan" /\ Reading /\ svc.send = {} /\ ~At("woken")
      /\ svc.phase \in 1 .. 3 /\ \A f : ~InHand(f)
  BY <1>1, ScannedFile
<1>3. CASE Reject
  BY <1>1, <1>2, <1>3, ReceiptKeeps DEF Reject
<1>4. CASE Apply
  BY <1>1, <1>4, ApplyKeeps
<1>5. CASE UnsafeRequest
  <2>1. stop' \in BOOLEAN /\ End \in 1 .. End /\ End # 1 /\ End \notin 2 .. 5
    BY <1>1, Phases DEF IInv, TypeOK
  <2> QED
    BY <1>1, <1>2, <1>5, <2>1, EnterStepKeeps DEF UnsafeRequest
<1>6. CASE NothingToChange
  <2>1. /\ Already /\ svc' = [svc EXCEPT !.pc = "receipt"]
        /\ UNCHANGED <<queued, receipt, store, faults>> /\ UNCHANGED <<runs, outbox, applied>>
    BY <1>1, <1>6 DEF NothingToChange, store
  <2>2. /\ svc'.pc = "receipt" /\ svc'.todo = svc.todo /\ svc'.phase = svc.phase /\ svc'.send = {}
        /\ svc' \in SvcOver(outbox)
    BY <1>2, <2>1 DEF IInv, TypeOK, SvcOver
  <2>3. TypeOK'
    BY <1>1, <2>1, <2>2 DEF IInv, TypeOK, SvcOver
  <2>4. (\A p : In(p)' <=> In(p)) /\ This' = This /\ (Reading' <=> Reading)
    BY <2>2, SameItem DEF In
  <2>5. TodoAt'
    <3>1. svc'.phase # End /\ ~In("tick") /\ ~In("deliver") /\ svc.todo # {}
      BY <1>2, <2>2, Phases DEF IInv, Reading
    <3> QED
      BY <1>2, <2>1, <2>2, <2>4, <3>1 DEF IInv, TodoAt, At, Busy, Waiting
  <2>6. SendAt'
    BY <2>2 DEF SendAt, At
  <2>7. Asks.type # "CREATE"
    BY <2>1 DEF Already
  <2>8. \A f \in File : InHand(f)' => Content[f].type # "CREATE"
    BY <2>4, <2>7 DEF InHand, Asks
  <2>9. \A f \in Requests : applied[f] > 0 /\ receipt[f] = None =>
          (At("down") \/ At("loop") \/ (In("requests") /\ f \in svc.todo))'
    BY <1>2, <2>2, <2>4 DEF IInv, EffectsArePaid, At
  <2>10. ~At("woken")' /\ ~At("woken")
    BY <1>2, <2>2 DEF At
  <2>11. EffectsArePaid' /\ CreatesAreSeen' /\ AnswersAreFinal' /\ WakesArePaid'
    BY <1>2, <2>1, <2>8, <2>9, <2>10, StoreKept
  <2> QED
    BY <2>3, <2>5, <2>6, <2>11 DEF IInv
<1> QED
  BY <1>3, <1>4, <1>5, <1>6 DEF ProcessRequest, ProcessApprovalCommand, ProcessControlCommand

\* The receipt of a file that was applied, or had nothing to change.
LEMMA WriteReceiptKeeps ==
    ASSUME IInv, WriteReceipt
    PROVE  IInv'
<1>1. Reading /\ svc.todo # {} /\ svc.send = {} /\ ~At("woken") /\ svc.pc = "receipt"
  BY Phases DEF WriteReceipt, IInv, TodoAt, SendAt, At, Busy, Reading
<1> QED
  BY <1>1, ReceiptKeeps DEF WriteReceipt, At

-----------------------------------------------------------------------------
(* The ticks. *)

\* The run that a tick has come to.
LEMMA TickedRun ==
    ASSUME IInv, Ticking
    PROVE  /\ This \in svc.todo /\ This \in Workflows
           /\ svc.pc = "scan" /\ svc.phase = 4 /\ ~Reading /\ svc.send = {} /\ ~At("woken")
           /\ \A f \in Requests : applied[f] > 0 => receipt[f] # None
<1>1. svc.todo # {} /\ svc.pc = "scan" /\ In("tick") /\ svc.phase = 4
  BY Phases DEF Ticking, At, IInv
<1>2. svc.send = {} /\ ~Reading /\ ~In("requests")
  BY <1>1, Phases DEF IInv, SendAt, Reading
<1>3. \A f \in Requests : applied[f] > 0 => receipt[f] # None
  BY <1>1, <1>2 DEF IInv, EffectsArePaid, At
<1> QED
  BY <1>1, <1>2, <1>3, ThisIsToDo DEF IInv, At

\* A tick that changes nothing, or an announcement of a tick that is done.
LEMMA TickDoneKeeps ==
    ASSUME IInv, In("tick"), svc.todo # {}, svc.send = {}, ~At("woken"), NextItem,
           svc.pc \in {"scan", "send"}, UNCHANGED <<queued, receipt, store, stop, faults>>
    PROVE  IInv'
<1>1. UNCHANGED <<runs, outbox, applied>>
  BY DEF store
<1>2. /\ svc'.pc = "scan" /\ svc'.todo = svc.todo \ {This}
      /\ svc'.phase = svc.phase /\ svc'.send = {}
      /\ svc' \in SvcOver(outbox)
  BY <1>1, NextItemState
<1>3. TypeOK'
  BY <1>1, <1>2 DEF IInv, TypeOK, SvcOver
<1>4. \A p : In(p)' <=> In(p)
  BY <1>2 DEF In
<1>5. svc.phase = 4 /\ ~Reading /\ ~Reading' /\ ~In("requests") /\ ~In("deliver")
  BY <1>4, Phases DEF IInv, Reading
<1>6. TodoAt' /\ SendAt'
  BY <1>2, <1>4, <1>5, Phases DEF IInv, TodoAt, SendAt, At, Busy, Reading
<1>7. \A f \in Requests : applied[f] > 0 => receipt[f] # None
  BY <1>5 DEF IInv, EffectsArePaid, At
<1>8. EffectsArePaid' /\ CreatesAreSeen' /\ AnswersAreFinal' /\ WakesArePaid'
  <2>1. \A f \in File : ~InHand(f) /\ ~InHand(f)'
    BY <1>5 DEF InHand
  <2>2. ~At("woken")'
    BY <1>2 DEF At
  <2> QED
    BY <1>7, <2>1, <2>2, StoreKept
<1> QED
  BY <1>3, <1>6, <1>8 DEF IInv

\* A tick that asks a question or ends its run.
LEMMA TickedKeeps ==
    ASSUME IInv, TickAsks \/ TickFinishes
    PROVE  IInv'
<1>1. /\ This \in svc.todo /\ This \in Workflows
      /\ svc.pc = "scan" /\ svc.phase = 4 /\ ~Reading /\ svc.send = {} /\ ~At("woken")
      /\ \A f \in Requests : applied[f] > 0 => receipt[f] # None
  BY TickedRun DEF TickAsks, TickFinishes
<1>2. runs \in [Workflows -> RunRow]
  BY DEF IInv, TypeOK, RunRow
<1>3. PICK r \in RunRow, type \in Waking :
        /\ runs' = [runs EXCEPT ![This] = r]
        /\ svc' = [svc EXCEPT !.pc = "announce", !.note = type]
        /\ UNCHANGED <<queued, receipt, outbox, applied, stop, faults>>
        /\ r.state # None
        /\ \/ r.pending = runs[This].pending /\ r.asked = runs[This].asked
           \/ r.pending = runs[This].asked + 1 /\ r.asked = runs[This].asked + 1
  <2>1. runs[This] \in RunRow
    BY <1>1, <1>2
  <2>2. CASE TickAsks
    <3> DEFINE r == [state |-> "WAITING_HUMAN", pending |-> runs[This].asked + 1,
                     asked |-> runs[This].asked + 1]
    <3>1. Ticked(r, "HUMAN_APPROVAL_REQUIRED")
      BY <2>2 DEF TickAsks
    <3>2. r \in RunRow /\ r.state # None
      BY <2>1 DEF RunRow, None
    <3>3. r.pending = runs[This].asked + 1 /\ r.asked = runs[This].asked + 1
      OBVIOUS
    <3>4. "HUMAN_APPROVAL_REQUIRED" \in Waking
      BY DEF Waking
    <3> HIDE DEF r
    <3> QED
      BY <3>1, <3>2, <3>3, <3>4 DEF Ticked
  <2>3. CASE TickFinishes
    <3> DEFINE r == [runs[This] EXCEPT !.state = "TERMINAL"]
    <3>1. Ticked(r, "WORKFLOW_TERMINAL")
      BY <2>3 DEF TickFinishes
    <3>2. r \in RunRow /\ r.state # None
      BY <2>1 DEF RunRow, None
    <3>3. r.pending = runs[This].pending /\ r.asked = runs[This].asked
      BY <2>1 DEF RunRow
    <3>4. "WORKFLOW_TERMINAL" \in Waking
      BY DEF Waking
    <3> HIDE DEF r
    <3> QED
      BY <3>1, <3>2, <3>3, <3>4 DEF Ticked
  <2> QED
    BY <2>2, <2>3
<1>4. /\ svc'.pc = "announce" /\ svc'.todo = svc.todo /\ svc'.phase = svc.phase
      /\ svc'.send = {} /\ svc'.note = type /\ svc' \in SvcOver(outbox)
  BY <1>1, <1>3 DEF IInv, TypeOK, SvcOver
<1>5. /\ runs' \in [Workflows -> RunRow] /\ runs'[This] = r
      /\ \A w \in Workflows : w # This => runs'[w] = runs[w]
  BY <1>1, <1>2, <1>3
<1>6. TypeOK'
  BY <1>3, <1>4, <1>5 DEF IInv, TypeOK, SvcOver, RunRow
<1>7. (\A p : In(p)' <=> In(p)) /\ ~Reading'
  BY <1>1, <1>4, SameItem DEF In
<1>8. ~In("requests") /\ ~In("deliver") /\ In("tick") /\ svc.phase # End
  BY <1>1, Phases DEF IInv
<1>9. TodoAt'
  BY <1>1, <1>4, <1>7, <1>8 DEF IInv, TodoAt, At, Busy
<1>10. SendAt'
  BY <1>4 DEF SendAt, At, Waking, None
<1>11. \A f : ~InHand(f) /\ ~InHand(f)'
  BY <1>1, <1>7 DEF InHand
<1>12. EffectsArePaid'
  <2>1. applied \in [File -> Nat] /\ faults.crashes \in Nat
    BY ServiceAssumption DEF IInv, TypeOK
  <2> QED
    BY <1>1, <1>3, <1>11, <2>1 DEF IInv, EffectsArePaid
<1>13. CreatesAreSeen'
  <2>1. \A w \in Workflows : runs[w].state # None => runs'[w].state # None
    BY <1>3, <1>5
  <2> QED
    BY <1>3, <1>11, <2>1, ServiceAssumption DEF IInv, CreatesAreSeen
<1>14. AnswersAreFinal'
  <2>1. \A w \in Workflows :
          /\ runs[w].asked \in Nat /\ runs[w].pending \in Nat
          /\ \/ runs'[w].pending = runs[w].pending /\ runs'[w].asked = runs[w].asked
             \/ runs'[w].pending = runs[w].asked + 1 /\ runs'[w].asked = runs[w].asked + 1
    BY <1>2, <1>3, <1>5 DEF RunRow
  <2>2. \A w \in Workflows : runs'[w].pending <= runs'[w].asked
    BY <2>1 DEF IInv, AnswersAreFinal
  <2>3. ASSUME NEW f \in File, Content[f].type = "ANSWER", applied[f] > 0
        PROVE  /\ Content[f].decision <= runs'[Content[f].workflow].asked
               /\ Content[f].decision # runs'[Content[f].workflow].pending
    <3>1. Content[f].workflow \in Workflows /\ Content[f].decision \in Nat \ {0}
      BY <2>3, ServiceAssumption
    <3>2. /\ Content[f].decision <= runs[Content[f].workflow].asked
          /\ Content[f].decision # runs[Content[f].workflow].pending
      BY <2>3 DEF IInv, AnswersAreFinal
    <3> QED
      BY <2>1, <3>1, <3>2
  <2> QED
    BY <1>3, <2>2, <2>3 DEF IInv, AnswersAreFinal, OneAnswerPerQuestion
<1>15. WakesArePaid'
  BY <1>1, <1>3, <1>4 DEF IInv, WakesArePaid, At
<1> QED
  BY <1>6, <1>9, <1>10, <1>12, <1>13, <1>14, <1>15 DEF IInv

-----------------------------------------------------------------------------
(* The outbox. *)

\* A step of a delivery round: what it keeps, whatever it does to the outbox.
LEMMA RoundStep ==
    ASSUME IInv, svc.pc \in {"announce", "send", "woken"}, svc'.pc \in {"send", "woken"},
           svc' \in SvcOver(outbox'), svc'.todo = svc.todo, svc'.phase = svc.phase,
           outbox' \in Seq(Notification), UNCHANGED <<queued, receipt, runs, applied, stop>>,
           faults' \in FaultRow,
           faults'.crashes = faults.crashes,
           At("announce") => ~In("deliver")
    PROVE  TypeOK' /\ TodoAt' /\ EffectsArePaid' /\ CreatesAreSeen' /\ AnswersAreFinal'
<1>1. TypeOK'
  BY DEF IInv, TypeOK, SvcOver, FaultRow
<1>2. (\A p : In(p)' <=> In(p)) /\ This' = This /\ (Reading' <=> Reading)
  BY SameItem DEF In
<1>3. \A f : InHand(f)' <=> InHand(f)
  BY <1>2 DEF InHand, Busy
<1>4. TodoAt'
  <2>1. svc.pc \in Busy /\ ~At("down") /\ ~At("loop") /\ Waiting(File)' = Waiting(File)
    BY DEF Busy, At, Waiting
  <2> QED
    BY <1>2, <2>1 DEF IInv, TodoAt, At, Busy
<1>5. EffectsArePaid'
  BY <1>2, <1>3 DEF IInv, EffectsArePaid, At
<1>6. CreatesAreSeen' /\ AnswersAreFinal'
  BY <1>3 DEF IInv, CreatesAreSeen, AnswersAreFinal, OneAnswerPerQuestion
<1> QED
  BY <1>1, <1>4, <1>5, <1>6

\* An announcement is queued; its round holds no other row.
LEMMA QueueKeeps ==
    ASSUME IInv, Queue
    PROVE  IInv'
<1>1. /\ svc.pc = "announce" /\ svc.note \in Waking \cup Suppressed /\ ~In("deliver")
      /\ ~At("woken") /\ svc.send = {}
  BY DEF Queue, IInv, TypeOK, TodoAt, SendAt, At
<1> DEFINE row  == [workflow |-> Workflow, type |-> svc.note, status |-> "PENDING",
                   attempts |-> 0, wakes |-> 0]
           send == IF Cardinality(Round) < Limit THEN {Len(outbox) + 1} ELSE {}
<1>2. /\ outbox' = Append(outbox, row)
      /\ svc' = [svc EXCEPT !.pc = "send", !.note = None, !.send = send]
      /\ UNCHANGED <<queued, receipt, runs, applied, stop, faults>>
  BY DEF Queue
<1>3. row \in Notification
  <2>1. Workflow \in Workflows
    <3>1. svc.todo # {}
      BY <1>1 DEF IInv, TodoAt, Busy
    <3>2. CASE In("tick")
      BY <3>1, <3>2, ThisIsToDo DEF IInv, Workflow
    <3>3. CASE ~In("tick")
      <4>1. Reading
        BY <1>1, <3>3, Phases DEF IInv, Reading, TodoAt, At
      <4>2. This \in File
        BY <3>1, <4>1, ThisIsToDo DEF IInv
      <4> QED
        BY <3>3, <4>2, ServiceAssumption DEF Workflow, Asks
    <3> QED
      BY <3>2, <3>3
  <2> QED
    BY <1>1, <2>1 DEF Notification
<1>4. send \in SUBSET {Len(outbox) + 1}
  OBVIOUS
<1>5. row.status = "PENDING" /\ row.wakes = 0 /\ row.attempts = 0
  OBVIOUS
<1> HIDE DEF row, send
<1>6. /\ outbox \in Seq(Notification) /\ Len(outbox) \in Nat
      /\ DOMAIN outbox = 1 .. Len(outbox)
  BY DEF IInv, TypeOK
<1>7. /\ outbox' \in Seq(Notification)
      /\ DOMAIN outbox' = 1 .. Len(outbox) + 1
      /\ outbox'[Len(outbox) + 1] = row
      /\ \A n \in 1 .. Len(outbox) : outbox'[n] = outbox[n]
  BY <1>2, <1>3, <1>6, AppendProperties
<1>8. /\ svc'.pc = "send" /\ svc'.send = send /\ svc'.todo = svc.todo /\ svc'.phase = svc.phase
      /\ svc' \in SvcOver(outbox')
  <2>1. send \in SUBSET DOMAIN outbox'
    BY <1>4, <1>6, <1>7
  <2>2. svc \in SvcOver(outbox)
    BY DEF IInv, TypeOK, SvcOver
  <2> QED
    BY <1>2, <2>1, <2>2 DEF SvcOver
<1>9. TypeOK' /\ TodoAt' /\ EffectsArePaid' /\ CreatesAreSeen' /\ AnswersAreFinal'
  <2>1. /\ faults' \in FaultRow
        /\ faults'.crashes = faults.crashes
    BY <1>2 DEF IInv, TypeOK, FaultRow
  <2> QED
    BY <1>1, <1>2, <1>7, <1>8, <2>1, RoundStep
<1>10. SendAt'
  BY <1>4, <1>5, <1>7, <1>8 DEF SendAt, At
<1>11. WakesArePaid'
  <2>1. faults.crashes \in Nat /\ faults.writes \in Nat
    BY ServiceAssumption DEF IInv, TypeOK
  <2>2. ASSUME NEW n \in DOMAIN outbox'
        PROVE  /\ outbox'[n].wakes <= outbox'[n].attempts + faults.crashes + faults.writes
               /\ outbox'[n].status = "DELIVERED" => outbox'[n].attempts > 0
    <3>1. CASE n = Len(outbox) + 1
      BY <1>5, <1>7, <2>1, <3>1
    <3>2. CASE n # Len(outbox) + 1
      <4>1. n \in DOMAIN outbox /\ outbox'[n] = outbox[n]
        BY <1>6, <1>7, <3>2
      <4>2. outbox[n].wakes \in Nat /\ outbox[n].attempts \in Nat
        BY <4>1, RowCounts DEF IInv
      <4> QED
        BY <1>1, <2>1, <4>1, <4>2 DEF IInv, WakesArePaid
    <3> QED
      BY <3>1, <3>2
  <2>3. \A n \in DOMAIN outbox' : outbox'[n].wakes \in Nat /\ outbox'[n].attempts \in Nat
    BY <1>9, RowCountsPrime
  <2>4. ~At("woken")'
    BY <1>8 DEF At
  <2> QED
    BY <1>2, <2>1, <2>2, <2>3, <2>4 DEF WakesArePaid
<1> QED
  BY <1>9, <1>10, <1>11 DEF IInv

\* A row is updated and leaves the round, with a turn of the Manager before it or not.
LEMMA UpdateKeeps ==
    ASSUME IInv, NEW status \in {"FAILED", "DELIVERED"}, Update(status),
           Sending \/ At("woken"), faults' \in FaultRow,
           faults'.crashes = faults.crashes, faults'.writes = faults.writes
    PROVE  IInv'
<1>1. /\ outbox' = [outbox EXCEPT ![Oldest].status = status, ![Oldest].attempts = @ + 1]
      /\ svc' = [svc EXCEPT !.pc = "send", !.send = @ \ {Oldest}]
      /\ UNCHANGED <<queued, receipt, runs, applied, stop>>
  BY DEF Update
<1>2. svc.send # {} /\ svc.pc \in {"send", "woken"}
  BY DEF Sending, IInv, SendAt, At
<1>3. Oldest \in svc.send /\ Oldest \in DOMAIN outbox /\ outbox[Oldest] \in Notification
  BY <1>2, OldestIsToSend DEF IInv
<1>4. /\ outbox \in Seq(Notification) /\ Len(outbox) \in Nat
      /\ DOMAIN outbox = 1 .. Len(outbox) /\ \A n \in DOMAIN outbox : outbox[n] \in Notification
  BY DEF IInv, TypeOK
<1> DEFINE row == [outbox[Oldest] EXCEPT !.status = status, !.attempts = @ + 1]
<1>5. /\ row \in Notification
      /\ row.status = status /\ row.wakes = outbox[Oldest].wakes
      /\ row.attempts = outbox[Oldest].attempts + 1
  <2>1. ASSUME NEW q \in Notification, NEW k \in Nat
        PROVE  LET z == [q EXCEPT !.status = status, !.attempts = k]
               IN z \in Notification /\ z.status = status /\ z.wakes = q.wakes /\ z.attempts = k
    BY DEF Notification
  <2>2. outbox[Oldest].attempts + 1 \in Nat
    BY <1>3 DEF Notification
  <2> QED
    BY <1>3, <2>1, <2>2
<1>6. /\ outbox' \in Seq(Notification)
      /\ DOMAIN outbox' = DOMAIN outbox
      /\ outbox'[Oldest].status = status /\ outbox'[Oldest].wakes = outbox[Oldest].wakes
      /\ outbox'[Oldest].attempts = outbox[Oldest].attempts + 1
      /\ \A n \in DOMAIN outbox : n # Oldest => outbox'[n] = outbox[n]
  <2>1. outbox' = [outbox EXCEPT ![Oldest] = row]
    BY <1>1, <1>3, <1>4
  <2> HIDE DEF row
  <2>2. outbox' \in Seq(Notification) /\ DOMAIN outbox' = DOMAIN outbox
    BY <1>3, <1>4, <1>5, <2>1
  <2>3. outbox'[Oldest] = row /\ \A n \in DOMAIN outbox : n # Oldest => outbox'[n] = outbox[n]
    BY <1>3, <2>1
  <2> QED
    BY <1>5, <2>2, <2>3
<1> HIDE DEF row
<1>7. /\ svc'.pc = "send" /\ svc'.send = svc.send \ {Oldest}
      /\ svc'.todo = svc.todo /\ svc'.phase = svc.phase
      /\ svc' \in SvcOver(outbox')
  <2>1. svc \in SvcOver(outbox)
    BY DEF IInv, TypeOK, SvcOver
  <2> QED
    BY <1>1, <1>6, <2>1 DEF SvcOver
<1>8. TypeOK' /\ TodoAt' /\ EffectsArePaid' /\ CreatesAreSeen' /\ AnswersAreFinal'
  BY <1>1, <1>2, <1>6, <1>7, RoundStep DEF At
<1>9. SendAt'
  <2>1. \A n \in svc.send \ {Oldest} : n \in DOMAIN outbox /\ outbox'[n] = outbox[n]
    BY <1>6 DEF IInv, TypeOK
  <2> QED
    BY <1>7, <2>1 DEF IInv, SendAt, At
<1>10. WakesArePaid'
  <2>1. /\ faults.crashes \in Nat /\ faults.writes \in Nat
        /\ \A n \in DOMAIN outbox : outbox[n].wakes \in Nat /\ outbox[n].attempts \in Nat
    BY RowCounts, ServiceAssumption DEF IInv, TypeOK
  <2>2. ASSUME NEW n \in DOMAIN outbox
        PROVE  /\ outbox'[n].wakes <= outbox'[n].attempts + faults.crashes + faults.writes
               /\ outbox'[n].status = "DELIVERED" => outbox'[n].attempts > 0
    <3>1. CASE n = Oldest
      BY <1>6, <2>1, <3>1 DEF IInv, WakesArePaid
    <3>2. CASE n # Oldest
      BY <1>6, <2>1, <3>2 DEF IInv, WakesArePaid
    <3> QED
      BY <3>1, <3>2
  <2>3. \A n \in DOMAIN outbox : outbox'[n].wakes \in Nat /\ outbox'[n].attempts \in Nat
    BY <1>6, <1>8, RowCountsPrime
  <2>4. ~At("woken")'
    BY <1>7 DEF At
  <2> QED
    BY <1>6, <2>1, <2>2, <2>3, <2>4 DEF WakesArePaid
<1> QED
  BY <1>8, <1>9, <1>10 DEF IInv

\* The Manager's turn runs for the oldest row of the round.
LEMMA WakeKeeps ==
    ASSUME IInv, Wake
    PROVE  IInv'
<1>1. /\ svc.pc = "send" /\ svc.send # {} /\ ~At("woken")
      /\ outbox' = [outbox EXCEPT ![Oldest].wakes = @ + 1]
      /\ svc' = [svc EXCEPT !.pc = "woken"]
      /\ UNCHANGED <<queued, receipt, runs, applied, stop, faults>>
  BY DEF Wake, Sending, At
<1>2. Oldest \in svc.send /\ Oldest \in DOMAIN outbox /\ outbox[Oldest] \in Notification
  BY <1>1, OldestIsToSend DEF IInv
<1>3. /\ outbox \in Seq(Notification) /\ DOMAIN outbox \subseteq Nat
      /\ \A n \in DOMAIN outbox : outbox[n] \in Notification
  BY DEF IInv, TypeOK
<1>4. [outbox[Oldest] EXCEPT !.wakes = @ + 1] \in Notification
  BY <1>2 DEF Notification
<1>5. /\ outbox' \in Seq(Notification)
      /\ DOMAIN outbox' = DOMAIN outbox
      /\ outbox'[Oldest].status = outbox[Oldest].status
      /\ outbox'[Oldest].wakes = outbox[Oldest].wakes + 1
      /\ outbox'[Oldest].attempts = outbox[Oldest].attempts
      /\ \A n \in DOMAIN outbox : n # Oldest => outbox'[n] = outbox[n]
  <2>1. outbox' = [outbox EXCEPT ![Oldest] = [outbox[Oldest] EXCEPT !.wakes = @ + 1]]
    BY <1>1
  <2>2. outbox' \in Seq(Notification) /\ DOMAIN outbox' = DOMAIN outbox
    BY <1>2, <1>3, <1>4, <2>1
  <2>3. outbox'[Oldest] = [outbox[Oldest] EXCEPT !.wakes = @ + 1]
    BY <1>2, <2>1
  <2> QED
    BY <1>2, <2>1, <2>2, <2>3 DEF Notification
<1>6. /\ svc'.pc = "woken" /\ svc'.send = svc.send /\ svc'.todo = svc.todo
      /\ svc'.phase = svc.phase /\ svc' \in SvcOver(outbox')
  <2>1. svc \in SvcOver(outbox)
    BY DEF IInv, TypeOK, SvcOver
  <2> QED
    BY <1>1, <1>5, <2>1 DEF SvcOver
<1>7. TypeOK' /\ TodoAt' /\ EffectsArePaid' /\ CreatesAreSeen' /\ AnswersAreFinal'
  <2>1. /\ faults' \in FaultRow
        /\ faults'.crashes = faults.crashes
    BY <1>1 DEF IInv, TypeOK, FaultRow
  <2> QED
    BY <1>1, <1>5, <1>6, <2>1, RoundStep DEF At
<1>8. SendAt'
  <2>1. \A n \in svc.send : n \in DOMAIN outbox /\ outbox'[n].status = outbox[n].status
    BY <1>5 DEF IInv, TypeOK
  <2> QED
    BY <1>1, <1>6, <2>1 DEF IInv, SendAt, At
<1>9. WakesArePaid'
  <2>1. /\ faults.crashes \in Nat /\ faults.writes \in Nat
        /\ \A n \in DOMAIN outbox : outbox[n].wakes \in Nat /\ outbox[n].attempts \in Nat
    BY RowCounts, ServiceAssumption DEF IInv, TypeOK
  <2>2. Oldest' = Oldest /\ At("woken")'
    BY <1>6 DEF Oldest, At
  <2>3. ASSUME NEW n \in DOMAIN outbox
        PROVE  /\ outbox'[n].wakes <= outbox'[n].attempts + faults.crashes + faults.writes
                                      + (IF n = Oldest THEN 1 ELSE 0)
               /\ outbox'[n].status = "DELIVERED" => outbox'[n].attempts > 0
    <3>1. /\ outbox[n].wakes <= outbox[n].attempts + faults.crashes + faults.writes
          /\ outbox[n].status = "DELIVERED" => outbox[n].attempts > 0
      BY <1>1, <2>1 DEF IInv, WakesArePaid
    <3>2. CASE n = Oldest
      BY <1>5, <2>1, <3>1, <3>2
    <3>3. CASE n # Oldest
      BY <1>5, <2>1, <3>1, <3>3
    <3> QED
      BY <3>2, <3>3
  <2> QED
    BY <1>1, <1>5, <2>1, <2>2, <2>3 DEF WakesArePaid
<1> QED
  BY <1>7, <1>8, <1>9 DEF IInv

\* The round of an announcement is over: the receipt is next, or the next run.
LEMMA AnnouncedKeeps ==
    ASSUME IInv, Announced
    PROVE  IInv'
<1>1. /\ svc.pc = "send" /\ svc.send = {} /\ ~In("deliver") /\ ~At("woken")
      /\ UNCHANGED <<queued, receipt, store, stop, faults>>
      /\ UNCHANGED <<runs, outbox, applied>>
      /\ svc.todo # {}
  BY DEF Announced, At, store, IInv, TodoAt, Busy
<1>2. CASE In("tick")
  BY <1>1, <1>2, TickDoneKeeps DEF Announced
<1>3. CASE ~In("tick")
  <2>1. Reading
    BY <1>1, <1>3, Phases DEF IInv, Reading, TodoAt, At
  <2>2. svc' = [svc EXCEPT !.pc = "receipt"]
    BY <1>3 DEF Announced
  <2>3. /\ svc'.pc = "receipt" /\ svc'.todo = svc.todo /\ svc'.phase = svc.phase /\ svc'.send = {}
        /\ svc' \in SvcOver(outbox)
    BY <1>1, <2>2 DEF IInv, TypeOK, SvcOver
  <2>4. TypeOK'
    BY <1>1, <2>3 DEF IInv, TypeOK, SvcOver
  <2>5. (\A p : In(p)' <=> In(p)) /\ This' = This /\ (Reading' <=> Reading)
    BY <2>3, SameItem DEF In
  <2>6. TodoAt'
    <3>1. svc'.phase # End
      BY <2>1, <2>3, Phases DEF IInv, Reading
    <3> QED
      BY <1>1, <1>3, <2>1, <2>3, <2>5, <3>1 DEF IInv, TodoAt, At, Busy, Waiting
  <2>7. SendAt'
    BY <2>3 DEF SendAt, At
  <2>8. \A f : InHand(f)' <=> InHand(f)
    BY <1>1, <2>3, <2>5 DEF InHand, Busy
  <2>9. \A f \in Requests : applied[f] > 0 /\ receipt[f] = None =>
          (At("down") \/ At("loop") \/ (In("requests") /\ f \in svc.todo))'
    BY <1>1, <2>3, <2>5 DEF IInv, EffectsArePaid, At
  <2>10. ~At("woken")'
    BY <2>3 DEF At
  <2>11. EffectsArePaid' /\ CreatesAreSeen' /\ AnswersAreFinal' /\ WakesArePaid'
    BY <1>1, <2>8, <2>9, <2>10, StoreKept
  <2> QED
    BY <2>4, <2>6, <2>7, <2>11 DEF IInv
<1> QED
  BY <1>2, <1>3

\* A delivery round that does not wake the Manager, or whose turn has ended.
LEMMA DeliveryKeeps ==
    ASSUME IInv, Suppress \/ MarkDelivered \/ DeliveryFails
    PROVE  IInv'
<1>1. /\ faults \in FaultRow
      /\ faults.crashes \in Nat /\ faults.writes \in Nat
  BY ServiceAssumption DEF IInv, TypeOK, FaultRow
<1>2. CASE Suppress
  <2>1. Sending /\ faults' = faults
    BY <1>2 DEF Suppress
  <2> QED
    BY <1>1, <1>2, <2>1, UpdateKeeps DEF Suppress
<1>3. CASE MarkDelivered
  BY <1>1, <1>3, UpdateKeeps DEF MarkDelivered
<1>4. CASE DeliveryFails
  <2>1. Sending \/ At("woken")
    BY <1>4 DEF DeliveryFails
  <2>2. /\ faults' \in FaultRow
        /\ faults'.crashes = faults.crashes /\ faults'.writes = faults.writes
    BY <1>1, <1>4, FaultCounts DEF DeliveryFails, IInv
  <2> QED
    BY <1>4, <2>1, <2>2, UpdateKeeps DEF DeliveryFails
<1> QED
  BY <1>2, <1>3, <1>4

\* The outbox cannot be written: a tick or a round ends the cycle, a file is REJECTED.
LEMMA AnnounceFailsKeeps ==
    ASSUME IInv, AnnounceFails
    PROVE  IInv'
<1>1. /\ Fault("writes") /\ UNCHANGED <<queued, runs, outbox, applied, stop>>
      /\ svc.pc \in {"announce", "send", "woken"}
  BY DEF AnnounceFails, Sending, At, store
<1>2. /\ faults.crashes \in Nat /\ faults.writes \in Nat /\ faults' \in FaultRow
      /\ faults'.crashes = faults.crashes /\ faults'.writes = faults.writes + 1
  <2>1. faults.crashes \in Nat /\ faults.writes \in Nat
    BY ServiceAssumption DEF IInv, TypeOK
  <2> QED
    BY <1>1, <2>1, FaultCounts DEF IInv
<1>3. ~At("woken")' => WakesArePaid'
  <2>1. \A n \in DOMAIN outbox : outbox[n].wakes \in Nat /\ outbox[n].attempts \in Nat
    BY RowCounts DEF IInv
  <2>2. \A n \in DOMAIN outbox : /\ outbox[n].wakes <= outbox[n].attempts + faults.crashes + faults.writes + 1
                                 /\ outbox[n].status = "DELIVERED" => outbox[n].attempts > 0
    BY <1>2, <2>1 DEF IInv, WakesArePaid
  <2> QED
    BY <1>1, <1>2, <2>1, <2>2 DEF WakesArePaid
<1>4. CASE In("tick") \/ In("deliver")
  <2>1. Enter(End) /\ UNCHANGED receipt /\ End \in 1 .. End
    BY <1>4, Phases DEF AnnounceFails
  <2>2. svc' \in SvcOver(outbox) /\ svc'.pc = "loop"
    BY <1>1, <2>1, EnterPhase DEF IInv
  <2>3. TypeOK'
    BY <1>1, <1>2, <2>1, <2>2 DEF IInv, TypeOK, SvcOver, FaultRow
  <2>4. TodoAt' /\ SendAt' /\ ~At("woken")' /\ \A f \in File : ~InHand(f)'
    BY <1>1, <2>1, <2>3, EnterKeeps DEF IInv
  <2>5. \A f \in File : ~InHand(f)
    BY <1>4, Phases DEF IInv, InHand, Reading
  <2>6. EffectsArePaid'
    BY <1>1, <1>2, <2>1, <2>2, <2>4, <2>5 DEF IInv, EffectsArePaid, At
  <2>7. CreatesAreSeen' /\ AnswersAreFinal'
    BY <1>1, <2>1, <2>4, <2>5 DEF IInv, CreatesAreSeen, AnswersAreFinal, OneAnswerPerQuestion
  <2> QED
    BY <1>3, <2>3, <2>4, <2>6, <2>7 DEF IInv
<1>5. CASE ~In("tick") /\ ~In("deliver")
  <2>1. /\ receipt' = [receipt EXCEPT ![This] = "REJECTED"]
        /\ svc' = [svc EXCEPT !.pc = "scan", !.todo = @ \ {This}, !.send = {}, !.note = None]
    BY <1>5 DEF AnnounceFails
  <2>2. Reading /\ svc.todo # {}
    BY <1>1, <1>5, Phases DEF IInv, TodoAt, Reading, Busy, At
  <2>3. /\ svc'.pc = "scan" /\ svc'.todo = svc.todo \ {This}
        /\ svc'.phase = svc.phase /\ svc'.send = {} /\ svc' \in SvcOver(outbox)
    BY <2>1 DEF IInv, TypeOK, SvcOver
  <2>4. ~At("woken")'
    BY <2>3 DEF At
  <2> QED
    BY <1>1, <1>2, <1>3, <2>1, <2>2, <2>3, <2>4, FileDone
<1> QED
  BY <1>4, <1>5

-----------------------------------------------------------------------------
(* The theorems. *)

\* Every step keeps the invariant.
LEMMA NextKeeps == IInv /\ [Next]_vars => IInv'
<1> SUFFICES ASSUME IInv, [Next]_vars
             PROVE  IInv'
  OBVIOUS
<1>1. CASE \E f \in File : Submit(f)
  BY <1>1, SubmitKeeps
<1>2. CASE RequestStop
  BY <1>2, RequestStopKeeps
<1>3. CASE Start \/ Stopped
  BY <1>3, StartKeeps
<1>4. CASE Crash
  BY <1>4, CrashKeeps
<1>5. CASE Cycle \/ NextPhase \/ TickThrows
  BY <1>5, PhaseStepKeeps
<1>6. CASE ProcessRequest \/ ProcessApprovalCommand \/ ProcessControlCommand
  BY <1>6, FileKeeps
<1>7. CASE WriteReceipt
  BY <1>7, WriteReceiptKeeps
<1>8. CASE TickOnly
  <2>1. /\ svc.pc = "scan" /\ svc.send = {} /\ ~At("woken") /\ svc.todo # {} /\ In("tick")
    BY <1>8, TickedRun DEF TickOnly, Ticking
  <2> QED
    BY <1>8, <2>1, TickDoneKeeps DEF TickOnly
<1>9. CASE TickAsks \/ TickFinishes
  BY <1>9, TickedKeeps
<1>10. CASE Queue
  BY <1>10, QueueKeeps
<1>11. CASE Suppress \/ MarkDelivered \/ DeliveryFails
  BY <1>11, DeliveryKeeps
<1>12. CASE Wake
  BY <1>12, WakeKeeps
<1>13. CASE Announced
  BY <1>13, AnnouncedKeeps
<1>15. CASE AnnounceFails
  BY <1>15, AnnounceFailsKeeps
<1>14. CASE UNCHANGED vars
  <2>1. UNCHANGED <<queued, receipt, runs, outbox, applied, svc, stop, faults>>
    BY <1>14 DEF vars, store
  <2>2. (\A p : (At(p)' <=> At(p)) /\ (In(p)' <=> In(p))) /\ Oldest' = Oldest
    BY <2>1 DEF At, In, Oldest
  <2>3. This' = This /\ (Reading' <=> Reading)
    BY <2>1, SameItem
  <2>4. \A f : InHand(f)' <=> InHand(f)
    BY <2>1, <2>3 DEF InHand
  <2>5. TypeOK' /\ TodoAt' /\ SendAt'
    BY <2>1, <2>2, <2>3 DEF IInv, TypeOK, TodoAt, SendAt, Waiting
  <2>6. EffectsArePaid' /\ CreatesAreSeen'
    BY <2>1, <2>2, <2>4 DEF IInv, EffectsArePaid, CreatesAreSeen
  <2>7. AnswersAreFinal' /\ WakesArePaid'
    BY <2>1, <2>2 DEF IInv, AnswersAreFinal, OneAnswerPerQuestion, WakesArePaid
  <2> QED
    BY <2>5, <2>6, <2>7 DEF IInv
<1> QED
  BY <1>1, <1>2, <1>3, <1>4, <1>5, <1>6, <1>7, <1>8, <1>9, <1>10, <1>11, <1>12, <1>13, <1>14, <1>15
     DEF Next, ServiceStep

\* The inductive invariant holds of every reachable state.
LEMMA Invariance == Spec => []IInv
  BY InitKeeps, NextKeeps, PTL DEF Spec

\* Every variable keeps its type, whatever crashes, stop requests and refused turns
\* come between: in particular what is to do and to send is always something that exists.
THEOREM TypeCorrect == Spec => []TypeOK
<1>1. IInv => TypeOK
  BY DEF IInv
<1> QED
  BY <1>1, Invariance, PTL

\* A file takes effect once; a revision, a pause or a resumption takes effect again only
\* when a crash came between the effect and its receipt.
THEOREM EffectsOnce == Spec => []EffectsAreNotRepeated
<1>1. IInv => EffectsAreNotRepeated
  <2> SUFFICES ASSUME IInv, NEW f \in File, applied[f] > 1
               PROVE  /\ Content[f].type \in {"CHANGE", "PAUSE", "RESUME"}
                      /\ applied[f] <= 1 + faults.crashes
    BY DEF EffectsAreNotRepeated
  <2>1. applied[f] \in Nat /\ faults.crashes \in Nat
    BY ServiceAssumption DEF IInv, TypeOK
  <2>2. Content[f].type \in {"CREATE", "CHANGE", "ANSWER", "PAUSE", "RESUME", "INVALID", "UNSAFE"}
    BY ServiceAssumption DEF File
  <2>3. Content[f].type \notin {"CREATE", "ANSWER", "INVALID", "UNSAFE"}
    BY <2>1 DEF IInv, EffectsArePaid, CreatesAreSeen, AnswersAreFinal
  <2>4. applied[f] <= 1 + faults.crashes
    BY <2>1 DEF IInv, EffectsArePaid
  <2> QED
    BY <2>2, <2>3, <2>4
<1> QED
  BY <1>1, Invariance, PTL

\* Of the answers to one question, from the Manager and from the Monitor, one takes effect.
THEOREM AnswersOnce == Spec => []OneAnswerPerQuestion
<1>1. IInv => OneAnswerPerQuestion
  BY DEF IInv, AnswersAreFinal
<1> QED
  BY <1>1, Invariance, PTL

\* When runs are ticked, no request that took effect is still to be processed again.
THEOREM ReceiptsBeforeTicks == Spec => []TickedRunsAreReceipted
<1>1. IInv => TickedRunsAreReceipted
  BY Phases DEF IInv, EffectsArePaid, TickedRunsAreReceipted, At
<1> QED
  BY <1>1, Invariance, PTL

\* The Manager is woken for a notification once, and once more for each delivery of it that
\* was recorded FAILED, each crash and each failing write.
THEOREM WakesOnce == Spec => []OneWakePerNotification
<1>1. IInv => OneWakePerNotification
  <2> SUFFICES ASSUME IInv, NEW n \in DOMAIN outbox
               PROVE  outbox[n].wakes <= 1 + Failures(outbox[n]) + faults.crashes + faults.writes
    BY DEF OneWakePerNotification
  <2>1. /\ faults.crashes \in Nat /\ faults.writes \in Nat
        /\ outbox[n].wakes \in Nat /\ outbox[n].attempts \in Nat
    BY RowCounts, ServiceAssumption DEF IInv, TypeOK
  <2>2. /\ outbox[n].wakes <= outbox[n].attempts + faults.crashes + faults.writes
                             + (IF At("woken") /\ n = Oldest THEN 1 ELSE 0)
        /\ outbox[n].status = "DELIVERED" => outbox[n].attempts > 0
    BY DEF IInv, WakesArePaid
  <2>3. At("woken") /\ n = Oldest => outbox[n].status # "DELIVERED"
    BY OldestIsToSend DEF IInv, SendAt
  <2> QED
    BY <2>1, <2>2, <2>3 DEF Failures
<1> QED
  BY <1>1, Invariance, PTL

\* The status of a workflow whose CREATE was submitted is never WORKFLOW_NOT_FOUND.
THEOREM CreatesAreVisible == Spec => []SubmittedIsVisible
<1>1. IInv => SubmittedIsVisible
  <2> SUFFICES ASSUME IInv, NEW f \in queued, Content[f].type = "CREATE"
               PROVE  Status(Content[f].workflow) # "WORKFLOW_NOT_FOUND"
    BY DEF SubmittedIsVisible
  <2> DEFINE w == Content[f].workflow
  <2>1. f \in File
    BY DEF IInv, TypeOK
  <2>2. f \in Requests /\ w \in Workflows
    BY <2>1, ServiceAssumption DEF File
  <2>3. runs[w].state \in {None, "ACTIVE", "WAITING_HUMAN", "HOLD", "TERMINAL"}
    BY <2>2 DEF IInv, TypeOK
  <2>4. CASE runs[w].state # None
    BY <2>3, <2>4 DEF Status
  <2>5. CASE runs[w].state = None
    <3>1. f \in InQueue(w)
      BY <2>1, <2>2, <2>5 DEF IInv, CreatesAreSeen, InQueue
    <3>2. Status(w) = "QUEUED_OR_REJECTED"
      BY <2>5, <3>1 DEF Status
    <3> QED
      BY <3>2
  <2> QED
    BY <2>4, <2>5
<1> QED
  BY <1>1, Invariance, PTL

=============================================================================
