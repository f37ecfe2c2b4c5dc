-------------------------- MODULE PhoneQueue_proofs --------------------------
(***************************************************************************)
(* The phone queue, for a list of any length and any number of kills,      *)
(* reboots, restarts and cut-off pulls: measurements are never disturbed   *)
(* by the runner's own earlier cells, a marker is final, and a puller that *)
(* ends with ALL_DONE has everything.                                      *)
(***************************************************************************)
EXTENDS PhoneQueue, TLAPS

AllDone == <<"ALL_DONE">>
Busy    == {"charge", "cool", "wait", "mark"}
InQueue == {"next", "charge", "cool", "wait", "mark", "restore"}

FaultsType == faults \in [kills : Nat, reboots : Nat, fills : Nat, pulls : Nat]

(* The cell a runner is busy with is in the list, and has no marker yet. *)
RunnerInv ==
    /\ pc # "off" => run >= 1
    /\ pc \in Busy => at <= Len(Queue) /\ ~Marked(Cell)
    /\ pc \in InQueue => wake = TRUE
    /\ pc = "wait" => charging = FALSE
    /\ pc = "killed" => faults.kills > 0

(* A process belongs to the cell the runner waits for, to the cell it was  *)
(* killed at, or to a runner killed before.                                *)
ProcsInv ==
    \A p \in procs :
        /\ p.run <= run
        /\ p.run = run => /\ <<p.tag, "done">> \notin files
                          /\ pc \in {"wait", "killed"}
                          /\ pc = "wait" => \/ p = MyBench
                                            \/ p = MySampler /\ Cell.kind \in Sampled
        /\ p.run # run => faults.kills > 0

(* The cells before the one the runner is at are marked, unless their kind *)
(* is not known.                                                           *)
MarkedUpTo(n) == \A j \in 1 .. n : Queue[j].kind \in Known => Marked(Queue[j])

MarkersInv ==
    /\ stopped = TRUE => pc \in {"restore", "report", "off", "killed"}
    /\ pc \notin {"off", "killed"} /\ stopped = FALSE => MarkedUpTo(at - 1)
    /\ pc \in {"restore", "report"} /\ stopped = FALSE => at = Len(Queue) + 1
    /\ AllDone \in files => pc = "off" /\ MarkedUpTo(Len(Queue))

(* What was listed together with ALL_DONE is all there will ever be. *)
PullInv ==
    /\ ppc # "pull" => list = {}
    /\ AllDone \in list => list = files
    /\ AllDone \in host /\ ppc = "pull" => AllDone \in list
    /\ AllDone \in host /\ ppc = "off"  => host = files

QInv == TypeOK /\ FaultsType /\ RunnerInv /\ ProcsInv /\ MarkersInv /\ PullInv

-----------------------------------------------------------------------------
(* A marker of a cell is not a flag. *)
LEMMA MarkerNotFlag ==
  ASSUME NEW t, NEW m
  PROVE  <<t, m>> # AllDone /\ <<t, m>> # <<"STOPPED">>
  BY DEF AllDone

(* The cell the runner is at is in the list, while it is busy with it. *)
LEMMA CellInList ==
  ASSUME TypeOK, at <= Len(Queue)
  PROVE  /\ at \in DOMAIN Queue /\ at \in 1 .. Len(Queue) /\ at \in Nat
         /\ Cell.tag \in {Queue[i].tag : i \in DOMAIN Queue}
  BY QueueAssumption DEF TypeOK, Cell

(* The queue has not started. *)
LEMMA InitQInv == Init => QInv
<1> SUFFICES ASSUME Init PROVE QInv
  OBVIOUS
<1>1. TypeOK
  <2>1. Len(Queue) \in Nat /\ MaxRuns \in Nat
    BY QueueAssumption
  <2>2. {stopped, charging, wake} \subseteq BOOLEAN
    BY Zenon DEF Init
  <2>3. run \in 0 .. MaxRuns /\ at \in 1 .. Len(Queue) + 1
    BY <2>1 DEF Init
  <2>4. files = {} /\ procs = {} /\ host = {} /\ list = {} /\ pc = "off" /\ ppc = "off"
    BY DEF Init
  <2> QED BY <2>2, <2>3, <2>4 DEF TypeOK
<1>2. FaultsType
  BY DEF Init, NoFaults, FaultsType
<1>3. RunnerInv /\ ProcsInv
  BY DEF Init, RunnerInv, ProcsInv, Busy, InQueue
<1>4. MarkersInv /\ PullInv
  BY DEF Init, MarkersInv, PullInv
<1> QED BY <1>1, <1>2, <1>3, <1>4 DEF QInv

(* Counting a fault. *)
LEMMA CountType ==
  ASSUME FaultsType, NEW what \in {"kills", "reboots", "fills", "pulls"}, NEW max,
         Count(what, max)
  PROVE  /\ FaultsType' /\ faults'.kills >= faults.kills
         /\ what = "kills" => faults'.kills > 0
  BY DEF FaultsType, Count

(***************************************************************************)
(* A step of the runner that leaves files, processes and the host alone    *)
(* only has to say where the runner is then.                               *)
(***************************************************************************)
LEMMA RunnerMoves ==
  ASSUME QInv, UNCHANGED <<files, procs, host, list, ppc, run>>, FaultsType',
         faults'.kills >= faults.kills,
         pc \in InQueue, pc # "wait", pc' \in InQueue \cup {"report"}, pc' # "wait",
         at' \in 1 .. Len(Queue) + 1,
         stopped' \in BOOLEAN, charging' \in BOOLEAN, wake' \in BOOLEAN,
         RunnerInv', MarkersInv'
  PROVE  QInv'
<1>1. TypeOK'
  BY DEF QInv, TypeOK, InQueue
<1>2. ProcsInv'
  <2>1. \A p \in procs : p.run # run /\ p.run <= run /\ faults.kills > 0
    BY DEF QInv, ProcsInv, InQueue
  <2>2. faults'.kills > 0 \/ procs = {}
    BY <2>1 DEF FaultsType, QInv
  <2> QED BY <2>1, <2>2 DEF ProcsInv
<1>3. PullInv'
  BY DEF QInv, PullInv
<1> QED BY <1>1, <1>2, <1>3 DEF QInv

(* Steps of the runner between the measurements. *)
LEMMA PlainSteps ==
  ASSUME QInv, Skip \/ Stop \/ Charge \/ Begin \/ UnknownKind \/ Finish \/ Restore
  PROVE  QInv'
<1>1. /\ UNCHANGED <<files, procs, host, list, ppc, run>>
      /\ FaultsType' /\ faults'.kills >= faults.kills
  <2>1. Stop => FaultsType' /\ faults'.kills >= faults.kills
    BY CountType DEF Stop, QInv
  <2> QED BY <2>1 DEF QInv, FaultsType, Skip, Stop, Charge, Begin, UnknownKind, Finish, Restore,
                      Goto, NextCell, phone, puller, runner
<1>2. /\ Len(Queue) \in Nat /\ at \in 1 .. Len(Queue) + 1 /\ run \in Nat
      /\ RunnerInv /\ MarkersInv
      /\ stopped \in BOOLEAN /\ charging \in BOOLEAN /\ wake \in BOOLEAN
  BY QueueAssumption DEF QInv, TypeOK
<1>3. /\ pc \in InQueue /\ pc # "wait" /\ pc' \in InQueue \cup {"report"} /\ pc' # "wait"
      /\ at' \in 1 .. Len(Queue) + 1
      /\ stopped' \in BOOLEAN /\ charging' \in BOOLEAN /\ wake' \in BOOLEAN
  <2>1. pc \in InQueue /\ pc # "wait" /\ pc' \in InQueue \cup {"report"} /\ pc' # "wait"
    BY DEF InQueue, Skip, Stop, Charge, Begin, UnknownKind, Finish, Restore, Goto, NextCell
  <2>2. at' \in 1 .. Len(Queue) + 1
    BY <1>2 DEF RunnerInv, Busy, Skip, Stop, Charge, Begin, UnknownKind, Finish, Restore,
                Goto, NextCell
  <2>3. stopped' = stopped \/ stopped' = TRUE
    BY DEF Skip, Stop, Charge, Begin, UnknownKind, Finish, Restore, Goto, NextCell
  <2>4. charging' \in {charging, TRUE, FALSE} /\ wake' \in {wake, FALSE}
    BY DEF Skip, Stop, Charge, Begin, UnknownKind, Finish, Restore, phone
  <2> QED BY <1>2, <2>1, <2>2, <2>3, <2>4
<1>4. RunnerInv'
  BY <1>1, <1>2, <1>3 DEF RunnerInv, Skip, Stop, Charge, Begin, UnknownKind, Finish, Restore,
              Goto, NextCell, phone, InQueue, Busy, Marked, Cell
<1>5. MarkersInv'
  <2>1. AllDone \notin files
    BY <1>2, <1>3 DEF MarkersInv, InQueue
  <2>2. stopped' = TRUE => pc' \in {"restore", "report", "off", "killed"}
    BY <1>2 DEF MarkersInv, Skip, Stop, Charge, Begin, UnknownKind, Finish, Restore, 
                Goto, NextCell
  <2>3. stopped' = FALSE => MarkedUpTo(at' - 1)
    BY <1>2 DEF MarkersInv, MarkedUpTo, Skip, Stop, Charge, Begin, UnknownKind, Finish,
                Restore, Goto, NextCell, Cell
  <2>4. pc' \in {"restore", "report"} /\ stopped' = FALSE => at' = Len(Queue) + 1
    BY <1>2 DEF MarkersInv, Skip, Stop, Charge, Begin, UnknownKind, Finish,
                Restore, Goto, NextCell
  <2> QED BY <1>1, <2>1, <2>2, <2>3, <2>4 DEF MarkersInv, MarkedUpTo, Marked
<1> QED BY <1>1, <1>3, <1>4, <1>5, RunnerMoves

(* Before ALL_DONE is written it is nowhere. *)
LEMMA NotAllDone ==
  ASSUME QInv, pc # "off"
  PROVE  AllDone \notin files /\ AllDone \notin list /\ AllDone \notin host
  BY DEF QInv, MarkersInv, TypeOK

(* A file is written, and nobody who measures is there to mind. *)
LEMMA FileWritten ==
  ASSUME QInv, UNCHANGED <<procs, host, list, ppc, run, charging, wake, faults, stopped>>,
         pc \in {"cool", "mark", "report"}, pc' \in {"next", "off"},
         at' \in 1 .. Len(Queue) + 1,
         NEW f \in ({Queue[i].tag : i \in DOMAIN Queue} \X {"done", "hot"}) \cup Flags,
         files' = files \cup {f}, MarkersInv', wake = TRUE \/ pc' = "off"
  PROVE  QInv'
<1>1. TypeOK'
  BY DEF QInv, TypeOK
<1>2. FaultsType' /\ RunnerInv'
  BY DEF QInv, FaultsType, RunnerInv, Busy, InQueue
<1>3. ProcsInv'
  <2>1. \A p \in procs : p.run # run /\ p.run <= run /\ faults.kills > 0
    BY DEF QInv, ProcsInv
  <2> QED BY <2>1 DEF ProcsInv
<1>4. PullInv'
  BY NotAllDone DEF QInv, PullInv
<1> QED BY <1>1, <1>2, <1>3, <1>4 DEF QInv

(* A cell gets its marker. *)
LEMMA MarkerSteps ==
  ASSUME QInv, SkipHot \/ Mark
  PROVE  QInv'
<1>1. PICK m \in {"done", "hot"} : files' = files \cup {<<Cell.tag, m>>}
  BY DEF SkipHot, Mark
<1>2. /\ UNCHANGED <<procs, host, list, ppc, run, charging, wake, faults, stopped>>
      /\ pc \in {"cool", "mark"} /\ pc' = "next" /\ at' = at + 1
  BY DEF SkipHot, Mark, NextCell, phone, puller
<1>3. at \in DOMAIN Queue /\ at \in 1 .. Len(Queue) /\ at \in Nat
      /\ Cell.tag \in {Queue[i].tag : i \in DOMAIN Queue} /\ Len(Queue) \in Nat
  BY <1>2, CellInList, QueueAssumption DEF QInv, RunnerInv, Busy
<1>4. at' \in 1 .. Len(Queue) + 1
  BY <1>2, <1>3
<1>5. wake = TRUE
  BY <1>2 DEF QInv, RunnerInv, InQueue
<1>6. MarkersInv'
  <2>1. AllDone \notin files'
    BY <1>1, <1>2, NotAllDone, MarkerNotFlag
  <2>2. stopped # TRUE /\ (stopped = FALSE => MarkedUpTo(at - 1))
    BY <1>2 DEF QInv, MarkersInv
  <2>3. stopped = FALSE => MarkedUpTo(at - 1)'
    <3> SUFFICES ASSUME stopped = FALSE, NEW j \in 1 .. at' - 1,
                        Queue[j].kind \in Known
                 PROVE  Marked(Queue[j])'
      BY DEF MarkedUpTo
    <3>0. j \in 1 .. at
      BY <1>2, <1>3
    <3>1. CASE j = at
      BY <1>1, <3>1 DEF Marked, Cell
    <3>2. CASE j # at
      <4>1. Marked(Queue[j])
        BY <1>3, <2>2, <3>0, <3>2 DEF MarkedUpTo
      <4> QED BY <1>1, <4>1 DEF Marked
    <3> QED BY <3>1, <3>2
  <2> QED BY <1>2, <1>3, <2>1, <2>2, <2>3 DEF MarkersInv
<1> HIDE DEF Cell
<1> QED BY <1>1, <1>2, <1>3, <1>4, <1>5, <1>6, FileWritten

(* The flag, at the end. *)
LEMMA ReportStep ==
  ASSUME QInv, Report
  PROVE  QInv'
<1> DEFINE f == IF stopped THEN <<"STOPPED">> ELSE <<"ALL_DONE">>
<1>1. /\ UNCHANGED <<procs, host, list, ppc, run, charging, wake, faults, stopped, at>>
      /\ pc = "report" /\ pc' = "off" /\ files' = files \cup {f}
  BY DEF Report, Goto, phone, puller
<1>2. f \in Flags
  BY DEF Flags
<1>3. at' \in 1 .. Len(Queue) + 1 /\ stopped \in BOOLEAN /\ Len(Queue) \in Nat
  BY <1>1, QueueAssumption DEF QInv, TypeOK
<1>4. MarkersInv'
  <2>1. AllDone \in files' => stopped = FALSE
    <3> SUFFICES ASSUME stopped = TRUE PROVE AllDone \notin files'
      BY <1>3
    <3>1. f = <<"STOPPED">> /\ AllDone # f
      BY DEF AllDone
    <3> QED BY <1>1, <3>1, NotAllDone
  <2>2. stopped = FALSE => MarkedUpTo(Len(Queue))
    BY <1>1, <1>3 DEF QInv, MarkersInv
  <2>3. stopped = FALSE => MarkedUpTo(Len(Queue))'
    BY <1>1, <2>2 DEF MarkedUpTo, Marked
  <2> QED BY <1>1, <2>1, <2>3 DEF MarkersInv
<1> HIDE DEF f
<1> QED BY <1>1, <1>2, <1>3, <1>4, FileWritten

(* Steps that start or end processes leave files and the host alone. *)
LEMMA ProcsMove ==
  ASSUME QInv, UNCHANGED <<files, host, list, ppc, run, at, stopped, faults>>,
         charging' \in BOOLEAN, wake' = wake, 
         procs' \subseteq [what : {"bench", "sampler"},
                           tag : {Queue[i].tag : i \in DOMAIN Queue}, run : 1 .. MaxRuns],
         \/ pc' = pc /\ charging' = charging
         \/ pc = "cool" /\ pc' = "wait" /\ charging' = FALSE
         \/ pc = "wait" /\ pc' = "mark",
         ProcsInv'
  PROVE  QInv'
<1>1. TypeOK'
  BY DEF QInv, TypeOK
<1>2. FaultsType' /\ PullInv'
  BY DEF QInv, FaultsType, PullInv
<1>3. RunnerInv'
  BY DEF QInv, RunnerInv, Busy, InQueue, Cell, Marked
<1>4. MarkersInv'
  BY DEF QInv, MarkersInv, MarkedUpTo, Marked
<1> QED BY <1>1, <1>2, <1>3, <1>4 DEF QInv

(* The bench and the sampler of a cell start when nothing of this runner runs. *)
LEMMA LaunchStep ==
  ASSUME QInv, Launch
  PROVE  QInv'
<1>1. /\ UNCHANGED <<files, host, list, ppc, run, at, stopped, faults, wake>>
      /\ pc = "cool" /\ pc' = "wait" /\ charging' = FALSE
      /\ procs' = procs \cup {MyBench}
                     \cup (IF Cell.kind \in Sampled THEN {MySampler} ELSE {})
  BY DEF Launch, Goto, puller
<1>2. at <= Len(Queue) /\ ~Marked(Cell) /\ run >= 1 /\ run \in 1 .. MaxRuns
  BY <1>1, QueueAssumption DEF QInv, RunnerInv, Busy, TypeOK
<1>3. Cell.tag \in {Queue[i].tag : i \in DOMAIN Queue}
  BY <1>2, CellInList DEF QInv
<1>4. <<Cell.tag, "done">> \notin files
  BY <1>2 DEF Marked
<1>5. \A p \in procs : p.run # run /\ p.run <= run /\ faults.kills > 0
  BY <1>1 DEF QInv, ProcsInv
<1>6. /\ MyBench' = MyBench /\ MySampler' = MySampler /\ Cell' = Cell
      /\ MyBench.run = run /\ MyBench.tag = Cell.tag
      /\ MySampler.run = run /\ MySampler.tag = Cell.tag
  BY <1>1 DEF MyBench, MySampler, Cell
<1>7. ProcsInv'
  <2> SUFFICES ASSUME NEW p \in procs'
               PROVE  /\ p.run <= run
                      /\ p.run = run => /\ <<p.tag, "done">> \notin files
                                        /\ \/ p = MyBench
                                           \/ p = MySampler /\ Cell.kind \in Sampled
                      /\ p.run # run => faults.kills > 0
    BY <1>1, <1>6 DEF ProcsInv
  <2>1. CASE p \in procs
    BY <1>5, <2>1
  <2>2. CASE p = MyBench
    BY <1>2, <1>4, <1>6, <2>2
  <2>3. CASE p = MySampler /\ Cell.kind \in Sampled
    BY <1>2, <1>4, <1>6, <2>3
  <2> QED BY <1>1, <2>1, <2>2, <2>3
<1>8. procs' \subseteq [what : {"bench", "sampler"},
                        tag : {Queue[i].tag : i \in DOMAIN Queue}, run : 1 .. MaxRuns]
  <2>1. MyBench \in [what : {"bench", "sampler"},
                     tag : {Queue[i].tag : i \in DOMAIN Queue}, run : 1 .. MaxRuns]
    BY <1>2, <1>3 DEF MyBench
  <2>2. MySampler \in [what : {"bench", "sampler"},
                       tag : {Queue[i].tag : i \in DOMAIN Queue}, run : 1 .. MaxRuns]
    BY <1>2, <1>3 DEF MySampler
  <2> QED BY <1>1, <2>1, <2>2 DEF QInv, TypeOK
<1> QED BY <1>1, <1>7, <1>8, ProcsMove

(* When its bench is over the sampler of the cell is ended as well. *)
LEMMA EndedStep ==
  ASSUME QInv, Ended
  PROVE  QInv'
<1>1. /\ UNCHANGED <<files, host, list, ppc, run, at, stopped, faults, charging, wake>>
      /\ pc = "wait" /\ pc' = "mark" /\ MyBench \notin procs
      /\ procs' = CASE Cell.kind = "cpu" -> procs \ {MySampler}
                    [] Cell.kind = "lb"  -> procs
                    [] OTHER             -> {p \in procs : p.what = "bench"}
  BY DEF Ended, Goto, puller
<1>2. procs' \subseteq procs
  BY <1>1
<1>3. \A p \in procs : p.run = run => p = MySampler /\ Cell.kind \in Sampled
  BY <1>1 DEF QInv, ProcsInv
<1>4. \A p \in procs' : p.run # run
  <2>1. MySampler.what = "sampler"
    BY DEF MySampler
  <2>2. "lb" \notin Sampled
    BY DEF Sampled, Gated
  <2>3. MySampler \in procs => MySampler \notin procs' \/ Cell.kind \notin Sampled
    BY <1>1, <2>1, <2>2
  <2> QED BY <1>2, <1>3, <2>3
<1>5. ProcsInv'
  BY <1>1, <1>2, <1>4 DEF QInv, ProcsInv
<1>6. charging' \in BOOLEAN
  BY <1>1 DEF QInv, TypeOK
<1> QED BY <1>1, <1>2, <1>5, <1>6, ProcsMove DEF QInv, TypeOK

(* A bench ends. *)
LEMMA BenchEndsStep ==
  ASSUME QInv, BenchEnds
  PROVE  QInv'
<1>1. /\ UNCHANGED <<files, host, list, ppc, run, at, stopped, faults, charging, wake, pc>>
      /\ procs' \subseteq procs
  BY DEF BenchEnds, runner, puller
<1>2. ProcsInv'
  BY <1>1 DEF QInv, ProcsInv, MyBench, MySampler, Cell
<1>3. charging' \in BOOLEAN
  BY <1>1 DEF QInv, TypeOK
<1> QED BY <1>1, <1>2, <1>3, ProcsMove DEF QInv, TypeOK

-----------------------------------------------------------------------------
(* The puller only copies. *)
LEMMA PullerMoves ==
  ASSUME QInv, UNCHANGED <<files, runner, phone>>, FaultsType', faults'.kills = faults.kills,
         ppc' \in {"off", "idle", "pull"}, host' \subseteq files, list' \subseteq files,
         PullInv'
  PROVE  QInv'
<1>1. TypeOK'
  BY DEF QInv, TypeOK, runner, phone
<1>2. RunnerInv' /\ ProcsInv' /\ MarkersInv'
  BY DEF QInv, RunnerInv, ProcsInv, MarkersInv, MarkedUpTo, Marked, Cell, MyBench, MySampler,
     runner, phone
<1> QED BY <1>1, <1>2 DEF QInv

(***************************************************************************)
(* A pull that listed ALL_DONE listed everything, and one that starts when *)
(* the host has ALL_DONE lists it again.                                   *)
(***************************************************************************)
LEMMA PullSteps ==
  ASSUME QInv, List \/ Copied \/ CutOff \/ StartPuller
  PROVE  QInv'
<1>1. UNCHANGED <<files, runner, phone>>
  BY DEF List, Copied, CutOff, StartPuller
<1>2. host \subseteq files /\ list \subseteq files /\ PullInv /\ FaultsType
  BY DEF QInv, TypeOK
<1>3. FaultsType' /\ faults'.kills = faults.kills
  BY <1>2 DEF FaultsType, Count, List, Copied, CutOff, StartPuller
<1>4. ppc' \in {"off", "idle", "pull"} /\ host' \subseteq files /\ list' \subseteq files
  BY <1>2 DEF List, Copied, CutOff, StartPuller
<1>5. PullInv'
  <2>1. CASE List
    BY <1>2, <2>1 DEF PullInv, List
  <2>2. CASE Copied
    <3>1. AllDone \in host' => host' = files
      BY <1>2, <2>2 DEF PullInv, Copied
    <3> QED BY <2>2, <3>1 DEF PullInv, Copied
  <2>3. CASE CutOff
    BY <1>2, <2>3 DEF PullInv, CutOff
  <2>4. CASE StartPuller
    BY <1>2, <2>4 DEF PullInv, StartPuller
  <2> QED BY <2>1, <2>2, <2>3, <2>4
<1> QED BY <1>1, <1>3, <1>4, <1>5, PullerMoves

-----------------------------------------------------------------------------
(* What runs when a runner starts was left by one that was killed. *)
LEMMA StartStep ==
  ASSUME QInv, Start
  PROVE  QInv'
<1>1. /\ UNCHANGED <<files, procs, charging, host, list, ppc, faults>>
      /\ pc \in {"off", "killed"} /\ AllDone \notin files /\ run < MaxRuns
      /\ run' = run + 1 /\ at' = 1 /\ stopped' = FALSE /\ pc' = "next" /\ wake' = TRUE
  BY DEF Start, puller, AllDone
<1>2. Len(Queue) \in Nat /\ run \in 0 .. MaxRuns /\ MaxRuns \in Nat
  BY QueueAssumption DEF QInv, TypeOK
<1>3. TypeOK'
  <2>1. run' \in 0 .. MaxRuns /\ at' \in 1 .. Len(Queue) + 1
    BY <1>1, <1>2
  <2>2. charging \in BOOLEAN
    BY DEF QInv, TypeOK
  <2>3. {stopped', charging', wake'} \subseteq BOOLEAN
    BY <1>1, <2>2, Zenon
  <2> QED BY <1>1, <2>1, <2>3 DEF QInv, TypeOK
<1>4. FaultsType' /\ PullInv'
  BY <1>1 DEF QInv, FaultsType, PullInv
<1>5. RunnerInv'
  BY <1>1, <1>2 DEF RunnerInv, Busy
<1>6. ProcsInv'
  <2> SUFFICES ASSUME NEW p \in procs
               PROVE  p.run <= run' /\ p.run # run' /\ faults.kills > 0
    BY <1>1 DEF ProcsInv
  <2>1. p.run <= run /\ p.run \in 1 .. MaxRuns
    BY DEF QInv, ProcsInv, TypeOK
  <2>2. faults.kills > 0
    BY <1>1 DEF QInv, ProcsInv, RunnerInv
  <2> QED BY <1>1, <1>2, <2>1, <2>2
<1>7. MarkersInv'
  BY <1>1 DEF MarkersInv, MarkedUpTo
<1> QED BY <1>3, <1>4, <1>5, <1>6, <1>7 DEF QInv

(* A killed runner leaves what it started. *)
LEMMA KillStep ==
  ASSUME QInv, Kill
  PROVE  QInv'
<1>1. /\ UNCHANGED <<files, phone, puller, run, at, stopped>>
      /\ pc # "off" /\ pc' = "killed"
  BY DEF Kill, Goto
<1>2. FaultsType' /\ faults'.kills >= faults.kills /\ faults'.kills > 0
  BY CountType DEF QInv, Kill
<1>3. TypeOK'
  BY <1>1 DEF QInv, TypeOK, phone, puller
<1>4. RunnerInv' /\ PullInv'
  BY <1>1, <1>2 DEF QInv, RunnerInv, Busy, InQueue, PullInv, puller
<1>5. ProcsInv'
  BY <1>1, <1>2 DEF QInv, ProcsInv, phone
<1>6. MarkersInv'
  BY <1>1, NotAllDone DEF QInv, MarkersInv
<1> QED BY <1>2, <1>3, <1>4, <1>5, <1>6 DEF QInv

(* A reboot ends everything that runs. *)
LEMMA RebootStep ==
  ASSUME QInv, Reboot
  PROVE  QInv'
<1>1. /\ UNCHANGED <<files, host, list, ppc, run, at, stopped>>
      /\ procs' = {} /\ charging' = TRUE /\ wake' = FALSE /\ pc' = "off"
  BY DEF Reboot, Goto, puller
<1>2. FaultsType'
  BY CountType DEF QInv, Reboot
<1>3. TypeOK'
  <2>1. stopped \in BOOLEAN
    BY DEF QInv, TypeOK
  <2>2. {stopped', charging', wake'} \subseteq BOOLEAN
    BY <1>1, <2>1, Zenon
  <2> QED BY <1>1, <2>2 DEF QInv, TypeOK
<1>4. RunnerInv' /\ PullInv' /\ ProcsInv'
  BY <1>1 DEF QInv, RunnerInv, Busy, InQueue, PullInv, ProcsInv
<1>5. MarkersInv'
  BY <1>1 DEF QInv, MarkersInv, MarkedUpTo, Marked
<1> QED BY <1>2, <1>3, <1>4, <1>5 DEF QInv

(* Every step keeps the invariant. *)
LEMMA NextQInv ==
  ASSUME QInv, [Next]_vars
  PROVE  QInv'
<1>1. CASE UNCHANGED vars
  BY <1>1 DEF vars, runner, phone, puller, QInv, TypeOK, FaultsType, RunnerInv, ProcsInv,
     MarkersInv, PullInv, MarkedUpTo, Marked, Cell, MyBench, MySampler
<1> QED BY <1>1, PlainSteps, MarkerSteps, ReportStep, LaunchStep, EndedStep, BenchEndsStep,
           PullSteps, StartStep, KillStep, RebootStep DEF Next, RunnerStep, World

(***************************************************************************)
(* A runner measures one cell at a time, with its own sampler, awake and   *)
(* with charging off, over any number of kills, reboots and restarts.      *)
(***************************************************************************)
THEOREM MeasurementsClean == Spec => []QueueInv
<1>1. QInv => QueueInv
  <2> SUFFICES ASSUME QInv PROVE MeasuredAlone
    BY DEF QInv, QueueInv
  <2> DEFINE mine == {p \in procs : p.run = run}
  <2>1. pc \notin {"wait", "killed"} => mine = {}
    BY DEF QInv, ProcsInv
  <2>2. pc = "wait" => mine \subseteq {MyBench, MySampler}
    BY DEF QInv, ProcsInv
  <2>3. pc = "wait" => wake = TRUE /\ charging = FALSE
    BY DEF QInv, RunnerInv, InQueue
  <2>4. procs \ mine # {} => faults.kills > 0
    BY DEF QInv, ProcsInv
  <2> QED BY <2>1, <2>2, <2>3, <2>4 DEF MeasuredAlone
<1> QED BY <1>1, InitQInv, NextQInv, PTL DEF Spec

(***************************************************************************)
(* A puller that ends with ALL_DONE has every file there is, among them    *)
(* the marker of every cell of a known kind, however often it was cut off. *)
(***************************************************************************)
THEOREM PullComplete == Spec => []HostHasAll
<1>1. QInv => HostHasAll
  <2> SUFFICES ASSUME QInv, ppc = "off", AllDone \in host
               PROVE  /\ files = host
                      /\ \A i \in DOMAIN Queue : Queue[i].kind \in Known => Marked(Queue[i])
    BY DEF HostHasAll, AllDone
  <2>1. files = host /\ MarkedUpTo(Len(Queue))
    BY DEF QInv, PullInv, MarkersInv
  <2>2. DOMAIN Queue = 1 .. Len(Queue)
    BY QueueAssumption
  <2> QED BY <2>1, <2>2 DEF MarkedUpTo
<1> QED BY <1>1, InitQInv, NextQInv, PTL DEF Spec

(***************************************************************************)
(* No cell that has its marker is started again, and none gets its marker  *)
(* while its bench runs, whatever is killed and restarted.                 *)
(***************************************************************************)
THEOREM MarkersFinal == Spec => DoneIsFinal
<1> DEFINE Final == /\ \A p \in procs' \ procs : ~Marked(p)
                    /\ \A p \in procs : p.run = run /\ p.what = "bench"
                                          => <<p.tag, "done">> \notin files'
<1>1. QInv /\ [Next]_vars => [Final]_vars
  <2> SUFFICES ASSUME QInv, Next PROVE Final
    OBVIOUS
  <2>1. CASE Launch
    <3>1. procs' \ procs \subseteq {MyBench, MySampler} /\ pc = "cool" /\ files' = files
      BY <2>1 DEF Launch
    <3>2. ~Marked(Cell)
      BY <3>1 DEF QInv, RunnerInv, Busy
    <3>3. MyBench.tag = Cell.tag /\ MySampler.tag = Cell.tag
      BY DEF MyBench, MySampler
    <3>4. \A p \in procs : p.run # run
      BY <3>1 DEF QInv, ProcsInv
    <3> QED BY <3>1, <3>2, <3>3, <3>4 DEF Marked
  <2>2. CASE ~Launch
    <3>1. procs' \subseteq procs
      BY <2>2 DEF Next, RunnerStep, World, Skip, Stop, Charge, Begin, UnknownKind, SkipHot, Ended,
         Mark, Finish, Restore, Report, List, Copied, CutOff, Start, StartPuller, BenchEnds,
         Kill, Reboot, phone
    <3>2. files' = files \/ pc \in {"cool", "mark", "report"}
      BY <2>2 DEF Next, RunnerStep, World, Skip, Stop, Charge, Begin, UnknownKind, SkipHot, Ended,
         Mark, Finish, Restore, Report, List, Copied, CutOff, Start, StartPuller, BenchEnds,
         Kill, Reboot
    <3>3. \A p \in procs : p.run = run =>
             <<p.tag, "done">> \notin files /\ pc \in {"wait", "killed"}
      BY DEF QInv, ProcsInv
    <3> QED BY <3>1, <3>2, <3>3
  <2> QED BY <2>1, <2>2
<1> QED BY <1>1, InitQInv, NextQInv, PTL DEF Spec, DoneIsFinal
=============================================================================
