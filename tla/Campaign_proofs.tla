--------------------------- MODULE Campaign_proofs ---------------------------
(***************************************************************************)
(* For any list of cells and any number of drops, stalls, dead supervisors *)
(* and reboots: no two campaigns run, and a timed bench has the phone to   *)
(* itself; the latter where the cells with a watchdog come first.          *)
(***************************************************************************)
EXTENDS Campaign, TLAPS

GivenUp(i) == camps[i].gaveUp = TRUE

(* The phases in which a campaign has a cell in hand. *)
Measuring == {"startwd", "stopwd", "pull"}
                \cup {Pushing[e] : e \in Evals} \cup {Starting[e] : e \in Evals}
                \cup {Waiting[e] : e \in Evals}

CampState == [pc : Phases, at : 0 .. Len(Cells) + 1, tries : 0 .. RetryLimit - 1,
              gaveUp : BOOLEAN]

PhoneType ==
    /\ scripts \in [Evals -> {<<>>} \cup (Campaigns \X Names)]
    /\ benches \subseteq [eval : Evals, run : Campaigns, cell : Names, copy : 0 .. MaxMishaps]
    /\ flags \subseteq Evals \X Campaigns \X Names /\ results \subseteq Campaigns \X Names
    /\ wds \in Nat /\ wdStop \in BOOLEAN /\ caps \subseteq {"perf", "prime"}

HostType ==
    /\ sup \in [on : BOOLEAN, cpid : 0 .. MaxCampaigns]
    /\ host \subseteq Names /\ done \in BOOLEAN

PlaceOf(i) == /\ Alive(i) => camps[i].at >= 1
              /\ camps[i].pc \in Measuring => camps[i].at <= Len(Cells)
              /\ camps[i].pc = "startwd" => Wd(i)

(* The supervisor knows the campaign that runs, if it has the lock. *)
OneInv ==
    /\ OneCampaign
    /\ sup.on = TRUE => \A i \in Campaigns : Alive(i) => sup.cpid = i

(* Once the phone has been cleared for a cell only the script pushed for   *)
(* it is started.                                                          *)
QuietOf(i) ==
    ~GivenUp(i) =>
        /\ camps[i].pc \in {"startwd", "gen push"} => benches = {}
        /\ camps[i].pc \in {"gen start", "gen wait"} =>
             \A b \in benches : b.eval = "gen" /\ <<b.run, b.cell>> = scripts["gen"]

(* Clocks are capped only while a watchdog runs. *)
CapsInv == wds = 0 => caps = {}

CInv ==
    /\ camps \in [Campaigns -> CampState] /\ PhoneType /\ HostType
    /\ mishaps \in 0 .. MaxMishaps
    /\ \A i \in Campaigns : PlaceOf(i) /\ QuietOf(i)
    /\ OneInv /\ CapsInv

(* The cells with a watchdog come first, as in the script. *)
WatchedFirst == \A k, l \in DOMAIN Cells : k < l /\ Cells[l].wd => Cells[k].wd

WatchOf(i) ==
    /\ camps[i].pc \in Measuring => Cell(i) \notin host
    /\ camps[i].pc = "pull" /\ Wd(i) /\ lost = FALSE => wdStop = TRUE
    /\ camps[i].pc = "gen wait" /\ ~Wd(i) /\ lost = FALSE => wds = 0

(***************************************************************************)
(* A watchdog that nobody has told to stop has a cell that is still to be  *)
(* measured, by the campaign that runs or the next.                        *)
(***************************************************************************)
RerunInv ==
    lost = FALSE /\ wds > 0 /\ wdStop = FALSE =>
        \E k \in DOMAIN Cells :
            /\ Cells[k].wd /\ Cells[k].cell \notin host
            /\ \A i \in Campaigns : Alive(i) => camps[i].at <= k

WInv == (\A i \in Campaigns : WatchOf(i)) /\ RerunInv

-----------------------------------------------------------------------------
(* Phases are told apart. *)
LEMMA PhaseNames ==
  /\ Pushing["gen"] = "gen push" /\ Pushing["ppl"] = "ppl push"
  /\ Starting["gen"] = "gen start" /\ Starting["ppl"] = "ppl start"
  /\ Waiting["gen"] = "gen wait" /\ Waiting["ppl"] = "ppl wait"
  BY DEF Pushing, Starting, Waiting

(* And the sets of them. *)
LEMMA PhasesAre ==
  /\ Phases = {"none", "next", "startwd", "stopwd", "pull", "finish", "over",
               "gen push", "ppl push", "gen start", "ppl start", "gen wait", "ppl wait"}
  /\ Measuring = {"startwd", "stopwd", "pull", "gen push", "ppl push", "gen start",
                  "ppl start", "gen wait", "ppl wait"}
<1>1. /\ {Pushing[e] : e \in Evals} = {"gen push", "ppl push"}
      /\ {Starting[e] : e \in Evals} = {"gen start", "ppl start"}
      /\ {Waiting[e] : e \in Evals} = {"gen wait", "ppl wait"}
  BY PhaseNames DEF Evals
<1> QED BY <1>1 DEF Phases, Measuring

(* What there is of a campaign, part by part. *)
LEMMA CampStateParts ==
  ASSUME NEW pc \in Phases, NEW at \in 0 .. Len(Cells) + 1, NEW tries \in 0 .. RetryLimit - 1,
         NEW gaveUp \in BOOLEAN
  PROVE  [pc |-> pc, at |-> at, tries |-> tries, gaveUp |-> gaveUp] \in CampState
  BY Zenon DEF CampState

(* The constants are numbers, and a call is tried at least once. *)
LEMMA Numbers ==
  /\ Len(Cells) \in Nat /\ RetryLimit \in Nat /\ RetryLimit > 0
  /\ MaxCampaigns \in Nat /\ MaxMishaps \in Nat
  /\ 0 \in 0 .. RetryLimit - 1
  BY CampaignAssumption

(* Of a campaign before a step. *)
LEMMA CampParts ==
  ASSUME camps \in [Campaigns -> CampState], NEW i \in Campaigns
  PROVE  /\ camps[i].pc \in Phases /\ camps[i].at \in 0 .. Len(Cells) + 1
         /\ camps[i].tries \in 0 .. RetryLimit - 1 /\ camps[i].gaveUp \in BOOLEAN
         /\ camps[i] = [pc |-> camps[i].pc, at |-> camps[i].at, tries |-> camps[i].tries,
                        gaveUp |-> camps[i].gaveUp]
<1>1. camps[i] \in CampState
  OBVIOUS
<1> QED BY <1>1 DEF CampState

(* No campaign has started. *)
LEMMA InitCInv == Init => CInv
<1> SUFFICES ASSUME Init PROVE CInv
  OBVIOUS
<1>1. NotStarted \in CampState
  <2>1. "none" \in Phases
    BY PhasesAre
  <2>2. FALSE \in BOOLEAN
    BY Zenon
  <2>3. 0 \in 0 .. Len(Cells) + 1
    BY Numbers
  <2> QED BY <2>1, <2>2, <2>3, Numbers, CampStateParts DEF NotStarted
<1>2. camps \in [Campaigns -> CampState]
  BY <1>1 DEF Init
<1>3. PhoneType
  BY DEF Init, PhoneType
<1>4. HostType /\ mishaps \in 0 .. MaxMishaps /\ CapsInv
  <2>1. 0 \in 0 .. MaxCampaigns /\ 0 \in 0 .. MaxMishaps
    BY Numbers
  <2>2. HostType
    BY <2>1, Zenon DEF Init, HostType
  <2> QED BY <2>1, <2>2 DEF Init, CapsInv
<1>5. \A i \in Campaigns : camps[i].pc = "none"
  BY DEF Init, NotStarted
<1>6. \A i \in Campaigns : PlaceOf(i) /\ QuietOf(i) /\ ~Alive(i)
  BY <1>5, PhasesAre DEF PlaceOf, QuietOf, Alive
<1> QED BY <1>2, <1>3, <1>4, <1>6 DEF CInv, OneInv, OneCampaign

(* What a step does of campaign i: where it is then, with the others as they were. *)
Moved(i, pc) ==
    /\ camps' \in [Campaigns -> CampState]
    /\ \A j \in Campaigns \ {i} : camps'[j] = camps[j]
    /\ camps'[i].pc = pc /\ camps'[i].gaveUp = camps[i].gaveUp

(* A call that was made, or a step without one. *)
LEMMA GotoMoves ==
  ASSUME CInv, NEW i \in Campaigns, NEW pc \in Phases, Goto(i, pc)
  PROVE  Moved(i, pc) /\ camps'[i].at = camps[i].at
<1> DEFINE c == camps[i]
           r == [c EXCEPT !.pc = pc, !.tries = 0]
<1>1. camps \in [Campaigns -> CampState]
  BY DEF CInv
<1>2. r \in CampState /\ r.pc = pc /\ r.at = c.at /\ r.gaveUp = c.gaveUp
  <2> DEFINE T == 0 .. RetryLimit - 1
             A == 0 .. Len(Cells) + 1
  <2>1. 0 \in T /\ c \in [pc : Phases, at : A, tries : T, gaveUp : BOOLEAN]
    BY <1>1, Numbers DEF CampState
  <2>2. CampState = [pc : Phases, at : A, tries : T, gaveUp : BOOLEAN]
    BY DEF CampState
  <2> HIDE DEF T, A, c
  <2> QED BY <2>1, <2>2
<1>3. camps' = [camps EXCEPT ![i] = r]
  BY <1>1 DEF Goto
<1> HIDE DEF r
<1> QED BY <1>1, <1>2, <1>3 DEF Moved

(* It goes to the next cell, and is past the list after the last. *)
LEMMA NextCellMoves ==
  ASSUME CInv, NEW i \in Campaigns, camps[i].at <= Len(Cells), NextCell(i)
  PROVE  Moved(i, "next") /\ camps'[i].at = camps[i].at + 1
<1> DEFINE c == camps[i]
           r == [pc |-> "next", at |-> c.at + 1, tries |-> 0, gaveUp |-> c.gaveUp]
<1>1. camps \in [Campaigns -> CampState]
  BY DEF CInv
<1>2. r \in CampState
  <2>1. c.at + 1 \in 0 .. Len(Cells) + 1
    BY <1>1, Numbers, CampParts
  <2>2. "next" \in Phases
    BY PhasesAre
  <2> QED BY <1>1, <2>1, <2>2, Numbers, CampParts, CampStateParts
<1>3. camps' = [camps EXCEPT ![i] = r]
  BY <1>1, CampParts DEF NextCell
<1>4. r.pc = "next" /\ r.at = c.at + 1 /\ r.gaveUp = c.gaveUp
  OBVIOUS
<1> HIDE DEF r
<1> QED BY <1>1, <1>2, <1>3, <1>4 DEF Moved

(* A call that is made again leaves it where it is, unless it gives up. *)
LEMMA AgainMoves ==
  ASSUME CInv, NEW i \in Campaigns, NEW pc \in Phases, Again(i, pc)
  PROVE  /\ camps' \in [Campaigns -> CampState]
         /\ \A j \in Campaigns \ {i} : camps'[j] = camps[j]
         /\ camps'[i].at = camps[i].at
         /\ \/ Moved(i, camps[i].pc)
            \/ camps'[i].pc = pc /\ GivenUp(i)' /\ lost' = TRUE
<1> DEFINE c == camps[i]
<1>1. camps \in [Campaigns -> CampState]
  BY DEF CInv
<1>2. CASE c.tries + 1 < RetryLimit
  <2> DEFINE r == [pc |-> c.pc, at |-> c.at, tries |-> c.tries + 1, gaveUp |-> c.gaveUp]
  <2>1. r \in CampState
    <3>1. c.tries + 1 \in 0 .. RetryLimit - 1
      BY <1>1, <1>2, Numbers, CampParts
    <3> QED BY <1>1, <3>1, CampParts, CampStateParts
  <2>2. camps' = [camps EXCEPT ![i] = r]
    BY <1>1, <1>2, CampParts DEF Again
  <2>3. r.pc = c.pc /\ r.at = c.at /\ r.gaveUp = c.gaveUp
    OBVIOUS
  <2> HIDE DEF r
  <2> QED BY <1>1, <2>1, <2>2, <2>3 DEF Moved
<1>3. CASE ~(c.tries + 1 < RetryLimit)
  <2> DEFINE r == [pc |-> pc, at |-> c.at, tries |-> 0, gaveUp |-> TRUE]
  <2>1. r \in CampState
    BY <1>1, Numbers, CampParts, CampStateParts
  <2>2. camps' = [camps EXCEPT ![i] = r]
    BY <1>1, <1>3, CampParts DEF Again
  <2>3. r.pc = pc /\ r.at = c.at /\ r.gaveUp = TRUE /\ lost' = TRUE
    BY <1>3, Zenon DEF Again
  <2> HIDE DEF r
  <2> QED BY <1>1, <2>1, <2>2, <2>3 DEF GivenUp
<1> QED BY <1>2, <1>3

(***************************************************************************)
(* A step of campaign i: as long as the others are where they were, and    *)
(* they are nowhere, only what is said of i has to be shown again.         *)
(***************************************************************************)
LEMMA StepOf ==
  ASSUME CInv, NEW i \in Campaigns, Alive(i), UNCHANGED sup,
         camps' \in [Campaigns -> CampState],
         \A j \in Campaigns \ {i} : camps'[j] = camps[j],
         PhoneType', HostType', mishaps' \in 0 .. MaxMishaps,
         PlaceOf(i)', QuietOf(i)', CapsInv'
  PROVE  CInv'
<1>1. \A j \in Campaigns \ {i} : ~Alive(j) /\ ~Alive(j)'
  BY DEF CInv, OneInv, OneCampaign, Alive
<1>2. \A j \in Campaigns \ {i} : PlaceOf(j)' /\ QuietOf(j)'
  BY <1>1, PhasesAre DEF PlaceOf, QuietOf, Alive
<1>3. OneInv'
  BY <1>1 DEF CInv, OneInv, OneCampaign
<1> QED BY <1>2, <1>3 DEF CInv

(* A step that is none of a campaign's leaves what is said of where it is. *)
LEMMA WorldStep ==
  ASSUME CInv, UNCHANGED <<camps, scripts, host, done>>, PhoneType', HostType',
         mishaps' \in 0 .. MaxMishaps, CapsInv', OneInv',
         benches' \subseteq benches
  PROVE  CInv'
<1>1. \A i \in Campaigns : PlaceOf(i)'
  BY Zenon DEF CInv, PlaceOf, Alive, Wd
<1>2. \A i \in Campaigns : QuietOf(i)'
  <2> SUFFICES ASSUME NEW i \in Campaigns PROVE QuietOf(i)'
    OBVIOUS
  <2>1. QuietOf(i)
    BY DEF CInv
  <2>2. (GivenUp(i) <=> GivenUp(i)') /\ camps'[i].pc = camps[i].pc
    BY Zenon DEF GivenUp
  <2> QED BY <2>1, <2>2 DEF QuietOf
<1> QED BY <1>1, <1>2 DEF CInv

-----------------------------------------------------------------------------
(* The cell a campaign is at is one of the list. *)
LEMMA InHand ==
  ASSUME CInv, NEW i \in Campaigns, Alive(i), camps[i].at <= Len(Cells)
  PROVE  Cell(i) \in Names
<1>1. camps[i].at \in 1 .. Len(Cells) /\ DOMAIN Cells = 1 .. Len(Cells)
  BY CampParts, CampaignAssumption DEF CInv, PlaceOf
<1> QED BY <1>1 DEF Cell, Names

(* The flags that scripts touch are files of a campaign and its cells. *)
LEMMA FlagsOfType ==
  ASSUME PhoneType, NEW B, B \subseteq benches
  PROVE  FlagsOf(B) \subseteq Evals \X Campaigns \X Names
  BY DEF PhoneType, FlagsOf, FlagOf

(* Killing the benches leaves none, and flags that are flags. *)
LEMMA KillBenchesType ==
  ASSUME PhoneType, KillBenches
  PROVE  benches' = {} /\ flags' \subseteq Evals \X Campaigns \X Names
  BY FlagsOfType DEF KillBenches, PhoneType

(* How a call of adb_safe_shell leaves the campaign that makes it. *)
CallEnds(i, from, to) ==
    /\ camps' \in [Campaigns -> CampState]
    /\ \A j \in Campaigns \ {i} : camps'[j] = camps[j]
    /\ camps'[i].at = camps[i].at
    /\ \/ Moved(i, from) \/ Moved(i, to)
       \/ camps'[i].pc = to /\ GivenUp(i)' /\ lost' = TRUE

(* A call is made again, goes on, or is given up. *)
LEMMA CallMoves ==
  ASSUME CInv, NEW i \in Campaigns, NEW pc \in Phases, Goto(i, pc) \/ Again(i, pc)
  PROVE  CallEnds(i, camps[i].pc, pc)
<1>1. CASE Goto(i, pc)
  BY <1>1, GotoMoves DEF CallEnds, Moved
<1>2. CASE Again(i, pc)
  BY <1>2, AgainMoves DEF CallEnds
<1> QED BY <1>1, <1>2

(* A mishap is counted. *)
LEMMA MishapType ==
  ASSUME mishaps \in 0 .. MaxMishaps, Mishap \/ UNCHANGED mishaps
  PROVE  mishaps' \in 0 .. MaxMishaps
  BY Numbers DEF Mishap

(* The host's files and the supervisor are not the business of a call. *)
LEMMA HostSame ==
  ASSUME CInv, UNCHANGED <<sup, host, done>>
  PROVE  HostType'
  BY DEF CInv, HostType

(* A call that changes nothing on the phone, or nothing that matters here. *)
LEMMA QuietStays ==
  ASSUME CInv, NEW i \in Campaigns, camps'[i].at = camps[i].at, Moved(i, camps[i].pc),
         UNCHANGED scripts, benches' \subseteq benches
  PROVE  QuietOf(i)'
<1>1. (GivenUp(i) <=> GivenUp(i)') /\ camps'[i].pc = camps[i].pc
  BY DEF GivenUp, Moved
<1>2. QuietOf(i)
  BY DEF CInv
<1> QED BY <1>1, <1>2 DEF QuietOf

(* platform_natural clears the phone of benches for the next cell. *)
LEMMA NaturalStep ==
  ASSUME CInv, NEW i \in Campaigns, Natural(i)
  PROVE  CInv'
<1> DEFINE to == IF Wd(i) THEN "startwd" ELSE "gen push"
<1>1. /\ UNCHANGED <<sup, host, done>> /\ camps[i].pc = "next" /\ camps[i].at <= Len(Cells)
      /\ Goto(i, to) \/ Again(i, to)
      /\ Mishap \/ UNCHANGED mishaps
  BY DEF Natural, Shell, At
<1>2. \/ KillBenches /\ UNCHANGED <<scripts, results, wds, wdStop, caps>>
      \/ UNCHANGED phone /\ Again(i, to)
  BY DEF Natural, Shell
<1>3. Alive(i) /\ to \in Phases
  BY <1>1, PhasesAre DEF Alive
<1>4. CallEnds(i, "next", to)
  BY <1>1, <1>3, CallMoves
<1>5. PhoneType' /\ CapsInv'
  <2>1. CASE UNCHANGED phone
    BY <2>1 DEF CInv, PhoneType, CapsInv, phone
  <2>2. CASE KillBenches /\ UNCHANGED <<scripts, results, wds, wdStop, caps>>
    BY <2>2, KillBenchesType DEF CInv, PhoneType, CapsInv
  <2> QED BY <1>2, <2>1, <2>2
<1>6. PlaceOf(i)'
  <2>1. camps'[i].pc = "startwd" => Wd(i)' = Wd(i) /\ Wd(i)
    BY <1>4 DEF CallEnds, Moved, Wd
  <2> QED BY <1>1, <1>3, <1>4, <2>1 DEF CInv, PlaceOf, CallEnds
<1>7. QuietOf(i)'
  <2>1. CASE camps'[i].pc = "next"
    BY <2>1 DEF QuietOf
  <2>2. CASE camps'[i].pc = to /\ GivenUp(i)'
    BY <2>2 DEF QuietOf
  <2>3. CASE camps'[i].pc = to /\ ~GivenUp(i)'
    <3>1. Moved(i, to)
      BY <1>4, <2>3 DEF CallEnds, Moved
    <3>2. benches' = {}
      <4>1. ~Again(i, to)
        BY <1>1, <1>3, <2>3, AgainMoves DEF Moved
      <4> QED BY <1>2, <4>1 DEF KillBenches
    <3>3. to \notin {"gen start", "gen wait"}
      OBVIOUS
    <3> QED BY <2>3, <3>2, <3>3 DEF QuietOf
  <2> QED BY <1>4, <2>1, <2>2, <2>3 DEF CallEnds, Moved
<1> HIDE DEF to
<1> QED BY <1>1, <1>3, <1>4, <1>5, <1>6, <1>7, StepOf, HostSame, MishapType DEF CallEnds, CInv

(* The watchdog starts for a cell that is to have it. *)
LEMMA StartWdStep ==
  ASSUME CInv, NEW i \in Campaigns, StartWd(i)
  PROVE  CInv'
<1>1. /\ UNCHANGED <<sup, host, done, scripts, benches, flags, results, caps>>
      /\ camps[i].pc = "startwd" 
      /\ Goto(i, "gen push") \/ Again(i, "gen push")
      /\ Mishap \/ UNCHANGED mishaps
      /\ \/ wdStop' = FALSE /\ wds' = wds + 1
         \/ UNCHANGED <<wds, wdStop>>
  BY DEF StartWd, Shell, At, phone
<1>2. Alive(i) /\ "gen push" \in Phases /\ camps[i].at <= Len(Cells)
  BY <1>1, PhasesAre DEF Alive, CInv, PlaceOf
<1>3. CallEnds(i, "startwd", "gen push")
  BY <1>1, <1>2, CallMoves
<1>4. PhoneType' /\ CapsInv'
  <2>0. wds \in Nat /\ wds' \in {wds, wds + 1}
    BY <1>1 DEF CInv, PhoneType
  <2>1. wds' \in Nat /\ (wds' = 0 => wds = 0)
    BY <2>0
  <2>2. wdStop' \in BOOLEAN
    BY <1>1 DEF CInv, PhoneType
  <2> QED BY <1>1, <2>1, <2>2 DEF CInv, PhoneType, CapsInv
<1>5. Wd(i)' /\ benches' = benches
  BY <1>1, <1>3 DEF CInv, PlaceOf, CallEnds, Wd
<1>6. PlaceOf(i)'
  BY <1>2, <1>3, <1>5 DEF CInv, PlaceOf, CallEnds
<1>7. QuietOf(i)'
  <2>1. GivenUp(i)' \/ benches = {}
    BY <1>1, <1>3 DEF CInv, QuietOf, GivenUp, CallEnds, Moved
  <2>2. camps'[i].pc \in {"startwd", "gen push"}
    BY <1>3 DEF CallEnds, Moved
  <2>3. camps'[i].pc \notin {"gen start", "gen wait"}
    BY <2>2
  <2> QED BY <1>5, <2>1, <2>3 DEF QuietOf
<1> QED BY <1>1, <1>2, <1>3, <1>4, <1>6, <1>7, StepOf, HostSame, MishapType DEF CallEnds, CInv

(* The watchdog is told to stop when its cell has been measured. *)
LEMMA StopWdStep ==
  ASSUME CInv, NEW i \in Campaigns, StopWd(i)
  PROVE  CInv'
<1>1. /\ UNCHANGED <<sup, host, done, scripts, benches, flags, results, wds, caps>>
      /\ camps[i].pc = "stopwd"
      /\ Goto(i, "pull") \/ Again(i, "pull")
      /\ Mishap \/ UNCHANGED mishaps
      /\ wdStop' = TRUE \/ wdStop' = wdStop
  BY DEF StopWd, Shell, At, phone
<1>2. Alive(i) /\ "pull" \in Phases /\ camps[i].at <= Len(Cells)
  BY <1>1, PhasesAre DEF Alive, CInv, PlaceOf
<1>3. CallEnds(i, "stopwd", "pull")
  BY <1>1, <1>2, CallMoves
<1>4. PhoneType' /\ CapsInv'
  <2>1. wdStop' \in BOOLEAN
    BY <1>1 DEF CInv, PhoneType
  <2> QED BY <1>1, <2>1 DEF CInv, PhoneType, CapsInv
<1>5. camps'[i].pc \in {"stopwd", "pull"}
  BY <1>3 DEF CallEnds, Moved
<1>6. PlaceOf(i)' /\ QuietOf(i)'
  BY <1>2, <1>3, <1>5 DEF CInv, PlaceOf, QuietOf, CallEnds
<1> QED BY <1>1, <1>2, <1>3, <1>4, <1>6, StepOf, HostSame, MishapType DEF CallEnds, CInv

(* After the last cell the clock is given back. *)
LEMMA UncapStep ==
  ASSUME CInv, NEW i \in Campaigns, Uncap(i)
  PROVE  CInv'
<1>1. /\ UNCHANGED <<sup, host, done, scripts, benches, flags, results, wds>>
      /\ camps[i].pc = "next"
      /\ Goto(i, "finish") \/ Again(i, "finish")
      /\ Mishap \/ UNCHANGED mishaps
      /\ wdStop' = TRUE \/ wdStop' = wdStop
      /\ caps' \subseteq caps
  BY DEF Uncap, Shell, At, phone
<1>2. Alive(i) /\ "finish" \in Phases
  BY <1>1, PhasesAre DEF Alive
<1>3. CallEnds(i, "next", "finish")
  BY <1>1, <1>2, CallMoves
<1>4. PhoneType' /\ CapsInv'
  <2>1. wdStop' \in BOOLEAN
    BY <1>1 DEF CInv, PhoneType
  <2> QED BY <1>1, <2>1 DEF CInv, PhoneType, CapsInv
<1>5. camps'[i].pc \in {"next", "finish"}
  BY <1>3 DEF CallEnds, Moved
<1>6. PlaceOf(i)' /\ QuietOf(i)'
  BY <1>2, <1>3, <1>5, PhasesAre DEF CInv, PlaceOf, QuietOf, CallEnds
<1> QED BY <1>1, <1>2, <1>3, <1>4, <1>6, StepOf, HostSame, MishapType DEF CallEnds, CInv

(* A cell that is done is passed over, and so is one that has been pulled. *)
LEMMA SkipPullStep ==
  ASSUME CInv, NEW i \in Campaigns, Skip(i) \/ Pull(i)
  PROVE  CInv'
<1>1. /\ UNCHANGED <<sup, done, phone>> /\ NextCell(i) /\ camps[i].pc \in {"next", "pull"}
      /\ Mishap \/ UNCHANGED mishaps
      /\ host' \subseteq host \cup {Cell(i)}
  BY DEF Skip, Pull, At
<1>2. Alive(i) /\ camps[i].at <= Len(Cells)
  BY <1>1, PhasesAre DEF Alive, CInv, PlaceOf, Skip, Pull, At
<1>3. Moved(i, "next") /\ camps'[i].at = camps[i].at + 1 /\ camps[i].at \in Nat
  BY <1>1, <1>2, NextCellMoves, CampParts, Numbers DEF CInv
<1>4. PhoneType' /\ CapsInv'
  BY <1>1 DEF CInv, PhoneType, CapsInv, phone
<1>5. HostType'
  BY <1>1, <1>2, InHand DEF CInv, HostType
<1>6. PlaceOf(i)' /\ QuietOf(i)'
  <2>1. camps'[i].pc = "next" /\ camps'[i].at >= 1
    BY <1>3 DEF Moved
  <2>2. "next" \notin Measuring
    BY PhasesAre
  <2> QED BY <2>1, <2>2 DEF PlaceOf, QuietOf
<1> QED BY <1>1, <1>2, <1>3, <1>4, <1>5, <1>6, StepOf, MishapType DEF Moved, CInv

(* The script for the next bench replaces the last one, of no bench that runs. *)
LEMMA PushStep ==
  ASSUME CInv, NEW i \in Campaigns, NEW e \in Evals, Push(i, e)
  PROVE  CInv'
<1>1. /\ UNCHANGED <<sup, host, done, benches, flags, results, wds, wdStop, caps>>
      /\ camps[i].pc = Pushing[e] /\ Goto(i, Starting[e])
      /\ Mishap \/ UNCHANGED mishaps
      /\ scripts' = [scripts EXCEPT ![e] = <<i, Cell(i)>>] \/ scripts' = scripts
  BY DEF Push, At
<1>2. e \in {"gen", "ppl"} /\ Starting[e] \in Phases /\ Pushing[e] \in Measuring
  BY PhaseNames, PhasesAre DEF Evals
<1>3. Alive(i) /\ camps[i].at <= Len(Cells)
  BY <1>1, <1>2, PhasesAre DEF Alive, CInv, PlaceOf
<1>4. Moved(i, Starting[e]) /\ camps'[i].at = camps[i].at
  BY <1>1, <1>2, GotoMoves
<1>5. PhoneType' /\ CapsInv'
  <2>1. <<i, Cell(i)>> \in {<<>>} \cup (Campaigns \X Names)
    BY <1>3, InHand
  <2>2. scripts' \in [Evals -> {<<>>} \cup (Campaigns \X Names)]
    BY <1>1, <2>1 DEF CInv, PhoneType
  <2> QED BY <1>1, <2>2 DEF CInv, PhoneType, CapsInv
<1>6. PlaceOf(i)'
  BY <1>2, <1>3, <1>4, PhaseNames DEF CInv, PlaceOf, Moved
<1>7. QuietOf(i)'
  <2>1. GivenUp(i) <=> GivenUp(i)'
    BY <1>4 DEF GivenUp, Moved
  <2>2. CASE e = "gen"
    <3>1. camps[i].pc = "gen push" /\ camps'[i].pc = "gen start"
      BY <1>1, <1>4, <2>2, PhaseNames DEF Moved
    <3>2. QuietOf(i)
      BY DEF CInv
    <3> QED BY <1>1, <2>1, <3>1, <3>2 DEF QuietOf
  <2>3. CASE e = "ppl"
    <3>1. camps'[i].pc = "ppl start"
      BY <1>4, <2>3, PhaseNames DEF Moved
    <3> QED BY <3>1 DEF QuietOf
  <2> QED BY <1>2, <2>2, <2>3
<1> QED BY <1>1, <1>3, <1>4, <1>5, <1>6, <1>7, StepOf, HostSame, MishapType DEF Moved, CInv

(* The script that is started is the one on the phone. *)
LEMMA RunScriptType ==
  ASSUME PhoneType, mishaps \in 0 .. MaxMishaps, NEW e \in Evals, RunScript(e)
  PROVE  /\ benches' \subseteq [eval : Evals, run : Campaigns, cell : Names,
                                copy : 0 .. MaxMishaps]
         /\ flags' \subseteq flags
         /\ \A b \in benches' \ benches : b.eval = e /\ <<b.run, b.cell>> = scripts[e]
<1>1. CASE scripts[e] = <<>>
  BY <1>1 DEF RunScript, PhoneType
<1>2. CASE scripts[e] # <<>>
  <2> DEFINE r == scripts[e][1]
             c == scripts[e][2]
             b == [eval |-> e, run |-> r, cell |-> c, copy |-> mishaps]
  <2>1. scripts[e] \in Campaigns \X Names
    BY <1>2 DEF PhoneType
  <2>2. r \in Campaigns /\ c \in Names /\ scripts[e] = <<r, c>>
    BY <2>1
  <2>3. benches' = benches \cup {b} /\ flags' = flags \ {FlagOf(b)}
    BY <1>2 DEF RunScript
  <2> HIDE DEF r, c
  <2>4. b \in [eval : Evals, run : Campaigns, cell : Names, copy : 0 .. MaxMishaps]
    BY <2>2
  <2>5. b.eval = e /\ <<b.run, b.cell>> = scripts[e]
    BY <2>2
  <2> HIDE DEF b
  <2> QED BY <2>3, <2>4, <2>5 DEF PhoneType
<1> QED BY <1>1, <1>2

(* A bench starts, from the script pushed for it. *)
LEMMA LaunchStep ==
  ASSUME CInv, NEW i \in Campaigns, NEW e \in Evals, Launch(i, e)
  PROVE  CInv'
<1>1. /\ UNCHANGED <<sup, host, done, scripts, results, wds, wdStop, caps>>
      /\ camps[i].pc = Starting[e]
      /\ Goto(i, Waiting[e]) \/ Again(i, Waiting[e])
      /\ Mishap \/ UNCHANGED mishaps
      /\ RunScript(e) \/ UNCHANGED <<benches, flags>>
  BY DEF Launch, Shell, At, phone, RunScript
<1>2. e \in {"gen", "ppl"} /\ Starting[e] \in Measuring /\ Waiting[e] \in Phases
  BY PhaseNames, PhasesAre DEF Evals
<1>3. Alive(i) /\ camps[i].at <= Len(Cells)
  BY <1>1, <1>2, PhasesAre DEF Alive, CInv, PlaceOf
<1>4. CallEnds(i, Starting[e], Waiting[e])
  BY <1>1, <1>2, CallMoves
<1>5. /\ PhoneType' /\ CapsInv'
      /\ \A b \in benches' \ benches : b.eval = e /\ <<b.run, b.cell>> = scripts[e]
  BY <1>1, RunScriptType DEF CInv, PhoneType, CapsInv
<1>6. PlaceOf(i)'
  <2>1. camps'[i].pc # "startwd"
    BY <1>2, <1>4, PhaseNames DEF CallEnds, Moved
  <2> QED BY <1>3, <1>4, <2>1 DEF CInv, PlaceOf, CallEnds
<1>7. QuietOf(i)'
  <2>2. CASE e = "gen"
    <3>1. camps[i].pc = "gen start" /\ camps'[i].pc \in {"gen start", "gen wait"}
      BY <1>1, <1>4, <2>2, PhaseNames DEF CallEnds, Moved
    <3>2. QuietOf(i) /\ (~GivenUp(i)' => ~GivenUp(i))
      BY <1>4 DEF CInv, GivenUp, CallEnds, Moved
    <3>3. ~GivenUp(i)' => \A b \in benches' : /\ b.eval = "gen"
                                              /\ <<b.run, b.cell>> = scripts["gen"]
      BY <1>5, <2>2, <3>1, <3>2 DEF QuietOf
    <3> QED BY <1>1, <3>1, <3>3 DEF QuietOf
  <2>3. CASE e = "ppl"
    <3>1. camps'[i].pc \in {"ppl start", "ppl wait"}
      BY <1>4, <2>3, PhaseNames DEF CallEnds, Moved
    <3> QED BY <3>1 DEF QuietOf
  <2> QED BY <1>2, <2>2, <2>3
<1> QED BY <1>1, <1>3, <1>4, <1>5, <1>6, <1>7, StepOf, HostSame, MishapType DEF CallEnds, CInv

(* A bench whose flag is there is over. *)
LEMMA WaitedStep ==
  ASSUME CInv, NEW i \in Campaigns, NEW e \in Evals, Waited(i, e)
  PROVE  CInv'
<1> DEFINE to == IF e = "gen" THEN "ppl push" ELSE IF Wd(i) THEN "stopwd" ELSE "pull"
<1>1. /\ UNCHANGED <<sup, host, done, phone, mishaps>>
      /\ camps[i].pc = Waiting[e] /\ Goto(i, to)
  BY DEF Waited, At
<1>2. e \in {"gen", "ppl"} /\ Waiting[e] \in Measuring /\ to \in Phases
  BY PhaseNames, PhasesAre DEF Evals
<1>3. Alive(i) /\ camps[i].at <= Len(Cells)
  BY <1>1, <1>2, PhasesAre DEF Alive, CInv, PlaceOf
<1>4. Moved(i, to) /\ camps'[i].at = camps[i].at
  BY <1>1, <1>2, GotoMoves
<1>5. camps'[i].pc \in {"ppl push", "stopwd", "pull"}
  BY <1>4 DEF Moved
<1>6. PlaceOf(i)' /\ QuietOf(i)'
  BY <1>3, <1>4, <1>5 DEF CInv, PlaceOf, QuietOf
<1>7. PhoneType' /\ CapsInv' /\ HostType'
  BY <1>1 DEF CInv, PhoneType, HostType, CapsInv, phone
<1> HIDE DEF to
<1> QED BY <1>1, <1>3, <1>4, <1>6, <1>7, StepOf DEF Moved, CInv

(* A campaign ends. *)
LEMMA FinishStep ==
  ASSUME CInv, NEW i \in Campaigns, Finish(i)
  PROVE  CInv'
<1>1. /\ UNCHANGED <<sup, host, phone, mishaps>> /\ done' = TRUE
      /\ camps[i].pc = "finish" /\ Goto(i, "over")
  BY DEF Finish, At
<1>2. Alive(i) /\ "over" \in Phases /\ "over" \notin Measuring
  BY <1>1, PhasesAre DEF Alive
<1>3. Moved(i, "over") /\ camps'[i].at = camps[i].at
  BY <1>1, <1>2, GotoMoves
<1>4. PlaceOf(i)' /\ QuietOf(i)'
  BY <1>2, <1>3 DEF PlaceOf, QuietOf, Alive, Moved
<1>5. PhoneType' /\ CapsInv'
  BY <1>1 DEF CInv, PhoneType, CapsInv, phone
<1>6. HostType'
  BY <1>1 DEF CInv, HostType
<1> QED BY <1>1, <1>2, <1>3, <1>4, <1>5, <1>6, StepOf DEF Moved, CInv

-----------------------------------------------------------------------------
(* A supervisor gets the lock only when no campaign holds it. *)
LEMMA SupStartStep ==
  ASSUME CInv, SupStart
  PROVE  CInv'
<1>1. /\ UNCHANGED <<camps, host, done, phone, mishaps>>
      /\ sup' = [on |-> TRUE, cpid |-> 0] /\ \A i \in Campaigns : ~Alive(i)
  BY DEF SupStart
<1>2. HostType'
  BY <1>1, Numbers DEF CInv, HostType
<1>3. OneInv'
  BY <1>1 DEF OneInv, OneCampaign, Alive
<1>4. PhoneType' /\ CapsInv'
  BY <1>1 DEF CInv, PhoneType, CapsInv, phone
<1>5. UNCHANGED <<camps, host, done, scripts, benches>>
  BY <1>1 DEF phone
<1>6. mishaps' \in 0 .. MaxMishaps
  BY <1>1 DEF CInv
<1> QED BY <1>2, <1>3, <1>4, <1>5, <1>6, WorldStep

(* A supervisor that ends or dies leaves its campaign, which keeps the lock. *)
LEMMA SupStopStep ==
  ASSUME CInv, SupEnd \/ SupDies
  PROVE  CInv'
<1>1. /\ UNCHANGED <<camps, host, done, phone, mishaps>>
      /\ sup' = [on |-> FALSE, cpid |-> 0]
  BY DEF SupEnd, SupDies
<1>2. HostType'
  BY <1>1, Numbers DEF CInv, HostType
<1>3. OneInv'
  BY <1>1 DEF CInv, OneInv, OneCampaign, Alive
<1>4. PhoneType' /\ CapsInv'
  BY <1>1 DEF CInv, PhoneType, CapsInv, phone
<1>5. UNCHANGED <<camps, host, done, scripts, benches>>
  BY <1>1 DEF phone
<1>6. mishaps' \in 0 .. MaxMishaps
  BY <1>1 DEF CInv
<1> QED BY <1>2, <1>3, <1>4, <1>5, <1>6, WorldStep

(* The supervisor starts a campaign when the one it knows is over. *)
LEMMA SupLaunchStep ==
  ASSUME CInv, SupLaunch
  PROVE  CInv'
<1>1. PICK i \in Campaigns : /\ camps' = [camps EXCEPT ![i] = Started]
                             /\ sup' = [sup EXCEPT !.cpid = i]
  BY DEF SupLaunch
<1>2. /\ UNCHANGED <<host, done, phone, mishaps>> /\ sup.on = TRUE
      /\ sup.cpid # 0 => ~Alive(sup.cpid)
  BY DEF SupLaunch
<1>3. \A j \in Campaigns : ~Alive(j)
  BY <1>2 DEF CInv, OneInv, Campaigns
<1>4. Started \in CampState /\ Started.pc = "next" /\ Started.at = 1
  <2>1. "next" \in Phases
    BY PhasesAre
  <2>2. 1 \in 0 .. Len(Cells) + 1
    BY Numbers
  <2>3. FALSE \in BOOLEAN
    BY Zenon
  <2> QED BY <2>1, <2>2, <2>3, Numbers, CampStateParts DEF Started
<1>5. /\ camps' \in [Campaigns -> CampState] /\ camps'[i].pc = "next" /\ camps'[i].at = 1
      /\ \A j \in Campaigns \ {i} : camps'[j] = camps[j]
  BY <1>1, <1>4 DEF CInv
<1>6. \A j \in Campaigns : PlaceOf(j)' /\ QuietOf(j)'
  <2> SUFFICES ASSUME NEW j \in Campaigns PROVE PlaceOf(j)' /\ QuietOf(j)'
    OBVIOUS
  <2>1. camps'[j].pc \in {"next", "none", "over"} /\ (camps'[j].pc = "next" => j = i)
    BY <1>3, <1>5 DEF Alive
  <2>2. camps'[j].pc \notin Measuring
    BY <2>1, PhasesAre
  <2>3. camps'[j].at >= 1 \/ ~Alive(j)'
    BY <1>5, <2>1 DEF Alive
  <2>4. PlaceOf(j)'
    BY <2>1, <2>2, <2>3 DEF PlaceOf
  <2>5. QuietOf(j)'
    BY <2>1 DEF QuietOf
  <2> QED BY <2>4, <2>5
<1>7. HostType'
  <2>1. i \in 0 .. MaxCampaigns
    BY DEF Campaigns
  <2> QED BY <1>1, <1>2, <2>1 DEF CInv, HostType
<1>8. OneInv'
  <2>1. sup'.cpid = i
    BY <1>1 DEF CInv, HostType
  <2>2. \A j \in Campaigns \ {i} : ~Alive(j)'
    BY <1>3, <1>5 DEF Alive
  <2> QED BY <2>1, <2>2 DEF OneInv, OneCampaign
<1>9. PhoneType' /\ CapsInv' /\ mishaps' \in 0 .. MaxMishaps
  BY <1>2 DEF CInv, PhoneType, CapsInv, phone
<1> QED BY <1>5, <1>6, <1>7, <1>8, <1>9 DEF CInv

(* A stall ends the campaign the supervisor knows, the only one there is.  *)
LEMMA StallStep ==
  ASSUME CInv, StallOfStuck \/ StallOfSlow
  PROVE  CInv'
<1> DEFINE i == sup.cpid
<1>1. /\ camps' = [camps EXCEPT ![i] = NotStarted] /\ sup' = [sup EXCEPT !.cpid = 0]
      /\ benches' \subseteq benches /\ flags' = {} /\ results' = {}
      /\ UNCHANGED <<host, done, scripts, wds, wdStop, caps>>
      /\ Mishap \/ UNCHANGED mishaps
      /\ sup.on = TRUE /\ i # 0
  BY DEF StallOfStuck, StallOfSlow, Restart, Watched
<1>2. i \in Campaigns
  BY <1>1, Numbers DEF CInv, HostType, Campaigns
<1>3. \A j \in Campaigns : Alive(j) => j = i
  BY <1>1 DEF CInv, OneInv
<1>4. NotStarted \in CampState /\ NotStarted.pc = "none"
  <2>1. "none" \in Phases
    BY PhasesAre
  <2>2. 0 \in 0 .. Len(Cells) + 1
    BY Numbers
  <2>3. FALSE \in BOOLEAN
    BY Zenon
  <2> QED BY <2>1, <2>2, <2>3, Numbers, CampStateParts DEF NotStarted
<1> HIDE DEF i
<1>5. /\ camps' \in [Campaigns -> CampState]
      /\ \A j \in Campaigns : camps'[j].pc \in {"none", "over"}
  BY <1>1, <1>2, <1>3, <1>4 DEF CInv, Alive
<1>6. \A j \in Campaigns : PlaceOf(j)' /\ QuietOf(j)' /\ ~Alive(j)'
  BY <1>5, PhasesAre DEF PlaceOf, QuietOf, Alive
<1>7. HostType'
  BY <1>1, Numbers DEF CInv, HostType
<1>8. OneInv'
  BY <1>6 DEF OneInv, OneCampaign
<1>9. PhoneType' /\ CapsInv' /\ mishaps' \in 0 .. MaxMishaps
  BY <1>1, MishapType DEF CInv, PhoneType, CapsInv
<1> QED BY <1>5, <1>6, <1>7, <1>8, <1>9 DEF CInv

(* What happens on the phone by itself. *)
LEMMA PhoneStep ==
  ASSUME CInv, BenchEnds \/ WdCaps \/ WdEnds \/ Reboot
  PROVE  CInv'
<1>1. /\ UNCHANGED <<camps, sup, host, done, scripts, wdStop>> /\ benches' \subseteq benches
      /\ Mishap \/ UNCHANGED mishaps
  BY DEF BenchEnds, WdCaps, WdEnds, Reboot
<1>2. HostType' /\ OneInv' /\ mishaps' \in 0 .. MaxMishaps
  BY <1>1, MishapType DEF CInv, HostType, OneInv, OneCampaign, Alive
<1>3. wds' \in Nat /\ CapsInv'
  <2>1. wds \in Nat /\ CapsInv
    BY DEF CInv, PhoneType
  <2>2. CASE BenchEnds
    BY <2>1, <2>2 DEF BenchEnds, CapsInv
  <2>3. CASE WdCaps
    BY <2>1, <2>3 DEF WdCaps, CapsInv
  <2>4. CASE WdEnds
    BY <2>1, <2>4 DEF WdEnds, CapsInv
  <2>5. CASE Reboot
    BY <2>1, <2>5 DEF Reboot, CapsInv
  <2> QED BY <2>2, <2>3, <2>4, <2>5
<1>4. flags' \subseteq Evals \X Campaigns \X Names /\ results' \subseteq Campaigns \X Names
  <2>1. CASE BenchEnds
    <3>1. PICK b \in benches : /\ flags' = flags \cup FlagsOf({b})
                               /\ results' \subseteq results \cup {<<b.run, b.cell>>}
      BY <2>1 DEF BenchEnds
    <3>2. b.run \in Campaigns /\ b.cell \in Names /\ {b} \subseteq benches
      BY DEF CInv, PhoneType
    <3>3. FlagsOf({b}) \subseteq Evals \X Campaigns \X Names
      BY <3>2, FlagsOfType DEF CInv
    <3>4. <<b.run, b.cell>> \in Campaigns \X Names
      BY <3>2
    <3>5. flags \subseteq Evals \X Campaigns \X Names /\ results \subseteq Campaigns \X Names
      BY DEF CInv, PhoneType
    <3> QED BY <3>1, <3>3, <3>4, <3>5
  <2>2. CASE WdCaps \/ WdEnds \/ Reboot
    BY <2>2 DEF CInv, PhoneType, WdCaps, WdEnds, Reboot
  <2> QED BY <2>1, <2>2
<1>5. caps' \subseteq {"perf", "prime"}
  BY DEF CInv, PhoneType, BenchEnds, WdCaps, WdEnds, Reboot
<1>6. PhoneType'
  BY <1>1, <1>3, <1>4, <1>5 DEF CInv, PhoneType
<1> QED BY <1>1, <1>2, <1>3, <1>6, WorldStep

(* Calls that were given up stay given up. *)
LEMMA LostStays ==
  ASSUME [Next]_vars
  PROVE  lost' = TRUE \/ lost' = lost
<1>1. ASSUME NEW i \in Campaigns, NEW pc, Again(i, pc) PROVE lost' = TRUE \/ lost' = lost
  BY <1>1 DEF Again
<1>2. ASSUME NEW i \in Campaigns, Natural(i) \/ StartWd(i) \/ StopWd(i) \/ Uncap(i)
      PROVE  lost' = TRUE \/ lost' = lost
  BY <1>1, <1>2 DEF Natural, StartWd, StopWd, Uncap, Shell
<1>3. ASSUME NEW i \in Campaigns, NEW e \in Evals, Push(i, e) \/ Launch(i, e) \/ Waited(i, e)
      PROVE  lost' = TRUE \/ lost' = lost
  BY <1>1, <1>3 DEF Push, Launch, Waited, Shell
<1>4. ASSUME NEW i \in Campaigns, CampaignStep(i) PROVE lost' = TRUE \/ lost' = lost
  BY <1>2, <1>3, <1>4 DEF CampaignStep, Skip, Pull, Finish
<1>5. CASE SupStart \/ SupLaunch \/ SupEnd \/ StallOfStuck \/ StallOfSlow
  BY <1>5 DEF SupStart, SupLaunch, SupEnd, StallOfStuck, StallOfSlow, Restart
<1>6. CASE SupDies \/ BenchEnds \/ WdCaps \/ WdEnds \/ Reboot
  BY <1>6 DEF SupDies, BenchEnds, WdCaps, WdEnds, Reboot
<1> QED BY <1>4, <1>5, <1>6 DEF Next, vars

(* A call has been given up, or not. *)
LEMMA LostType == Spec => [](lost \in BOOLEAN)
<1>1. Init => lost \in BOOLEAN
  BY Zenon DEF Init
<1>2. lost \in BOOLEAN /\ [Next]_vars => (lost \in BOOLEAN)'
  BY LostStays, Zenon
<1> QED BY <1>1, <1>2, PTL DEF Spec

(* Every step keeps the invariant. *)
LEMMA NextCInv ==
  ASSUME CInv, [Next]_vars
  PROVE  CInv'
<1>1. ASSUME NEW i \in Campaigns, CampaignStep(i) PROVE CInv'
  BY <1>1, SkipPullStep, NaturalStep, StartWdStep, StopWdStep, PushStep, LaunchStep, WaitedStep,
     UncapStep, FinishStep DEF CampaignStep
<1>2. CASE UNCHANGED vars
  <2>1. UNCHANGED <<camps, sup, host, done, phone, mishaps>>
    BY <1>2 DEF vars
  <2>2. HostType' /\ OneInv' /\ PhoneType' /\ CapsInv' /\ mishaps' \in 0 .. MaxMishaps
    BY <2>1 DEF CInv, HostType, OneInv, OneCampaign, Alive, PhoneType, CapsInv, phone
  <2> QED BY <2>1, <2>2, WorldStep DEF phone
<1> QED BY <1>1, <1>2, SupStartStep, SupLaunchStep, SupStopStep, StallStep, PhoneStep DEF Next

-----------------------------------------------------------------------------
(* A step of campaign i leaves the others nowhere. *)
LEMMA WatchStepOf ==
  ASSUME CInv, WInv, NEW i \in Campaigns, Alive(i),
         \A j \in Campaigns \ {i} : camps'[j] = camps[j], WatchOf(i)', RerunInv'
  PROVE  WInv'
<1>1. \A j \in Campaigns \ {i} : camps'[j].pc \in {"none", "over"}
  BY DEF CInv, OneInv, OneCampaign, Alive
<1>2. \A j \in Campaigns \ {i} : WatchOf(j)'
  BY <1>1, PhasesAre DEF WatchOf
<1> QED BY <1>2 DEF WInv

(* The cell of a watchdog stays to be measured as long as nobody passes it. *)
LEMMA RerunStays ==
  ASSUME CInv, RerunInv, lost' = TRUE \/ lost' = lost, host' = host,
         wds' > 0 => wds > 0, wdStop' = TRUE \/ wdStop' = wdStop,
         \A i \in Campaigns : Alive(i)' => \/ camps'[i].at = 1
                                           \/ Alive(i) /\ camps'[i].at = camps[i].at
  PROVE  RerunInv'
<1> SUFFICES ASSUME lost' = FALSE, wds' > 0, wdStop' = FALSE
             PROVE  \E k \in DOMAIN Cells :
                      /\ Cells[k].wd /\ Cells[k].cell \notin host'
                      /\ \A i \in Campaigns : Alive(i)' => camps'[i].at <= k
  BY DEF RerunInv
<1>1. lost = FALSE /\ wds > 0 /\ wdStop = FALSE
  OBVIOUS
<1>2. PICK k \in DOMAIN Cells : /\ Cells[k].wd /\ Cells[k].cell \notin host
                                /\ \A i \in Campaigns : Alive(i) => camps[i].at <= k
  BY <1>1 DEF RerunInv
<1>3. 1 <= k
  BY CampaignAssumption
<1>4. \A i \in Campaigns : Alive(i)' => camps'[i].at <= k
  BY <1>2, <1>3
<1> QED BY <1>2, <1>4

(* A campaign that stays at its cell. *)
LEMMA RerunCall ==
  ASSUME CInv, RerunInv, lost' = TRUE \/ lost' = lost, host' = host, wds' = wds,
         wdStop' = TRUE \/ wdStop' = wdStop,
         NEW i \in Campaigns, Alive(i), camps'[i].at = camps[i].at,
         \A j \in Campaigns \ {i} : camps'[j] = camps[j]
  PROVE  RerunInv'
<1>1. \A j \in Campaigns : Alive(j)' => Alive(j) /\ camps'[j].at = camps[j].at
  BY DEF Alive
<1> QED BY <1>1, RerunStays

(* A step that is none of a campaign's, but may start or kill one. *)
LEMMA WatchWorld ==
  ASSUME CInv, WInv, host' = host, lost' = lost, wdStop' = wdStop,
         wds' = 0 \/ wds' = wds \/ wds' = wds - 1, wds' \in Nat,
         \A i \in Campaigns : \/ camps'[i] = camps[i]
                              \/ /\ camps'[i].pc \in {"none", "next"}
                                 /\ Alive(i)' => camps'[i].at = 1
  PROVE  WInv'
<1>1. wds \in Nat
  BY DEF CInv, PhoneType
<1>2. RerunInv'
  <2>1. \A i \in Campaigns : Alive(i)' => \/ camps'[i].at = 1
                                          \/ Alive(i) /\ camps'[i].at = camps[i].at
    BY DEF Alive
  <2> QED BY <1>1, <2>1, RerunStays DEF WInv
<1>3. ASSUME NEW i \in Campaigns PROVE WatchOf(i)'
  <2>1. CASE camps'[i] = camps[i]
    <3>1. WatchOf(i) /\ (Wd(i) <=> Wd(i)') /\ Cell(i)' = Cell(i)
      BY <2>1 DEF WInv, Wd, Cell
    <3>2. wds = 0 => wds' = 0
      BY <1>1
    <3> QED BY <2>1, <3>1, <3>2 DEF WatchOf
  <2>2. CASE camps'[i].pc \in {"none", "next"}
    BY <2>2, PhasesAre DEF WatchOf
  <2> QED BY <2>1, <2>2
<1> QED BY <1>2, <1>3 DEF WInv

(* A cell is passed over, which is not that of a watchdog that runs on. *)
LEMMA SkipWatch ==
  ASSUME CInv, WInv, NEW i \in Campaigns, Skip(i)
  PROVE  WInv'
<1>1. /\ UNCHANGED <<host, phone, lost>> /\ NextCell(i) /\ Cell(i) \in host
      /\ camps[i].pc = "next" /\ camps[i].at <= Len(Cells)
  BY DEF Skip, At
<1>2. Alive(i) /\ UNCHANGED <<wds, wdStop>>
  BY <1>1 DEF Alive, phone
<1>3. Moved(i, "next") /\ camps'[i].at = camps[i].at + 1 /\ camps[i].at \in Nat
  BY <1>1, NextCellMoves, CampParts, Numbers DEF CInv
<1>4. WatchOf(i)'
  BY <1>3, PhasesAre DEF WatchOf, Moved
<1>5. RerunInv'
  <2> SUFFICES ASSUME lost = FALSE, wds > 0, wdStop = FALSE
               PROVE  \E k \in DOMAIN Cells :
                        /\ Cells[k].wd /\ Cells[k].cell \notin host
                        /\ \A j \in Campaigns : Alive(j)' => camps'[j].at <= k
    BY <1>1, <1>2 DEF RerunInv
  <2>1. PICK k \in DOMAIN Cells : /\ Cells[k].wd /\ Cells[k].cell \notin host
                                  /\ \A j \in Campaigns : Alive(j) => camps[j].at <= k
    BY DEF WInv, RerunInv
  <2>2. camps[i].at <= k /\ k # camps[i].at /\ k \in Nat
    BY <1>1, <1>2, <2>1, CampaignAssumption DEF Cell
  <2>3. camps'[i].at <= k
    BY <1>3, <2>2
  <2>4. \A j \in Campaigns : Alive(j)' => camps'[j].at <= k
    BY <1>3, <2>1, <2>3 DEF Moved, Alive
  <2> QED BY <2>1, <2>4
<1> QED BY <1>2, <1>3, <1>4, <1>5, WatchStepOf DEF Moved

(***************************************************************************)
(* A cell with a watchdog is pulled when that has been told to stop; a     *)
(* baseline comes after every watchdog's cell.                             *)
(***************************************************************************)
LEMMA PullWatch ==
  ASSUME WatchedFirst, CInv, WInv, NEW i \in Campaigns, Pull(i)
  PROVE  WInv'
<1>1. UNCHANGED <<phone, lost>> /\ NextCell(i) /\ camps[i].pc = "pull"
  BY DEF Pull, At
<1>2. Alive(i) /\ camps[i].at <= Len(Cells) /\ UNCHANGED <<wds, wdStop>>
  BY <1>1, PhasesAre DEF Alive, CInv, PlaceOf, phone
<1>3. Moved(i, "next") /\ camps'[i].at = camps[i].at + 1
  BY <1>1, <1>2, NextCellMoves
<1>4. WatchOf(i)'
  BY <1>3, PhasesAre DEF WatchOf, Moved
<1>5. camps[i].at \in DOMAIN Cells
  BY <1>2, CampParts, CampaignAssumption DEF CInv, PlaceOf
<1>6. ~(lost = FALSE /\ wds > 0 /\ wdStop = FALSE)
  <2> SUFFICES ASSUME lost = FALSE, wds > 0, wdStop = FALSE PROVE FALSE
    OBVIOUS
  <2>1. ~Wd(i)
    BY <1>1 DEF WInv, WatchOf
  <2>2. PICK k \in DOMAIN Cells : Cells[k].wd /\ camps[i].at <= k
    BY <1>2 DEF WInv, RerunInv
  <2>3. camps[i].at # k
    BY <2>1, <2>2 DEF Wd
  <2>4. camps[i].at < k
    BY <1>5, <2>2, <2>3, CampaignAssumption
  <2> QED BY <1>5, <2>1, <2>2, <2>4 DEF WatchedFirst, Wd
<1>7. RerunInv'
  BY <1>1, <1>2, <1>6 DEF RerunInv
<1> QED BY <1>2, <1>3, <1>4, <1>7, WatchStepOf DEF Moved

(* platform_natural comes to no watchdog, only to a cell that is not done. *)
LEMMA NaturalWatch ==
  ASSUME CInv, WInv, NEW i \in Campaigns, Natural(i), lost' = TRUE \/ lost' = lost
  PROVE  WInv'
<1> DEFINE to == IF Wd(i) THEN "startwd" ELSE "gen push"
<1>1. /\ UNCHANGED <<host, wds, wdStop>> /\ camps[i].pc = "next" /\ Cell(i) \notin host
      /\ Goto(i, to) \/ Again(i, to)
  BY DEF Natural, Shell, At, phone
<1>2. Alive(i) /\ to \in Phases
  BY <1>1, PhasesAre DEF Alive
<1>3. CallEnds(i, "next", to)
  BY <1>1, <1>2, CallMoves
<1>4. WatchOf(i)'
  <2>1. camps'[i].pc \notin {"pull", "gen wait"}
    BY <1>3 DEF CallEnds, Moved
  <2>2. Cell(i)' = Cell(i)
    BY <1>3 DEF CallEnds, Cell
  <2> QED BY <1>1, <2>1, <2>2 DEF WatchOf
<1> HIDE DEF to
<1>5. RerunInv'
  BY <1>1, <1>2, <1>3, RerunCall DEF CallEnds, WInv
<1> QED BY <1>2, <1>3, <1>4, <1>5, WatchStepOf DEF CallEnds

(* A watchdog starts for a cell that is not done. *)
LEMMA StartWdWatch ==
  ASSUME CInv, WInv, NEW i \in Campaigns, StartWd(i)
  PROVE  WInv'
<1>1. /\ host' = host /\ camps[i].pc = "startwd"
      /\ Goto(i, "gen push") \/ Again(i, "gen push")
  BY DEF StartWd, Shell, At
<1>2. /\ Alive(i) /\ "gen push" \in Phases /\ Wd(i) /\ Cell(i) \notin host
      /\ camps[i].at \in DOMAIN Cells
  <2>1. Alive(i) /\ "startwd" \in Measuring /\ "gen push" \in Phases
    BY <1>1, PhasesAre DEF Alive
  <2>2. Wd(i) /\ Cell(i) \notin host /\ 1 <= camps[i].at /\ camps[i].at <= Len(Cells)
    BY <1>1, <2>1 DEF CInv, PlaceOf, WInv, WatchOf
  <2>3. camps[i].at \in 0 .. Len(Cells) + 1 /\ DOMAIN Cells = 1 .. Len(Cells)
    BY CampParts, CampaignAssumption DEF CInv
  <2>4. camps[i].at \in DOMAIN Cells
    BY <2>2, <2>3, Numbers
  <2> QED BY <2>1, <2>2, <2>4
<1>3. CallEnds(i, "startwd", "gen push")
  BY <1>1, <1>2, CallMoves
<1>4. WatchOf(i)'
  <2>1. camps'[i].pc \notin {"pull", "gen wait"}
    BY <1>3 DEF CallEnds, Moved
  <2>2. Cell(i)' = Cell(i)
    BY <1>3 DEF CallEnds, Cell
  <2> QED BY <1>1, <1>2, <2>1, <2>2 DEF WatchOf
<1>5. RerunInv'
  <2>1. \A j \in Campaigns : Alive(j) => j = i
    BY <1>2 DEF CInv, OneInv, OneCampaign
  <2>2. \A j \in Campaigns : Alive(j)' => camps'[j].at <= camps[i].at
    <3>1. camps[i].at \in Nat
      BY CampParts, Numbers DEF CInv
    <3>2. camps'[i].at = camps[i].at
      BY <1>3 DEF CallEnds
    <3>3. ASSUME NEW j \in Campaigns, Alive(j)' PROVE j = i
      BY <1>3, <2>1, <3>3 DEF CallEnds, Alive
    <3> QED BY <3>1, <3>2, <3>3
  <2>3. Cells[camps[i].at].wd /\ Cells[camps[i].at].cell \notin host
    BY <1>2 DEF Wd, Cell
  <2> QED BY <1>1, <1>2, <2>2, <2>3 DEF RerunInv
<1> QED BY <1>2, <1>3, <1>4, <1>5, WatchStepOf DEF CallEnds

(* The watchdog has been told to stop, or the call was given up. *)
LEMMA StopWdWatch ==
  ASSUME CInv, WInv, NEW i \in Campaigns, StopWd(i), lost' = TRUE \/ lost' = lost
  PROVE  WInv'
<1>1. /\ UNCHANGED <<host, wds>> /\ camps[i].pc = "stopwd"
      /\ wdStop' = TRUE \/ wdStop' = wdStop
      /\ Goto(i, "pull") \/ Again(i, "pull")
      /\ wdStop' = TRUE \/ Again(i, "pull")
  BY DEF StopWd, Shell, At, phone
<1>2. Alive(i) /\ "pull" \in Phases /\ "stopwd" \in Measuring
  BY <1>1, PhasesAre DEF Alive
<1>3. CallEnds(i, "stopwd", "pull")
  BY <1>1, <1>2, CallMoves
<1>4. WatchOf(i)'
  <2>1. Cell(i)' = Cell(i) /\ Cell(i) \notin host
    BY <1>1, <1>2, <1>3 DEF CallEnds, Cell, WInv, WatchOf
  <2>2. camps'[i].pc # "gen wait"
    BY <1>3 DEF CallEnds, Moved
  <2>3. camps'[i].pc = "pull" => wdStop' = TRUE \/ lost' = TRUE
    BY <1>1, <1>2, AgainMoves DEF Moved
  <2> QED BY <1>1, <2>1, <2>2, <2>3 DEF WatchOf
<1>5. RerunInv'
  BY <1>1, <1>2, <1>3, RerunCall DEF CallEnds, WInv
<1> QED BY <1>2, <1>3, <1>4, <1>5, WatchStepOf DEF CallEnds

(* After the list there is no cell in hand. *)
LEMMA EndWatch ==
  ASSUME CInv, WInv, NEW i \in Campaigns, Uncap(i) \/ Finish(i), lost' = TRUE \/ lost' = lost
  PROVE  WInv'
<1>1. /\ UNCHANGED <<host, wds>> /\ camps[i].pc \in {"next", "finish"}
      /\ wdStop' = TRUE \/ wdStop' = wdStop
  BY DEF Uncap, Finish, Shell, At, phone
<1>2. Alive(i) /\ {"finish", "over"} \subseteq Phases
  BY <1>1, PhasesAre DEF Alive
<1>3. PICK to \in {"finish", "over"} : CallEnds(i, camps[i].pc, to)
  <2>1. CASE Uncap(i)
    <3>1. Goto(i, "finish") \/ Again(i, "finish")
      BY <2>1 DEF Uncap, Shell
    <3> QED BY <1>2, <3>1, CallMoves
  <2>2. CASE Finish(i)
    <3>1. Goto(i, "over")
      BY <2>2 DEF Finish
    <3> QED BY <1>2, <3>1, CallMoves
  <2> QED BY <2>1, <2>2
<1>4. WatchOf(i)'
  <2>1. camps'[i].pc \in {"next", "finish", "over"}
    BY <1>1, <1>3 DEF CallEnds, Moved
  <2> QED BY <2>1, PhasesAre DEF WatchOf
<1>5. RerunInv'
  BY <1>1, <1>2, <1>3, RerunCall DEF CallEnds, WInv
<1> QED BY <1>2, <1>3, <1>4, <1>5, WatchStepOf DEF CallEnds

(* The script is on the phone, or not. *)
LEMMA PushWatch ==
  ASSUME CInv, WInv, NEW i \in Campaigns, NEW e \in Evals, Push(i, e)
  PROVE  WInv'
<1>1. /\ UNCHANGED <<host, wds, wdStop, lost>>
      /\ camps[i].pc = Pushing[e] /\ Goto(i, Starting[e])
  BY DEF Push, At
<1>2. /\ Pushing[e] \in Measuring /\ Starting[e] \in Phases
      /\ Starting[e] \notin {"pull", "gen wait"}
  BY PhaseNames, PhasesAre DEF Evals
<1>3. Alive(i)
  BY <1>1, <1>2, PhasesAre DEF Alive
<1>4. Moved(i, Starting[e]) /\ camps'[i].at = camps[i].at
  BY <1>1, <1>2, GotoMoves
<1>5. WatchOf(i)'
  <2>1. Cell(i)' = Cell(i) /\ Cell(i) \notin host
    BY <1>1, <1>2, <1>4 DEF Cell, WInv, WatchOf
  <2> QED BY <1>1, <1>2, <1>4, <2>1 DEF WatchOf, Moved
<1>6. RerunInv'
  BY <1>1, <1>3, <1>4, RerunCall DEF Moved, WInv
<1> QED BY <1>3, <1>4, <1>5, <1>6, WatchStepOf DEF Moved

(***************************************************************************)
(* A timed bench of a baseline starts when the watchdogs that were told to *)
(* stop are gone, and there is no other: its cell would come first.        *)
(***************************************************************************)
LEMMA LaunchWatch ==
  ASSUME WatchedFirst, CInv, WInv, NEW i \in Campaigns, NEW e \in Evals, Launch(i, e),
         lost' = TRUE \/ lost' = lost
  PROVE  WInv'
<1>1. /\ UNCHANGED <<host, wds, wdStop>> /\ camps[i].pc = Starting[e]
      /\ wdStop = TRUE => wds = 0
      /\ Goto(i, Waiting[e]) \/ Again(i, Waiting[e])
  BY DEF Launch, Shell, At, phone, RunScript
<1>2. /\ Starting[e] \in Measuring /\ Waiting[e] \in Phases
      /\ Starting[e] # "pull" /\ Waiting[e] # "pull"
  BY PhaseNames, PhasesAre DEF Evals
<1>3. Alive(i) /\ camps[i].at <= Len(Cells)
  BY <1>1, <1>2, PhasesAre DEF Alive, CInv, PlaceOf
<1>4. CallEnds(i, Starting[e], Waiting[e])
  BY <1>1, <1>2, CallMoves
<1>5. ~Wd(i) /\ lost = FALSE => wds = 0
  <2> SUFFICES ASSUME ~Wd(i), lost = FALSE, wds # 0 PROVE FALSE
    OBVIOUS
  <2>1. wds > 0 /\ wdStop = FALSE
    BY <1>1 DEF CInv, PhoneType
  <2>2. PICK k \in DOMAIN Cells : Cells[k].wd /\ camps[i].at <= k
    BY <1>3, <2>1 DEF WInv, RerunInv
  <2>3. camps[i].at \in DOMAIN Cells
    BY <1>3, CampParts, CampaignAssumption DEF CInv, PlaceOf
  <2>4. camps[i].at # k
    BY <2>2 DEF Wd
  <2>5. camps[i].at < k
    BY <2>2, <2>3, <2>4, CampaignAssumption
  <2> QED BY <2>2, <2>3, <2>5 DEF WatchedFirst, Wd
<1>6. WatchOf(i)'
  <2>1. /\ Cell(i)' = Cell(i) /\ Cell(i) \notin host /\ (Wd(i) <=> Wd(i)')
        /\ camps'[i].pc # "pull"
    BY <1>1, <1>2, <1>4 DEF CallEnds, Moved, Cell, Wd, WInv, WatchOf
  <2>2. lost' = FALSE => lost = FALSE
    OBVIOUS
  <2> QED BY <1>1, <1>5, <2>1, <2>2 DEF WatchOf
<1>7. RerunInv'
  BY <1>1, <1>3, <1>4, RerunCall DEF CallEnds, WInv
<1> QED BY <1>3, <1>4, <1>6, <1>7, WatchStepOf DEF CallEnds

(* The bench is over: a cell with a watchdog is not pulled yet. *)
LEMMA WaitedWatch ==
  ASSUME CInv, WInv, NEW i \in Campaigns, NEW e \in Evals, Waited(i, e)
  PROVE  WInv'
<1> DEFINE to == IF e = "gen" THEN "ppl push" ELSE IF Wd(i) THEN "stopwd" ELSE "pull"
<1>1. UNCHANGED <<host, phone, lost>> /\ camps[i].pc = Waiting[e] /\ Goto(i, to)
  BY DEF Waited, At
<1>2. Waiting[e] \in Measuring /\ to \in Phases /\ UNCHANGED <<wds, wdStop>>
  BY <1>1, PhaseNames, PhasesAre DEF Evals, phone
<1>3. Alive(i)
  BY <1>1, <1>2, PhasesAre DEF Alive
<1>4. Moved(i, to) /\ camps'[i].at = camps[i].at
  BY <1>1, <1>2, GotoMoves
<1>5. WatchOf(i)'
  <2>1. Cell(i)' = Cell(i) /\ Cell(i) \notin host /\ (Wd(i) <=> Wd(i)')
    BY <1>1, <1>2, <1>4 DEF Cell, Wd, WInv, WatchOf
  <2>2. camps'[i].pc # "gen wait" /\ (camps'[i].pc = "pull" => ~Wd(i))
    BY <1>4 DEF Moved
  <2> QED BY <1>1, <2>1, <2>2 DEF WatchOf
<1> HIDE DEF to
<1>6. RerunInv'
  BY <1>1, <1>2, <1>3, <1>4, RerunCall DEF Moved, WInv
<1> QED BY <1>3, <1>4, <1>5, <1>6, WatchStepOf DEF Moved

(* A campaign starts at the first cell; one that is killed is nowhere. *)
LEMMA SupWatch ==
  ASSUME CInv, WInv, SupStart \/ SupLaunch \/ SupEnd \/ SupDies \/ StallOfStuck \/ StallOfSlow
  PROVE  WInv'
<1>1. camps \in [Campaigns -> CampState] /\ wds \in Nat
  BY DEF CInv, PhoneType
<1>2. UNCHANGED <<host, lost, wds, wdStop>>
  BY DEF SupStart, SupLaunch, SupEnd, SupDies, StallOfStuck, StallOfSlow, Restart, phone
<1>3. CASE SupStart \/ SupEnd \/ SupDies
  <2>1. camps' = camps
    BY <1>3 DEF SupStart, SupEnd, SupDies
  <2> QED BY <1>1, <1>2, <2>1, WatchWorld
<1>4. CASE SupLaunch
  <2>1. PICK i \in Campaigns : camps' = [camps EXCEPT ![i] = Started]
    BY <1>4 DEF SupLaunch
  <2>2. \A j \in Campaigns : \/ camps'[j] = camps[j]
                             \/ camps'[j].pc = "next" /\ camps'[j].at = 1
    BY <1>1, <2>1 DEF Started
  <2> QED BY <1>1, <1>2, <2>2, WatchWorld
<1>5. CASE StallOfStuck \/ StallOfSlow
  <2>1. camps' = [camps EXCEPT ![sup.cpid] = NotStarted]
    BY <1>5 DEF StallOfStuck, StallOfSlow, Restart
  <2>2. \A j \in Campaigns : camps'[j] = camps[j] \/ camps'[j].pc = "none"
    BY <1>1, <2>1 DEF NotStarted
  <2>3. \A j \in Campaigns : camps'[j].pc = "none" => ~Alive(j)'
    BY DEF Alive
  <2> QED BY <1>1, <1>2, <2>2, <2>3, WatchWorld
<1> QED BY <1>3, <1>4, <1>5

(* What happens on the phone by itself starts no watchdog. *)
LEMMA PhoneWatch ==
  ASSUME CInv, CInv', WInv, BenchEnds \/ WdCaps \/ WdEnds \/ Reboot
  PROVE  WInv'
<1>1. UNCHANGED <<camps, host, lost, wdStop>> /\ (wds' = 0 \/ wds' = wds \/ wds' = wds - 1)
  BY DEF BenchEnds, WdCaps, WdEnds, Reboot
<1>2. wds' \in Nat
  BY DEF CInv, PhoneType
<1> QED BY <1>1, <1>2, WatchWorld

(* Every step keeps the invariant of the watchdog. *)
LEMMA NextWInv ==
  ASSUME WatchedFirst, CInv, WInv, [Next]_vars
  PROVE  WInv'
<1>1. (lost' = TRUE \/ lost' = lost) /\ CInv'
  BY LostStays, NextCInv
<1>2. ASSUME NEW i \in Campaigns, CampaignStep(i) PROVE WInv'
  BY <1>1, <1>2, SkipWatch, PullWatch, NaturalWatch, StartWdWatch, StopWdWatch, PushWatch,
     LaunchWatch, WaitedWatch, EndWatch DEF CampaignStep
<1>3. CASE UNCHANGED vars
  <2>1. UNCHANGED <<camps, host, lost, wds, wdStop>> /\ wds' \in Nat
    BY <1>3 DEF vars, phone, CInv, PhoneType
  <2> QED BY <2>1, WatchWorld
<1> QED BY <1>1, <1>2, <1>3, SupWatch, PhoneWatch DEF Next

(* There is no watchdog and no campaign. *)
LEMMA InitWInv == Init => WInv
<1> SUFFICES ASSUME Init PROVE WInv
  OBVIOUS
<1>1. \A i \in Campaigns : camps[i].pc = "none"
  BY DEF Init, NotStarted
<1>2. RerunInv
  BY DEF Init, RerunInv
<1> QED BY <1>1, <1>2, PhasesAre DEF WInv, WatchOf

-----------------------------------------------------------------------------
(***************************************************************************)
(* The state of the campaign, its supervisor and the phone is always one   *)
(* the scripts can be in, and no call is tried more than RetryLimit times. *)
(***************************************************************************)
THEOREM CampaignTypes == Spec => []TypeOK
<1>1. CInv /\ lost \in BOOLEAN => TypeOK
  BY DEF CInv, TypeOK, PhoneType, HostType, CampState
<1> QED BY <1>1, LostType, InitCInv, NextCInv, PTL DEF Spec

(***************************************************************************)
(* No two campaigns run, whoever dies and is started again: the lock that  *)
(* a campaign inherits outlives its supervisor.                            *)
(***************************************************************************)
THEOREM NeverTwoCampaigns == Spec => []OneCampaign
<1>1. CInv => OneCampaign
  BY DEF CInv, OneInv
<1> QED BY <1>1, InitCInv, NextCInv, PTL DEF Spec

(***************************************************************************)
(* While a campaign waits for a timed bench, all that run come from the    *)
(* script it has started; and where the cells with a watchdog come first,  *)
(* a baseline runs with no watchdog and no cap one has left.  After any    *)
(* sequence of stalls, dropped calls, reboots and restarts; unless a call  *)
(* was given up after RetryLimit tries.                                    *)
(***************************************************************************)
THEOREM TimedBenchAlone ==
  ASSUME WatchedFirst
  PROVE  Spec => []MeasuredAlone
<1>1. CInv /\ WInv /\ lost \in BOOLEAN => MeasuredAlone
  <2> SUFFICES ASSUME CInv, WInv, lost \in BOOLEAN, NEW i \in Campaigns, camps[i].pc = "gen wait"
               PROVE  /\ ~camps[i].gaveUp =>
                           \A b \in benches : /\ b.eval = "gen"
                                              /\ <<b.run, b.cell>> = scripts["gen"]
                      /\ ~lost /\ ~Wd(i) => wds = 0 /\ caps = {}
    BY DEF MeasuredAlone, At
  <2>1. ~camps[i].gaveUp => \A b \in benches : /\ b.eval = "gen"
                                               /\ <<b.run, b.cell>> = scripts["gen"]
    <3> SUFFICES ASSUME ~camps[i].gaveUp
                 PROVE  \A b \in benches : b.eval = "gen" /\ <<b.run, b.cell>> = scripts["gen"]
      OBVIOUS
    <3>1. QuietOf(i) /\ ~GivenUp(i)
      BY DEF CInv, GivenUp
    <3> QED BY <3>1 DEF QuietOf
  <2>2. ~lost /\ ~Wd(i) => wds = 0 /\ caps = {}
    <3>1. ~lost => lost = FALSE
      BY Zenon
    <3>2. ~Wd(i) /\ lost = FALSE => wds = 0
      BY DEF WInv, WatchOf
    <3>3. wds = 0 => caps = {}
      BY DEF CInv, CapsInv
    <3> QED BY <3>1, <3>2, <3>3, Zenon
  <2> QED BY <2>1, <2>2
<1>2. Init => CInv /\ WInv
  BY InitCInv, InitWInv
<1>3. CInv /\ WInv /\ [Next]_vars => (CInv /\ WInv)'
  BY NextCInv, NextWInv
<1> QED BY <1>1, <1>2, <1>3, LostType, PTL DEF Spec
=============================================================================
