----------------------------- MODULE PhoneQueue -----------------------------
(***************************************************************************)
(* phone_queue_runner.sh runs a list of benchmark cells on the phone and   *)
(* marks each with a file when it is over; pull_phone_queue.sh copies the  *)
(* files to the host while the adb link is up.  The runner may be killed,  *)
(* which leaves its children running, and the phone may reboot, which      *)
(* leaves the files; the operator starts it again, one at a time.          *)
(***************************************************************************)
EXTENDS Naturals, Sequences, FiniteSets

CONSTANTS
    Queue,      \* the list: a sequence of [tag, kind]
    MaxRuns,    \* how often the operator starts the runner
    MaxKills,   \* how often it is killed
    MaxReboots, \* how often the phone reboots
    MaxFills,   \* how often /data is found full
    MaxPulls    \* how often the operator starts the puller

ASSUME QueueAssumption ==
    /\ Queue \in Seq([tag : STRING, kind : STRING])
    /\ \A i, j \in DOMAIN Queue : Queue[i].tag = Queue[j].tag => i = j
    /\ {MaxRuns, MaxKills, MaxReboots, MaxFills, MaxPulls} \subseteq Nat

VARIABLES
    files,      \* what is in OUT: the marker <<tag, "done">> or <<tag, "hot">>
                \* of a cell, with its results; the flags
    pc,         \* where the runner is; "off" or "killed" when there is none
    run,        \* number of the runner
    at,         \* the cell it is at
    stopped,    \* STOPPED
    procs,      \* the benches and samplers that run: [what, tag, run]
    charging,   \* mmi_charging_enable
    wake,       \* the wake lock
    host,       \* the files the puller has copied
    list,       \* what the adb pull under way has listed
    ppc,        \* where the puller is: "off", "idle", "pull"
    faults      \* how often what has happened

runner == <<pc, run, at, stopped>>
phone  == <<procs, charging, wake>>
puller == <<host, list, ppc>>
vars   == <<files, runner, phone, puller, faults>>

Gated   == {"gpu", "niah", "cpu"}           \* wait for a cool phone, or are skipped
Sampled == Gated \cup {"niahq"}
Known   == Sampled \cup {"lb"}

Flags     == {<<"ALL_DONE">>, <<"STOPPED">>}
Cell      == Queue[at]
Marked(c) == {<<c.tag, "done">>, <<c.tag, "hot">>} \cap files # {}
MyBench   == [what |-> "bench",   tag |-> Cell.tag, run |-> run]
MySampler == [what |-> "sampler", tag |-> Cell.tag, run |-> run]

NoFaults == [kills |-> 0, reboots |-> 0, fills |-> 0, pulls |-> 0]

Init ==
    /\ files = {} /\ pc = "off" /\ run = 0 /\ at = 1 /\ stopped = FALSE
    /\ procs = {} /\ charging = TRUE /\ wake = FALSE
    /\ host = {} /\ list = {} /\ ppc = "off" /\ faults = NoFaults

-----------------------------------------------------------------------------
Count(what, max) == faults[what] < max /\ faults' = [faults EXCEPT ![what] = @ + 1]

Goto(label) == pc' = label /\ UNCHANGED <<run, at, stopped>>
NextCell    == pc' = "next" /\ at' = at + 1 /\ UNCHANGED <<run, stopped>>

Skip ==
    /\ pc = "next" /\ at <= Len(Queue) /\ Marked(Cell)
    /\ NextCell
    /\ UNCHANGED <<files, phone, puller, faults>>

(* guards(): too little storage ends the queue ... *)
Stop ==
    /\ pc = "next" /\ at <= Len(Queue) /\ ~Marked(Cell) /\ Count("fills", MaxFills)
    /\ pc' = "restore" /\ stopped' = TRUE
    /\ UNCHANGED <<run, at, files, phone, puller>>

(* ... a low battery is charged first ... *)
ChargeNotEnabled ==
    /\ pc = "next" /\ at <= Len(Queue) /\ ~Marked(Cell)
    /\ Goto("charge")
    /\ UNCHANGED <<charging, files, procs, wake, puller, faults>>

Charge ==
    /\ pc = "next" /\ at <= Len(Queue) /\ ~Marked(Cell)
    /\ charging' = TRUE /\ Goto("charge")
    /\ UNCHANGED <<files, procs, wake, puller, faults>>

(* ... and the cell begins with charging off.  The battery gets to 80%     *)
(* only when it is charged.                                                *)
Begin ==
    /\ \/ pc = "next" /\ at <= Len(Queue) /\ ~Marked(Cell)
       \/ pc = "charge" /\ charging
    /\ charging' = FALSE /\ Goto("cool")
    /\ UNCHANGED <<files, procs, wake, puller, faults>>

UnknownKind ==
    /\ pc = "cool" /\ Cell.kind \notin Known
    /\ NextCell
    /\ UNCHANGED <<files, phone, puller, faults>>

(* The gate timed out: the cell counts as done. *)
SkipHot ==
    /\ pc = "cool" /\ Cell.kind \in Gated
    /\ files' = files \cup {<<Cell.tag, "hot">>}
    /\ NextCell
    /\ UNCHANGED <<phone, puller, faults>>

Launch ==
    /\ pc = "cool" /\ Cell.kind \in Known
    /\ procs' = procs \cup {MyBench}
                      \cup (IF Cell.kind \in Sampled THEN {MySampler} ELSE {})
    /\ charging' = FALSE /\ Goto("wait")
    /\ UNCHANGED <<files, wake, puller, faults>>

(* A slip: the bench runs in the background. *)
NotWaitedFor ==
    /\ pc = "wait"
    /\ Goto("mark")
    /\ UNCHANGED <<files, phone, puller, faults>>

(* A slip: the sampler is left running. *)
SamplerLeft ==
    /\ pc = "wait" /\ MyBench \notin procs
    /\ Goto("mark")
    /\ UNCHANGED <<files, phone, puller, faults>>

(* The bench is over, however it ended.  All samplers are killed, after a  *)
(* cpu cell its own.                                                       *)
Ended ==
    /\ pc = "wait" /\ MyBench \notin procs
    /\ procs' = CASE Cell.kind = "cpu" -> procs \ {MySampler}
                  [] Cell.kind = "lb"  -> procs
                  [] OTHER             -> {p \in procs : p.what = "bench"}
    /\ Goto("mark")
    /\ UNCHANGED <<files, charging, wake, puller, faults>>

Mark ==
    /\ pc = "mark"
    /\ files' = files \cup {<<Cell.tag, "done">>}
    /\ NextCell
    /\ UNCHANGED <<phone, puller, faults>>

Finish ==
    /\ pc = "next" /\ at > Len(Queue)
    /\ Goto("restore")
    /\ UNCHANGED <<files, phone, puller, faults>>

Restore ==
    /\ pc = "restore" /\ charging' = TRUE /\ wake' = FALSE /\ Goto("report")
    /\ UNCHANGED <<files, procs, puller, faults>>

Report ==
    /\ pc = "report"
    /\ files' = files \cup {IF stopped THEN <<"STOPPED">> ELSE <<"ALL_DONE">>}
    /\ Goto("off")
    /\ UNCHANGED <<phone, puller, faults>>

RunnerStep ==
    \/ Skip \/ Stop \/ Charge \/ Begin \/ UnknownKind \/ SkipHot \/ Launch
    \/ Ended \/ Mark \/ Finish \/ Restore \/ Report

-----------------------------------------------------------------------------
(* pull_phone_queue.sh: adb pull lists the directory and then copies what  *)
(* it listed; the link may go down, or 600 s pass, when part is copied.    *)
List ==
    /\ ppc = "idle"
    /\ list' = files /\ ppc' = "pull"
    /\ UNCHANGED <<host, files, runner, phone, faults>>

Copied ==
    /\ ppc = "pull"
    /\ host' = host \cup list /\ list' = {}
    /\ ppc' = IF Flags \cap host' # {} THEN "off" ELSE "idle"
    /\ UNCHANGED <<files, runner, phone, faults>>

(* A slip: the flags are looked at all the same. *)
CutOffChecked ==
    /\ ppc = "pull"
    /\ \E part \in SUBSET list : host' = host \cup part
    /\ ppc' = IF Flags \cap host' # {} THEN "off" ELSE "idle"
    /\ list' = {}
    /\ UNCHANGED <<files, runner, phone, faults>>

(* A slip: a pull that fails ends the puller. *)
CutOffEnds ==
    /\ ppc = "pull"
    /\ \E part \in SUBSET list : host' = host \cup part
    /\ ppc' = "off" /\ list' = {}
    /\ UNCHANGED <<files, runner, phone, faults>>

CutOff ==
    /\ ppc = "pull"
    /\ \E part \in SUBSET list : host' = host \cup part
    /\ ppc' = "idle" /\ list' = {}
    /\ UNCHANGED <<files, runner, phone, faults>>

-----------------------------------------------------------------------------
(* The operator starts a runner while there is none, until all is done. *)
Start ==
    /\ pc \in {"off", "killed"} /\ <<"ALL_DONE">> \notin files
    /\ run < MaxRuns
    /\ run' = run + 1 /\ at' = 1 /\ stopped' = FALSE /\ pc' = "next"
    /\ wake' = TRUE
    /\ UNCHANGED <<files, procs, charging, puller, faults>>

StartPuller ==
    /\ ppc = "off" /\ <<"ALL_DONE">> \notin host
    /\ Count("pulls", MaxPulls)
    /\ ppc' = "idle"
    /\ UNCHANGED <<host, list, files, runner, phone>>

(* A bench succeeds, or fails, times out or is killed for its memory. *)
BenchEnds ==
    /\ \E p \in procs : /\ p.what = "bench"
                        /\ procs' = procs \ {p}
    /\ UNCHANGED <<files, runner, charging, wake, puller, faults>>

Kill ==
    /\ pc \notin {"off", "killed"} /\ Count("kills", MaxKills)
    /\ Goto("killed")
    /\ UNCHANGED <<files, phone, puller>>

Reboot ==
    /\ Count("reboots", MaxReboots)
    /\ procs' = {} /\ charging' = TRUE /\ wake' = FALSE
    /\ Goto("off")
    /\ UNCHANGED <<files, puller>>

World == Start \/ StartPuller \/ BenchEnds \/ Kill \/ Reboot

Next == RunnerStep \/ List \/ Copied \/ CutOff \/ World

Spec == Init /\ [][Next]_vars

(***************************************************************************)
(* The scripts run until they exit; every bench ends (all but the gpu      *)
(* cells have a timeout); the link is up for long enough again and again.   *)
(***************************************************************************)
FairSpec ==
    /\ Spec
    /\ WF_vars(RunnerStep) /\ WF_vars(BenchEnds)
    /\ WF_vars(List) /\ SF_vars(Copied) /\ WF_vars(StartPuller)

-----------------------------------------------------------------------------
TypeOK ==
    /\ files \subseteq ({Queue[i].tag : i \in DOMAIN Queue} \X {"done", "hot"})
                         \cup Flags
    /\ pc \in {"off", "killed", "next", "charge", "cool", "wait", "mark",
               "restore", "report"}
    /\ run \in 0 .. MaxRuns /\ at \in 1 .. Len(Queue) + 1
    /\ {stopped, charging, wake} \subseteq BOOLEAN
    /\ procs \subseteq [what : {"bench", "sampler"},
                        tag : {Queue[i].tag : i \in DOMAIN Queue}, run : 1 .. MaxRuns]
    /\ ppc \in {"off", "idle", "pull"}
    /\ host \subseteq files /\ list \subseteq files

(***************************************************************************)
(* "A cell with OUT/TAG.done is skipped, so the runner can be restarted at *)
(* any time": over kills, reboots and restarts no cell that has its marker *)
(* is run again, and none gets it before its bench is over.                *)
(***************************************************************************)
DoneIsFinal ==
    [][ /\ \A p \in procs' \ procs : ~Marked(p)
        /\ \A p \in procs : p.run = run /\ p.what = "bench"
                              => <<p.tag, "done">> \notin files' ]_vars

(***************************************************************************)
(* A runner measures one cell at a time, with its own sampler if it has    *)
(* one, awake and with charging off; what else runs was left by a runner   *)
(* that was killed.                                                        *)
(***************************************************************************)
MeasuredAlone ==
    LET mine == {p \in procs : p.run = run}
    IN  /\ pc \notin {"wait", "killed"} => mine = {}
        /\ pc = "wait" => mine \subseteq {MyBench, MySampler} /\ wake /\ ~charging
        /\ procs \ mine # {} => faults.kills > 0

(* In every state the measurements are clean, and the state is one. *)
QueueInv == TypeOK /\ MeasuredAlone

(***************************************************************************)
(* A puller that ends with ALL_DONE has brought every file of the queue,   *)
(* among them the marker of every cell of a known kind.                    *)
(***************************************************************************)
HostHasAll ==
    ppc = "off" /\ <<"ALL_DONE">> \in host =>
        /\ files = host
        /\ \A i \in DOMAIN Queue : Queue[i].kind \in Known => Marked(Queue[i])

(***************************************************************************)
(* A runner ends, whatever the battery and the benches do; if it was not   *)
(* killed it has given back charging and the wake lock.                    *)
(***************************************************************************)
QueueEnds ==
    pc \notin {"off", "killed"}
        ~> pc = "killed" \/ (pc = "off" /\ charging /\ ~wake)

(* When all is done and the queue never had to stop, all gets to the host. *)
ResultsArrive ==
    <<"ALL_DONE">> \in files /\ <<"STOPPED">> \notin files ~> <<"ALL_DONE">> \in host
=============================================================================
