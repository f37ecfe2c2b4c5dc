------------------------------ MODULE Campaign ------------------------------
(***************************************************************************)
(* A campaign measures a list of cells on the phone over an adb link that  *)
(* drops: run_natural_bonsai_rest2.sh goes through the cells with the      *)
(* calls of adb_resilient.sh, supervise_campaign.sh starts it again when   *)
(* it ends or stalls, and for some cells the clock watchdog runs on the    *)
(* phone (preempt_throttle_watchdog_v2.sh).  A cell has two benches, "gen" *)
(* (timed) and "ppl", each a script pushed to the phone and started there. *)
(***************************************************************************)
EXTENDS Naturals, Sequences

CONSTANTS
    Cells,        \* the cells in order: a sequence of [cell, wd]
    RetryLimit,   \* ADB_RETRY_LIMIT
    MaxCampaigns, \* how many campaigns, over or killed, have left something
    MaxMishaps    \* how many calls, pushes and pulls go wrong, healthy cells
                  \* take longer than the threshold, and reboots there are

ASSUME CampaignAssumption ==
    /\ Cells \in Seq([cell : STRING, wd : BOOLEAN])
    /\ RetryLimit \in Nat \ {0}
    /\ {MaxCampaigns, MaxMishaps} \subseteq Nat

Campaigns == 1 .. MaxCampaigns
Evals     == {"gen", "ppl"}

VARIABLES
    camps,   \* the campaign processes: [pc, at, tries, gaveUp]
    sup,     \* the supervisor: [on, cpid], cpid 0 for ""
    host,    \* the cells with a ppl.json on the host
    done,    \* the DONE marker of the campaign is there
    scripts, \* the two scripts on the phone, as <<campaign, cell>>; <<>> for none
    benches, \* the benches that run: [eval, run, cell, copy]
    flags,   \* the gen.DONE and ppl.DONE files of the campaign that runs, as
             \* <<eval, run, cell>>; each has a directory of its own
    results, \* its ppl.json files on the phone, as <<run, cell>>
    wds,     \* how many watchdogs run
    wdStop,  \* WD_STOP is there
    caps,    \* the clusters whose clock is capped
    mishaps, \* how much of that has happened
    lost     \* history: some campaign has ever gone on without a call

phone == <<scripts, benches, flags, results, wds, wdStop, caps>>
vars  == <<camps, sup, host, done, phone, mishaps, lost>>

(* Where a campaign is with a bench. *)
Pushing  == [gen |-> "gen push",  ppl |-> "ppl push"]
Starting == [gen |-> "gen start", ppl |-> "ppl start"]
Waiting  == [gen |-> "gen wait",  ppl |-> "ppl wait"]

NotStarted == [pc |-> "none", at |-> 0, tries |-> 0, gaveUp |-> FALSE]
Started    == [pc |-> "next", at |-> 1, tries |-> 0, gaveUp |-> FALSE]

Alive(i)  == camps[i].pc \notin {"none", "over"}
Cell(i)   == Cells[camps[i].at].cell
Wd(i)     == Cells[camps[i].at].wd
At(i, pc) == camps[i].pc = pc

Init ==
    /\ camps = [i \in Campaigns |-> NotStarted]
    /\ sup = [on |-> FALSE, cpid |-> 0]
    /\ host = {} /\ done = FALSE
    /\ scripts = [e \in Evals |-> <<>>] /\ benches = {} /\ flags = {} /\ results = {}
    /\ wds = 0 /\ wdStop = FALSE /\ caps = {}
    /\ mishaps = 0 /\ lost = FALSE

-----------------------------------------------------------------------------
Mishap == mishaps < MaxMishaps /\ mishaps' = mishaps + 1

Goto(i, pc) == camps' = [camps EXCEPT ![i].pc = pc, ![i].tries = 0]
NextCell(i) == camps' = [camps EXCEPT ![i].pc = "next", ![i].tries = 0, ![i].at = @ + 1]

(***************************************************************************)
(* adb_safe_shell: a call that is cut off or times out is made again.  The *)
(* command may have been carried out all the same.  After RetryLimit tries *)
(* the caller goes on without.                                             *)
(***************************************************************************)
AgainPastLimit(i, pc) ==
    IF camps[i].tries < RetryLimit
    THEN camps' = [camps EXCEPT ![i].tries = @ + 1] /\ UNCHANGED lost
    ELSE /\ camps' = [camps EXCEPT ![i].pc = pc, ![i].tries = 0, ![i].gaveUp = TRUE]
         /\ lost' = TRUE

Again(i, pc) ==
    IF camps[i].tries + 1 < RetryLimit
    THEN camps' = [camps EXCEPT ![i].tries = @ + 1] /\ UNCHANGED lost
    ELSE /\ camps' = [camps EXCEPT ![i].pc = pc, ![i].tries = 0, ![i].gaveUp = TRUE]
         /\ lost' = TRUE

Shell(i, Command, pc) ==
    /\ UNCHANGED <<sup, host, done>>
    /\ \/ Command /\ Goto(i, pc) /\ UNCHANGED <<mishaps, lost>>
       \/ Command /\ Again(i, pc) /\ Mishap
       \/ UNCHANGED phone /\ Again(i, pc) /\ Mishap

FlagOf(b)  == <<b.eval, b.run, b.cell>>
FlagsOf(B) == {FlagOf(b) : b \in {c \in B : Alive(c.run)}}

(* pkill -9 of the benches; their scripts go on and touch their flags.     *)
KillBenches == benches' = {} /\ flags' = flags \cup FlagsOf(benches)

-----------------------------------------------------------------------------
(* run(): a cell whose ppl.json is on the host is skipped. *)
Skip(i) ==
    /\ At(i, "next") /\ camps[i].at <= Len(Cells) /\ Cell(i) \in host
    /\ NextCell(i)
    /\ UNCHANGED <<sup, host, done, phone, mishaps, lost>>

(* A slip: the benches that are left over are left alone. *)
NaturalSpares(i) ==
    /\ At(i, "next") /\ camps[i].at <= Len(Cells) /\ Cell(i) \notin host
    /\ Shell(i, UNCHANGED phone, IF Wd(i) THEN "startwd" ELSE "gen push")

(***************************************************************************)
(* platform_natural, and coolidle, which only reads.  The string that      *)
(* su -c runs begins with pkill -9 -f eviction_bench and contains that     *)
(* pattern itself: the shell that runs it dies with the benches, before it *)
(* touches WD_STOP or resets a clock, and adb_safe_shell takes the code of *)
(* that for the command's own.                                             *)
(***************************************************************************)
Natural(i) ==
    /\ At(i, "next") /\ camps[i].at <= Len(Cells) /\ Cell(i) \notin host
    /\ Shell(i, KillBenches /\ UNCHANGED <<scripts, results, wds, wdStop, caps>>,
             IF Wd(i) THEN "startwd" ELSE "gen push")

StartWd(i) ==
    /\ At(i, "startwd")
    /\ Shell(i, wdStop' = FALSE /\ wds' = wds + 1
                  /\ UNCHANGED <<scripts, benches, flags, results, caps>>,
             "gen push")

(* adb push of the script; that it failed goes unnoticed. *)
Push(i, e) ==
    /\ At(i, Pushing[e])
    /\ \/ scripts' = [scripts EXCEPT ![e] = <<i, Cell(i)>>] /\ UNCHANGED mishaps
       \/ UNCHANGED scripts /\ Mishap
    /\ Goto(i, Starting[e])
    /\ UNCHANGED <<sup, host, done, benches, flags, results, wds, wdStop, caps, lost>>

(* The script on the phone, whosever it is, removes its flag and runs its  *)
(* bench.  The sleep of 2 s before it outlasts the poll of a watchdog that *)
(* has been told to stop.                                                  *)
RunScript(e) ==
    /\ UNCHANGED <<scripts, results, wds, wdStop, caps>>
    /\ IF scripts[e] = <<>>
       THEN UNCHANGED <<benches, flags>>
       ELSE LET b == [eval |-> e, run |-> scripts[e][1], cell |-> scripts[e][2],
                      copy |-> mishaps]
            IN benches' = benches \cup {b} /\ flags' = flags \ {FlagOf(b)}

Launch(i, e) ==
    /\ At(i, Starting[e]) /\ (wdStop => wds = 0)
    /\ Shell(i, RunScript(e), Waiting[e])

(* Polls for the flag. *)
Flagged(i, e) == <<e, i, Cell(i)>> \in flags

(* A slip: platform_natural of the next cell is relied on for the watchdog. *)
WaitedLeavesWd(i, e) ==
    /\ At(i, Waiting[e]) /\ Flagged(i, e)
    /\ Goto(i, IF e = "gen" THEN "ppl push" ELSE "pull")
    /\ UNCHANGED <<sup, host, done, phone, mishaps, lost>>

Waited(i, e) ==
    /\ At(i, Waiting[e]) /\ Flagged(i, e)
    /\ Goto(i, IF e = "gen" THEN "ppl push" ELSE IF Wd(i) THEN "stopwd" ELSE "pull")
    /\ UNCHANGED <<sup, host, done, phone, mishaps, lost>>

StopWd(i) ==
    /\ At(i, "stopwd")
    /\ Shell(i, wdStop' = TRUE
                  /\ UNCHANGED <<scripts, benches, flags, results, wds, caps>>,
             "pull")

(* adb pull; that it failed goes unnoticed as well. *)
Pull(i) ==
    /\ At(i, "pull")
    /\ \/ /\ host' = host \cup {c \in {Cell(i)} : <<i, c>> \in results}
          /\ UNCHANGED mishaps
       \/ UNCHANGED host /\ Mishap
    /\ NextCell(i)
    /\ UNCHANGED <<sup, done, phone, lost>>

Uncap(i) ==
    /\ At(i, "next") /\ camps[i].at > Len(Cells)
    /\ Shell(i, wdStop' = TRUE /\ caps' = caps \ {"prime"}
                  /\ UNCHANGED <<scripts, benches, flags, results, wds>>,
             "finish")

Finish(i) ==
    /\ At(i, "finish")
    /\ done' = TRUE /\ Goto(i, "over")
    /\ UNCHANGED <<sup, host, phone, mishaps, lost>>

CampaignStep(i) ==
    \/ Skip(i) \/ Natural(i) \/ StartWd(i) \/ StopWd(i) \/ Pull(i)
    \/ \E e \in Evals : Push(i, e) \/ Launch(i, e) \/ Waited(i, e)
    \/ Uncap(i) \/ Finish(i)

-----------------------------------------------------------------------------
(* The lock is on a file that the campaign inherits from its supervisor.   *)
(* A slip: it is closed in the campaign.                                   *)
SupStartUnlocked ==
    /\ ~sup.on
    /\ sup' = [on |-> TRUE, cpid |-> 0]
    /\ UNCHANGED <<camps, host, done, phone, mishaps, lost>>

SupStart ==
    /\ ~sup.on /\ \A i \in Campaigns : ~Alive(i)
    /\ sup' = [on |-> TRUE, cpid |-> 0]
    /\ UNCHANGED <<camps, host, done, phone, mishaps, lost>>

(* A campaign is known by the time of its start: a number that nothing on  *)
(* the phone still bears.                                                  *)
Unused(i) ==
    /\ At(i, "none") /\ \A b \in benches : b.run # i
    /\ \A e \in Evals : scripts[e] # <<>> => scripts[e][1] # i

SupLaunch ==
    /\ sup.on /\ ~done /\ (sup.cpid # 0 => ~Alive(sup.cpid))
    /\ \E i \in Campaigns :
         /\ Unused(i) /\ \A j \in 1 .. i - 1 : ~Unused(j)
         /\ camps' = [camps EXCEPT ![i] = Started]
         /\ sup' = [sup EXCEPT !.cpid = i]
    /\ UNCHANGED <<host, done, phone, mishaps, lost>>

(* It waits for a flag that nothing is going to touch. *)
Stuck(i) ==
    \E e \in Evals : At(i, Waiting[e]) /\ <<e, i, Cell(i)>> \notin flags \cup FlagsOf(benches)

(* A slip: the stall resets adb only. *)
ResetAdb == UNCHANGED <<camps, sup, host, done, phone, lost>>

(* No new cell for too long: the campaign is killed, and the benches too   *)
(* if the link is up.  The next one does not look at the files of this.    *)
Restart ==
    /\ camps' = [camps EXCEPT ![sup.cpid] = NotStarted]
    /\ sup' = [sup EXCEPT !.cpid = 0]
    /\ benches' \in {{}, benches} /\ flags' = {} /\ results' = {}
    /\ UNCHANGED <<host, done, scripts, wds, wdStop, caps, lost>>

Watched == sup.on /\ ~done /\ sup.cpid # 0 /\ Alive(sup.cpid)

StallOfStuck == Watched /\ Stuck(sup.cpid) /\ Restart /\ UNCHANGED mishaps
StallOfSlow  == Watched /\ Mishap /\ Restart

SupEnd ==
    /\ sup.on /\ done
    /\ sup' = [on |-> FALSE, cpid |-> 0]
    /\ UNCHANGED <<camps, host, done, phone, mishaps, lost>>

-----------------------------------------------------------------------------
(* A bench ends, with its result or without. *)
BenchEnds ==
    /\ \E b \in benches :
         /\ benches' = benches \ {b} /\ flags' = flags \cup FlagsOf({b})
         /\ \/ /\ b.eval = "ppl" /\ Alive(b.run)
               /\ results' = results \cup {<<b.run, b.cell>>}
            \/ UNCHANGED results
    /\ UNCHANGED <<camps, sup, host, done, scripts, wds, wdStop, caps, mishaps, lost>>

WdCaps ==
    /\ wds > 0 /\ ~wdStop
    /\ caps' \in SUBSET {"perf", "prime"}
    /\ UNCHANGED <<camps, sup, host, done, scripts, benches, flags, results,
                   wds, wdStop, mishaps, lost>>

(* A slip: the clock stays where the watchdog has left it. *)
WdLeaves ==
    /\ wds > 0 /\ wdStop
    /\ wds' = wds - 1
    /\ UNCHANGED <<camps, sup, host, done, scripts, benches, flags, results,
                   wdStop, caps, mishaps, lost>>

WdEnds ==
    /\ wds > 0 /\ wdStop
    /\ wds' = wds - 1 /\ caps' = {}
    /\ UNCHANGED <<camps, sup, host, done, scripts, benches, flags, results,
                   wdStop, mishaps, lost>>

SupDies ==
    /\ sup.on
    /\ sup' = [on |-> FALSE, cpid |-> 0]
    /\ UNCHANGED <<camps, host, done, phone, mishaps, lost>>

Reboot ==
    /\ Mishap
    /\ benches' = {} /\ wds' = 0 /\ caps' = {}
    /\ UNCHANGED <<camps, sup, host, done, scripts, flags, results, wdStop, lost>>

Next ==
    \/ \E i \in Campaigns : CampaignStep(i)
    \/ SupStart \/ SupLaunch \/ StallOfStuck \/ StallOfSlow \/ SupEnd \/ SupDies
    \/ BenchEnds \/ WdCaps \/ WdEnds \/ Reboot

Spec == Init /\ [][Next]_vars

(***************************************************************************)
(* Scripts go on until they exit, benches end, a watchdog polls its stop   *)
(* file, and a stalled campaign is noticed.                                *)
(***************************************************************************)
FairSpec ==
    /\ Spec
    /\ WF_vars(\E i \in Campaigns : CampaignStep(i))
    /\ WF_vars(SupLaunch) /\ WF_vars(SupEnd)
    /\ WF_vars(StallOfStuck)
    /\ WF_vars(BenchEnds) /\ WF_vars(WdEnds)

-----------------------------------------------------------------------------
Phases == {"none", "next", "startwd", "stopwd", "pull", "finish", "over"}
            \cup {Pushing[e] : e \in Evals} \cup {Starting[e] : e \in Evals}
            \cup {Waiting[e] : e \in Evals}
Names  == {Cells[k].cell : k \in DOMAIN Cells}

(* Also: a call is never tried more than RetryLimit times. *)
TypeOK ==
    /\ camps \in [Campaigns -> [pc : Phases, at : 0 .. Len(Cells) + 1,
                                tries : 0 .. RetryLimit - 1, gaveUp : BOOLEAN]]
    /\ sup \in [on : BOOLEAN, cpid : 0 .. MaxCampaigns]
    /\ host \subseteq Names /\ done \in BOOLEAN
    /\ scripts \in [Evals -> {<<>>} \cup (Campaigns \X Names)]
    /\ benches \subseteq [eval : Evals, run : Campaigns, cell : Names, copy : 0 .. MaxMishaps]
    /\ flags \subseteq Evals \X Campaigns \X Names /\ results \subseteq Campaigns \X Names
    /\ wds \in Nat /\ wdStop \in BOOLEAN /\ caps \subseteq {"perf", "prime"}
    /\ mishaps \in 0 .. MaxMishaps /\ lost \in BOOLEAN

(***************************************************************************)
(* "One supervisor per campaign ... a duplicate would run the same cell    *)
(* twice": whoever is killed and started again, no two campaigns run.      *)
(***************************************************************************)
OneCampaign == \A i, j \in Campaigns : Alive(i) /\ Alive(j) => i = j

(***************************************************************************)
(* "so the next cell does not share the CPU with an orphan": while a       *)
(* campaign waits for a timed bench, every bench that runs comes from the  *)
(* script it has started, also after a stall whose pkill got lost.  A      *)
(* start that is retried may run the same script twice.                    *)
(*                                                                         *)
(* "Baselines run without a watchdog": nor with a cap that one has left.   *)
(* Nothing that the campaign does for a baseline stops the watchdog of one *)
(* that was killed.  It is gone because its own cell comes before the      *)
(* baselines, is measured again as long as it has not been pulled, and is  *)
(* pulled only when the watchdog has been told to stop: unless that call   *)
(* was once given up, by this campaign or one before it.                   *)
(***************************************************************************)
MeasuredAlone ==
    \A i \in Campaigns : At(i, "gen wait") =>
        /\ ~camps[i].gaveUp =>
             \A b \in benches : b.eval = "gen" /\ <<b.run, b.cell>> = scripts["gen"]
        /\ ~lost /\ ~Wd(i) => wds = 0 /\ caps = {}

(* A baseline is clean whatever was given up before this campaign: false.  *)
BaselineClean ==
    \A i \in Campaigns :
        At(i, "gen wait") /\ ~camps[i].gaveUp /\ ~Wd(i) => wds = 0 /\ caps = {}

(* "Restarts a resumable campaign when the link drops or stalls": as long  *)
(* as there is a supervisor, the campaign gets to its end.                 *)
CampaignEnds == sup.on ~> done \/ ~sup.on

(* A campaign that is over leaves no watchdog and no cap behind.           *)
PhoneFreed ==
    \A i \in Campaigns :
        At(i, "over") /\ ~camps[i].gaveUp ~> wds = 0 /\ caps = {}
=============================================================================
