----------------------------- MODULE SemHandoff -----------------------------
(* lab13 (two threads, two semaphores in memory) and lab15 (two processes,   *)
(* two named semaphores): each party waits on one semaphore, prints, and     *)
(* posts the other.  The names of lab15 outlive the processes: the program   *)
(* can be killed, its calls can fail, and it can be run again.               *)
EXTENDS Naturals, Sequences

CONSTANTS Lines,            \* ten, or LINE_COUNT
          MaxRuns           \* bound: how often lab15 is run
VARIABLES named,            \* is it lab15?
          printed,
          sem,              \* the semaphores: [one, two |-> value]
          at, count,        \* where each party is, and how many lines it has printed
          names,            \* lab15: the names that exist in the system
          runs,             \* lab15: the runs so far
          mishap            \* history: was a run killed, or did one of its calls fail?

vars == <<named, printed, sem, at, count, names, runs, mishap>>

Parties == {"main", "child"}
Names == {"one", "two"}     \* /sem11, /sem22
First == IF named THEN "child" ELSE "main"
Other(p) == IF p = "main" THEN "child" ELSE "main"
Ended == {"over", "refused", "failed", "killed"}

(* The party that begins waits on semaphore two, which starts at 1. *)
WaitsOn(p) == IF p = First THEN "two" ELSE "one"
Posts(p) == IF p = First THEN "one" ELSE "two"

Fresh == [one |-> 0, two |-> 1]
Start(place) == [p \in Parties |-> place]

Init ==
    /\ named \in BOOLEAN
    /\ printed = <<>> /\ sem = Fresh
    /\ count = [p \in Parties |-> 0]
    /\ at = Start(IF named THEN "open" ELSE "wait")
    /\ names = {} /\ runs = 1 /\ mishap = FALSE

-----------------------------------------------------------------------------
Wait(p) ==
    /\ at[p] = "wait" /\ count[p] < Lines
    /\ sem[WaitsOn(p)] > 0
    /\ sem' = [sem EXCEPT ![WaitsOn(p)] = @ - 1]
    /\ at' = [at EXCEPT ![p] = "print"]
    /\ UNCHANGED <<named, printed, count, names, runs, mishap>>

PrintLine(p) ==
    /\ at[p] = "print"
    /\ printed' = Append(printed, p)
    /\ at' = [at EXCEPT ![p] = "post"]
    /\ UNCHANGED <<named, sem, count, names, runs, mishap>>

Post(p) ==
    /\ at[p] = "post"
    /\ sem' = [sem EXCEPT ![Posts(p)] = @ + 1]
    /\ count' = [count EXCEPT ![p] = @ + 1]
    /\ at' = [at EXCEPT ![p] = IF count'[p] < Lines THEN "wait" ELSE "close"]
    /\ UNCHANGED <<named, printed, names, runs, mishap>>

(* sem_wait or sem_post fails: the party goes, and the other is not told. *)
Fails(p) ==
    /\ at[p] \in {"wait", "post"}
    /\ at' = [at EXCEPT ![p] = "failed"]
    /\ mishap' = TRUE
    /\ UNCHANGED <<named, printed, sem, count, names, runs>>

-----------------------------------------------------------------------------
(* lab13: the thread just ends; main joins it and destroys the semaphores.  *)

(* Mutant: main does not wait for the thread. *)
EndsUnjoined(p) ==
    /\ ~named /\ at[p] = "close"
    /\ at' = [at EXCEPT ![p] = "over"]
    /\ UNCHANGED <<named, printed, sem, count, names, runs, mishap>>

Ends(p) ==
    /\ ~named /\ at[p] = "close"
    /\ p = "main" => at["child"] \in Ended
    /\ at' = [at EXCEPT ![p] = "over"]
    /\ UNCHANGED <<named, printed, sem, count, names, runs, mishap>>

-----------------------------------------------------------------------------
(* lab15 *)

(* Mutant: without O_EXCL what an earlier run left behind is opened. *)
OpenAny ==
    /\ named /\ at["main"] = "open"
    /\ names' = Names
    /\ sem' = [n \in Names |-> IF n \in names THEN sem[n] ELSE Fresh[n]]
    /\ at' = Start("fork")
    /\ UNCHANGED <<named, printed, count, runs, mishap>>

(* sem_open with O_CREAT | O_EXCL: refused when the name is there already. *)
Outcomes(n) == {"failed", IF n \in names THEN "refused" ELSE "created"}
Open(n, outcome) ==
    /\ IF outcome = "created"
       THEN names' = names \cup {n} /\ sem' = [sem EXCEPT ![n] = Fresh[n]]
       ELSE UNCHANGED <<names, sem>>
    /\ mishap' = (mishap \/ outcome = "failed")
    /\ UNCHANGED <<named, printed, count, runs>>

(* The second is opened whatever became of the first; without both, the     *)
(* program goes, and leaves what it has created.                            *)
AfterOne == [created |-> "opentwo", refused |-> "opentwo_refused", failed |-> "opentwo_failed"]
OpenOne ==
    /\ named /\ at["main"] = "open"
    /\ \E outcome \in Outcomes("one") :
          Open("one", outcome) /\ at' = Start(AfterOne[outcome])

OpenTwo ==
    /\ named /\ at["main"] \in {"opentwo", "opentwo_refused", "opentwo_failed"}
    /\ \E outcome \in Outcomes("two") :
          /\ Open("two", outcome)
          /\ at' = Start(IF outcome = "refused" \/ at["main"] = "opentwo_refused"
                         THEN "refused"
                         ELSE IF at["main"] = "opentwo" /\ outcome = "created" THEN "fork"
                         ELSE "failed")

(* fork(); a failed one is tried again only if errno was EAGAIN before it. *)
Fork ==
    /\ named /\ at["main"] = "fork"
    /\ \/ at' = Start("wait") /\ UNCHANGED mishap
       \/ at' = Start("failed") /\ mishap' = TRUE
    /\ UNCHANGED <<named, printed, sem, count, names, runs>>

Close(p) ==
    /\ named /\ at[p] = "close"
    /\ at' = [at EXCEPT ![p] = IF p = "main" THEN "unlink_one" ELSE "over"]
    /\ UNCHANGED <<named, printed, sem, count, names, runs, mishap>>

(* Mutant: the second name is forgotten. *)
UnlinkSame(n) ==
    /\ named /\ at["main"] = (IF n = "one" THEN "unlink_one" ELSE "unlink_two")
    /\ names' = names \ {"one"}
    /\ at' = [at EXCEPT !["main"] = IF n = "one" THEN "unlink_two" ELSE "over"]
    /\ UNCHANGED <<named, printed, sem, count, runs, mishap>>

Unlink(n) ==
    /\ named /\ at["main"] = (IF n = "one" THEN "unlink_one" ELSE "unlink_two")
    /\ names' = names \ {n}
    /\ at' = [at EXCEPT !["main"] = IF n = "one" THEN "unlink_two" ELSE "over"]
    /\ UNCHANGED <<named, printed, sem, count, runs, mishap>>

(* sem_unlink fails, which is only reported. *)
UnlinkFails(n) ==
    /\ named /\ at["main"] = (IF n = "one" THEN "unlink_one" ELSE "unlink_two")
    /\ at' = [at EXCEPT !["main"] = IF n = "one" THEN "unlink_two" ELSE "over"]
    /\ mishap' = TRUE
    /\ UNCHANGED <<named, printed, sem, count, names, runs>>

(* An interrupt from the terminal ends both processes where they stand. *)
Kill ==
    /\ named /\ \E p \in Parties : at[p] \notin Ended
    /\ at' = Start("killed")
    /\ mishap' = TRUE
    /\ UNCHANGED <<named, printed, sem, count, names, runs>>

Finished == \A p \in Parties : at[p] \in Ended

(* Both have ended, or one waits for ever for the other, which has failed. *)
Abandoned(p) == at[p] = "wait" /\ sem[WaitsOn(p)] = 0 /\ at[Other(p)] = "failed"
AtRest == \A p \in Parties : at[p] \in Ended \/ Abandoned(p)

(* Of a process that waits for ever nothing more is seen: the names are     *)
(* there, and a later run neither posts its semaphore nor unlinks it.       *)
Rerun ==
    /\ named /\ AtRest /\ runs < MaxRuns
    /\ runs' = runs + 1
    /\ printed' = <<>>
    /\ count' = [p \in Parties |-> 0]
    /\ at' = Start("open")
    /\ UNCHANGED <<named, sem, names, mishap>>

-----------------------------------------------------------------------------
Party(p) == Wait(p) \/ PrintLine(p) \/ Post(p) \/ Ends(p) \/ Close(p)
Opening == OpenOne \/ OpenTwo \/ Fork
Unlinking == \E n \in Names : Unlink(n) \/ UnlinkFails(n)
Next == (\E p \in Parties : Party(p) \/ Fails(p)) \/ Opening \/ Unlinking \/ Kill \/ Rerun

-----------------------------------------------------------------------------
(* Places, counts and values are what they may be: never more than one of   *)
(* the semaphores is up.                                                     *)
TypeOK == /\ named \in BOOLEAN /\ names \subseteq Names
          /\ at \in [Parties -> {"open", "opentwo", "opentwo_refused", "opentwo_failed", "fork",
                                 "wait", "print", "post", "close", "unlink_one",
                                 "unlink_two"} \cup Ended]
          /\ count \in [Parties -> 0..Lines]
          /\ sem \in [Names -> 0..1] /\ sem["one"] + sem["two"] <= 1
          /\ runs \in 1..MaxRuns /\ mishap \in BOOLEAN

(* lab13: main destroys the semaphores after their last use. *)
UnusedWhenDestroyed == ~named /\ at["main"] = "over" => at["child"] \in Ended

(* lab15: a run is refused only after another was killed or a call failed;   *)
(* without that a run that comes to its end leaves no name behind.           *)
RefusedAfterMishapOnly ==
    /\ (\E p \in Parties : at[p] = "refused") => mishap
    /\ named /\ Finished /\ ~mishap => names = {}
=============================================================================
