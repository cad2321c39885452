------------------------------ MODULE Regression ------------------------------
(***************************************************************************)
(* regressionManager.py and the run.pl it starts once per test.  The tests  *)
(* run in the background, all of them in mips-single-cycle with one work    *)
(* library, and write to one log; the manager sleeps for twenty seconds and *)
(* then reads the log.  Nothing relates that time to the tests', so the     *)
(* sleep may end at any moment.                                             *)
(***************************************************************************)
EXTENDS Sequences, FiniteSets, Naturals

CONSTANTS
  Tests,        \* the test names found under hex_gen/tests
  Failing       \* the tests that $fatal ends

ASSUME TestsAssumption == Tests # {} /\ Failing \subseteq Tests

VARIABLES
  step,         \* where each test's run.pl is
  work,         \* the library: "absent", "empty" (vlib) or "compiled" (vlog)
  log,          \* the lines that matter of the file all tests write to
  manager,      \* "starting", "sleeping", "parsing", "done"
  testfile,     \* the test parseLog has last seen loaded
  match,        \* its count of failures
  blamed,       \* the names it has printed with "[ERROR]"
  position,     \* lines it has read
  simulated,    \* the tests whose simulation ran
  over          \* the tests that had ended when the reading began

managerVars == <<manager, testfile, match, blamed, position, over>>
vars == <<step, work, log, simulated, managerVars>>

NoTest == "no test"
Steps == {"idle", "clean", "vlib", "vlog", "vsim", "running", "ended"}
Loading(t) == [line |-> "# Loading", test |-> t]
Failed(t)  == [line |-> "TEST FAILED", test |-> t]

Init ==
  /\ step = [t \in Tests |-> "idle"]
  /\ work = "absent" /\ log = <<>> /\ simulated = {}
  /\ manager = "starting"
  /\ testfile = NoTest /\ match = 0 /\ blamed = {} /\ position = 0 /\ over = {}

Goes(t, s) == step' = [step EXCEPT ![t] = s]

-----------------------------------------------------------------------------
(* run.pl, from where the simulator's library is built *)

Clean(t) == /\ step[t] = "clean" /\ Goes(t, "vlib")
            /\ work' = "absent"
            /\ UNCHANGED <<log, simulated, managerVars>>

\* (mutant) the old library removed after vlib
VlibThenClean(t) == /\ step[t] = "vlib" /\ Goes(t, "vlog")
                    /\ work' = "absent"
                    /\ UNCHANGED <<log, simulated, managerVars>>

Vlib(t) == /\ step[t] = "vlib" /\ Goes(t, "vlog")
           /\ work' = IF work = "absent" THEN "empty" ELSE work
           /\ UNCHANGED <<log, simulated, managerVars>>

Vlog(t) == /\ step[t] = "vlog" /\ Goes(t, "vsim")
           /\ work' = IF work = "absent" THEN work ELSE "compiled"
           /\ UNCHANGED <<log, simulated, managerVars>>

\* The exit codes of vlib, vlog and vsim are not looked at
Vsim(t) ==
  /\ step[t] = "vsim"
  /\ IF work = "compiled"
       THEN /\ Goes(t, "running")
            /\ log' = Append(log, Loading(t))
            /\ simulated' = simulated \cup {t}
       ELSE Goes(t, "ended") /\ UNCHANGED <<log, simulated>>
  /\ UNCHANGED <<work, managerVars>>

End(t) ==
  /\ step[t] = "running" /\ Goes(t, "ended")
  /\ log' = IF t \in Failing THEN Append(log, Failed(t)) ELSE log
  /\ UNCHANGED <<work, simulated, managerVars>>

-----------------------------------------------------------------------------
(* The manager *)

\* regression(): nothing waits for the process
Popen(t) == /\ manager = "starting" /\ step[t] = "idle" /\ Goes(t, "clean")
            /\ UNCHANGED <<work, log, simulated, managerVars>>
AllStarted == /\ manager = "starting" /\ \A t \in Tests : step[t] # "idle"
              /\ manager' = "sleeping"
              /\ UNCHANGED <<step, work, log, simulated, testfile, match, blamed, position, over>>
WakeUp == /\ manager = "sleeping" /\ manager' = "parsing"
          /\ over' = {t \in Tests : step[t] = "ended"}
          /\ UNCHANGED <<step, work, log, simulated, testfile, match, blamed, position>>

\* (mutant) the lines of a test after its first failure skipped
ParseLineOnce ==
  /\ manager = "parsing" /\ position < Len(log)
  /\ position' = position + 1
  /\ LET l == log[position']
     IN  /\ testfile' = IF l.line = "# Loading" THEN l.test ELSE testfile
         /\ match'    = IF l.line = "TEST FAILED" /\ testfile \notin blamed THEN match + 1 ELSE match
         /\ blamed'   = IF l.line = "TEST FAILED" THEN blamed \cup {testfile} ELSE blamed
  /\ UNCHANGED <<step, work, log, simulated, manager, over>>

\* One turn of parseLog's loop; the file may still be growing
ParseLine ==
  /\ manager = "parsing" /\ position < Len(log)
  /\ position' = position + 1
  /\ LET l == log[position']
     IN  /\ testfile' = IF l.line = "# Loading" THEN l.test ELSE testfile
         /\ match'    = IF l.line = "TEST FAILED" THEN match + 1 ELSE match
         /\ blamed'   = IF l.line = "TEST FAILED" THEN blamed \cup {testfile} ELSE blamed
  /\ UNCHANGED <<step, work, log, simulated, manager, over>>

\* (mutant) the log read until a failure turns up
EndOfFileFollowed ==
  /\ manager = "parsing" /\ position = Len(log) /\ match > 0
  /\ manager' = "done"
  /\ UNCHANGED <<step, work, log, simulated, testfile, match, blamed, position, over>>

\* "[DEBUG] No tests failed" is printed here when match is 0
EndOfFile == /\ manager = "parsing" /\ position = Len(log)
             /\ manager' = "done"
             /\ UNCHANGED <<step, work, log, simulated, testfile, match, blamed, position, over>>

RunPl(t) == Clean(t) \/ Vlib(t) \/ Vlog(t) \/ Vsim(t) \/ End(t)
Manager  == (\E t \in Tests : Popen(t)) \/ AllStarted \/ WakeUp \/ ParseLine \/ EndOfFile
Next == Manager \/ \E t \in Tests : RunPl(t)

\* Every process runs on
Spec == Init /\ [][Next]_vars /\ WF_vars(Manager) /\ \A t \in Tests : WF_vars(RunPl(t))

-----------------------------------------------------------------------------
\* Reading a log that tests still write to misses at most the failures of those that had
\* not ended when the reading began, and reports none that did not happen, whatever the
\* order in which the tests wrote; it lacks only the tests whose simulation never ran.
CountsTheEnded ==
  manager = "done" => match \in Cardinality(Failing \cap simulated \cap over)
                                  .. Cardinality(Failing \cap simulated)

\* The last test to compile simulates: of tests that run through each other some may
\* find the library gone, but never all of them.
SomeTestRuns == (\A t \in Tests : step[t] = "ended") => simulated # {}

\* A regression ends, and so does every test.
Ends == <>(manager = "done" /\ \A t \in Tests : step[t] = "ended")
=============================================================================
