--------------------------- MODULE Regression_proofs ---------------------------
(***************************************************************************)
(* Regression for any set of tests.                                        *)
(* 1. Some test is always simulated, however the runs take the library     *)
(*    from each other: the library is compiled by the last of them to come *)
(*    to vlog, and only a test that has not yet come there can remove it.  *)
(* 2. The count of failures has those of the tests that had ended when the *)
(*    reading began, and no invented one: the lines "TEST FAILED" of the   *)
(*    log and the failing tests whose simulation has ended are in a        *)
(*    one-to-one correspondence, which every append keeps.                 *)
(***************************************************************************)
EXTENDS Regression, FiniteSetTheorems, TLAPS

\* A test that has its build before it, or its simulation with a library to load
Builds(t) == \/ step[t] \in {"idle", "clean", "vlib"}
             \/ step[t] = "vlog" /\ work # "absent"
             \/ step[t] = "vsim" /\ work = "compiled"

SomeoneBuilds == simulated # {} \/ \E t \in Tests : Builds(t)

\* The part of TypeOK the argument needs
StepsOK == step \in [Tests -> Steps]

IInv == StepsOK /\ SomeoneBuilds

LEMMA InitHolds == Init => IInv
  <1> SUFFICES ASSUME Init PROVE IInv OBVIOUS
  <1>1. StepsOK BY DEF Init, StepsOK, Steps
  <1>2. PICK t \in Tests : TRUE BY TestsAssumption
  <1>3. Builds(t) BY <1>2 DEF Init, Builds
  <1> QED BY <1>1, <1>2, <1>3 DEF IInv, SomeoneBuilds

\* A step of one test's run.pl: who builds goes on, hands the library to its own
\* next step, or has it simulated
LEMMA RunPlHolds ==
  ASSUME IInv, NEW s \in Tests, RunPl(s) PROVE IInv'
  <1> USE DEF IInv, StepsOK, Goes
  <1>1. CASE Clean(s)
    <2>1. Builds(s)' BY <1>1 DEF Clean, Builds
    <2> QED BY <1>1, <2>1 DEF Clean, Steps, SomeoneBuilds
  <1>2. CASE Vlib(s)
    <2>1. Builds(s)' BY <1>2 DEF Vlib, Builds
    <2> QED BY <1>2, <2>1 DEF Vlib, Steps, SomeoneBuilds
  <1>3. CASE Vlog(s)
    <2>1. StepsOK' BY <1>3 DEF Vlog, Steps
    <2>2. CASE work # "absent"
      <3>1. Builds(s)' BY <1>3, <2>2 DEF Vlog, Builds
      <3> QED BY <2>1, <3>1 DEF SomeoneBuilds
    <2>3. CASE work = "absent"
      <3>1. CASE simulated # {} BY <1>3, <2>1, <3>1 DEF Vlog, SomeoneBuilds
      <3>2. CASE simulated = {}
        <4>1. PICK t \in Tests : Builds(t) BY <3>2 DEF SomeoneBuilds
        <4>2. t # s BY <1>3, <2>3, <4>1 DEF Vlog, Builds
        <4>3. Builds(t)' BY <1>3, <2>3, <4>1, <4>2 DEF Vlog, Builds
        <4> QED BY <2>1, <4>3 DEF SomeoneBuilds
      <3> QED BY <3>1, <3>2
    <2> QED BY <2>2, <2>3
  <1>4. CASE Vsim(s)
    <2>1. StepsOK' BY <1>4 DEF Vsim, Steps
    <2>2. CASE work = "compiled"
      <3>1. simulated' # {} BY <1>4, <2>2 DEF Vsim
      <3> QED BY <2>1, <3>1 DEF SomeoneBuilds
    <2>3. CASE work # "compiled"
      <3>1. CASE simulated # {} BY <1>4, <2>1, <2>3, <3>1 DEF Vsim, SomeoneBuilds
      <3>2. CASE simulated = {}
        <4>1. PICK t \in Tests : Builds(t) BY <3>2 DEF SomeoneBuilds
        <4>2. t # s BY <1>4, <2>3, <4>1 DEF Vsim, Builds
        <4>3. Builds(t)' BY <1>4, <2>3, <4>1, <4>2 DEF Vsim, Builds
        <4> QED BY <2>1, <4>3 DEF SomeoneBuilds
      <3> QED BY <3>1, <3>2
    <2> QED BY <2>2, <2>3
  <1>5. CASE End(s)
    <2>1. StepsOK' BY <1>5 DEF End, Steps
    <2>2. CASE simulated # {} BY <1>5, <2>1, <2>2 DEF End, SomeoneBuilds
    <2>3. CASE simulated = {}
      <3>1. PICK t \in Tests : Builds(t) BY <2>3 DEF SomeoneBuilds
      <3>2. t # s BY <1>5, <3>1 DEF End, Builds
      <3>3. Builds(t)' BY <1>5, <3>1, <3>2 DEF End, Builds
      <3> QED BY <2>1, <3>3 DEF SomeoneBuilds
    <2> QED BY <2>2, <2>3
  <1> QED BY <1>1, <1>2, <1>3, <1>4, <1>5 DEF RunPl

\* The manager starts tests and reads; it never touches the library
LEMMA ManagerHolds ==
  ASSUME IInv, Manager PROVE IInv'
  <1> USE DEF IInv, StepsOK
  <1>1. CASE \E s \in Tests : Popen(s)
    <2>1. PICK s \in Tests : Popen(s) BY <1>1
    <2>2. Builds(s)' BY <2>1 DEF Popen, Goes, Builds
    <2> QED BY <2>1, <2>2 DEF Popen, Goes, Steps, SomeoneBuilds
  <1>2. CASE AllStarted \/ WakeUp \/ ParseLine \/ EndOfFile
    <2>1. UNCHANGED <<step, work, simulated>>
      BY <1>2 DEF AllStarted, WakeUp, ParseLine, EndOfFile
    <2> QED BY <2>1 DEF SomeoneBuilds, Builds
  <1> QED BY <1>1, <1>2 DEF Manager

LEMMA StepHolds == IInv /\ [Next]_vars => IInv'
  <1> SUFFICES ASSUME IInv, [Next]_vars PROVE IInv' OBVIOUS
  <1>1. CASE Manager BY <1>1, ManagerHolds
  <1>2. CASE \E t \in Tests : RunPl(t) BY <1>2, RunPlHolds
  <1>3. CASE UNCHANGED vars
    BY <1>3 DEF vars, IInv, StepsOK, SomeoneBuilds, Builds
  <1> QED BY <1>1, <1>2, <1>3 DEF Next

-----------------------------------------------------------------------------
\* SomeTestRuns for every set of tests: when all of them have ended, at least one
\* has been simulated (run.pl:85-98).
THEOREM SomeTestSimulated == Spec => []SomeTestRuns
  <1>1. IInv => SomeTestRuns
    BY DEF IInv, StepsOK, SomeoneBuilds, Builds, SomeTestRuns
  <1> QED BY <1>1, InitHolds, StepHolds, PTL DEF Spec

-----------------------------------------------------------------------------
(* Counting the failures *)

Lines == [line : {"# Loading", "TEST FAILED"}, test : Tests]

\* The lines among the first n that report a failure
FailedIn(n) == {i \in 1..n : log[i].line = "TEST FAILED"}

\* simulated against the steps of the tests
RanInv ==
  /\ simulated \subseteq Tests /\ IsFiniteSet(simulated)
  /\ \A t \in simulated : step[t] \in {"running", "ended"}
  /\ \A t \in Tests : step[t] = "running" => t \in simulated

\* The log against the tests: a line per failing test that has run to its end
Reports(i, t) == i \in FailedIn(Len(log)) /\ log[i].test = t
LogInv ==
  /\ log \in Seq(Lines)
  /\ \A i \in FailedIn(Len(log)) :
       log[i].test \in Failing \cap simulated /\ step[log[i].test] = "ended"
  /\ \A i, j \in FailedIn(Len(log)) : log[i].test = log[j].test => i = j
  /\ \A t \in Failing \cap simulated : step[t] = "ended" => \E i \in 1..Len(log) : Reports(i, t)

\* The manager against the log: of the tests that had ended it misses none
Reported(t) == \E i \in FailedIn(position) : log[i].test = t
ReadInv ==
  /\ position \in 0..Len(log)
  /\ match = Cardinality(FailedIn(position))
  /\ over \subseteq Tests /\ \A t \in over : step[t] = "ended"
  /\ manager = "done" => \A t \in Failing \cap simulated \cap over : Reported(t)

CountInv == StepsOK /\ RanInv /\ LogInv /\ ReadInv

LEMMA FailedFinite == ASSUME NEW n \in Nat PROVE IsFiniteSet(FailedIn(n))
  <1>1. IsFiniteSet(1..n) BY FS_Interval
  <1>2. FailedIn(n) \in SUBSET (1..n) BY DEF FailedIn
  <1> QED BY <1>1, <1>2, FS_Subset

\* One line more: the lines before it stay, and it is one more report or none
LEMMA LogGrows ==
  ASSUME log \in Seq(Lines), NEW l \in Lines, log' = Append(log, l)
  PROVE  /\ log' \in Seq(Lines) /\ Len(log) \in Nat
         /\ 1..Len(log') = (1..Len(log)) \cup {Len(log) + 1}
         /\ Len(log) + 1 \notin 1..Len(log)
         /\ \A i \in 1..Len(log) : log'[i] = log[i]
         /\ log'[Len(log) + 1] = l
         /\ FailedIn(Len(log))' = IF l.line = "TEST FAILED"
                                    THEN FailedIn(Len(log)) \cup {Len(log) + 1}
                                    ELSE FailedIn(Len(log))
  <1> DEFINE n == Len(log)
             m == Len(log')
  <1>1. /\ log' \in Seq(Lines) /\ n \in Nat /\ m = n + 1
        /\ \A i \in 1..n : log'[i] = log[i]
        /\ log'[n + 1] = l
    OBVIOUS
  <1> HIDE DEF n, m
  <1>2. 1..m = (1..n) \cup {n + 1} /\ n + 1 \notin 1..n
    BY <1>1
  <1>3. FailedIn(n) = {i \in 1..n : log[i].line = "TEST FAILED"} BY DEF FailedIn
  <1>4. FailedIn(n)' = {i \in 1..m : log'[i].line = "TEST FAILED"} BY DEF FailedIn, n, m
  <1>5. FailedIn(n)' = IF l.line = "TEST FAILED" THEN FailedIn(n) \cup {n + 1} ELSE FailedIn(n)
    <2>1. \A i \in 1..n : i \in FailedIn(n)' <=> i \in FailedIn(n)
      BY <1>1, <1>2, <1>3, <1>4
    <2>2. n + 1 \in FailedIn(n)' <=> l.line = "TEST FAILED"
      BY <1>1, <1>2, <1>4
    <2> QED BY <1>2, <1>3, <1>4, <2>1, <2>2
  <1> QED BY <1>1, <1>2, <1>5 DEF n, m

LEMMA CountInit == Init => CountInv
  <1> SUFFICES ASSUME Init PROVE CountInv OBVIOUS
  <1>1. StepsOK BY InitHolds DEF IInv
  <1>2. log = <<>> /\ Len(log) = 0 /\ log \in Seq(Lines) BY DEF Init
  <1>3. FailedIn(0) = {} BY DEF FailedIn
  <1>4. Cardinality(FailedIn(0)) = 0 BY <1>3, FS_EmptySet
  <1>5. RanInv BY FS_EmptySet DEF Init, RanInv
  <1>6. LogInv BY <1>2, <1>3 DEF Init, LogInv
  <1>7. ReadInv BY <1>2, <1>4 DEF Init, ReadInv
  <1> QED BY <1>1, <1>5, <1>6, <1>7 DEF CountInv

\* A step that neither writes to the log nor comes to a test's end
LEMMA SilentHolds ==
  ASSUME CountInv, StepsOK', NEW s \in Tests, NEW to \in Steps \ {"running"},
         step[s] \notin {"running", "ended"}, Goes(s, to),
         UNCHANGED <<log, simulated, managerVars>>
  PROVE  CountInv'
  <1> USE DEF CountInv, StepsOK, Goes
  <1>1. s \notin simulated BY DEF RanInv
  <1>2. \A t \in simulated : step'[t] = step[t] BY <1>1 DEF RanInv
  <1>3. RanInv' BY <1>1, <1>2 DEF RanInv
  <1>4. \A n : FailedIn(n)' = FailedIn(n) BY DEF FailedIn
  <1>5. LogInv' BY <1>2, <1>4 DEF LogInv, Reports
  <1>6. \A t \in over : step'[t] = "ended" BY DEF ReadInv
  <1>7. ReadInv' BY <1>4, <1>6 DEF ReadInv, Reported, managerVars
  <1> QED BY <1>3, <1>5, <1>7

\* The manager's view of a log that grows, by a line of a test that had not ended
LEMMA GrowthUnread ==
  ASSUME CountInv, NEW s \in Tests \ over, NEW l \in Lines, log' = Append(log, l),
         \A t \in Tests : t # s => step'[t] = step[t],
         simulated' \subseteq simulated \cup {s}, UNCHANGED managerVars
  PROVE  ReadInv'
  <1>1. log \in Seq(Lines) BY DEF CountInv, LogInv
  <1>2. /\ Len(log) \in Nat /\ 1..Len(log') = (1..Len(log)) \cup {Len(log) + 1}
        /\ \A i \in 1..Len(log) : log'[i] = log[i]
    BY <1>1, LogGrows
  <1>3. position \in 0..Len(log) /\ position' = position BY DEF CountInv, ReadInv, managerVars
  <1>4. \A i \in 1..position : log'[i] = log[i] BY <1>2, <1>3
  <1>5. FailedIn(position)' = FailedIn(position) BY <1>3, <1>4 DEF FailedIn
  <1>6. position' \in 0..Len(log')
    <2>1. Len(log') = Len(log) + 1 BY <1>1
    <2> QED BY <1>2, <1>3, <2>1
  <1>7. \A t \in over : step'[t] = "ended" BY DEF CountInv, ReadInv
  <1>8. \A i \in FailedIn(position) : log'[i] = log[i] BY <1>3, <1>4 DEF FailedIn
  <1>9. manager = "done" => \A t \in Failing \cap simulated' \cap over : Reported(t)'
    <2>1. Failing \cap simulated' \cap over \subseteq Failing \cap simulated \cap over OBVIOUS
    <2> QED BY <1>5, <1>8, <2>1 DEF CountInv, ReadInv, Reported
  <1> QED BY <1>5, <1>6, <1>7, <1>9 DEF CountInv, ReadInv, managerVars

\* A simulation begins: nobody's report
LEMMA LoadingHolds ==
  ASSUME CountInv, StepsOK', NEW s \in Tests, Vsim(s), work = "compiled"
  PROVE  CountInv'
  <1>1. /\ step[s] = "vsim" /\ Goes(s, "running") /\ log' = Append(log, Loading(s))
        /\ simulated' = simulated \cup {s} /\ UNCHANGED managerVars
    BY DEF Vsim
  <1>2. Loading(s) \in Lines /\ Loading(s).line = "# Loading" BY DEF Loading, Lines
  <1>3. /\ log' \in Seq(Lines) /\ 1..Len(log') = (1..Len(log)) \cup {Len(log) + 1}
        /\ \A i \in 1..Len(log) : log'[i] = log[i]
        /\ FailedIn(Len(log))' = FailedIn(Len(log))
    BY <1>1, <1>2, LogGrows DEF CountInv, LogInv
  <1>4. step' = [step EXCEPT ![s] = "running"] /\ step \in [Tests -> Steps]
    BY <1>1 DEF Goes, CountInv, StepsOK
  <1>5. s \notin simulated /\ s \notin over /\ simulated \subseteq Tests
    BY <1>1 DEF CountInv, RanInv, ReadInv
  <1>6. \A t \in Tests : t # s => step'[t] = step[t] BY <1>4
  <1>7. RanInv' BY <1>1, <1>4, <1>6, FS_AddElement DEF CountInv, RanInv
  <1>8. LogInv'
    <2>1. \A i \in FailedIn(Len(log)) : i \in 1..Len(log) /\ log'[i] = log[i]
      BY <1>3 DEF FailedIn
    <2>2. \A i \in FailedIn(Len(log)) :
            /\ log'[i].test \in Failing \cap simulated' /\ step'[log'[i].test] = "ended"
      BY <2>1, <1>1, <1>5, <1>6 DEF CountInv, LogInv
    <2>3. \A i, j \in FailedIn(Len(log)) : log'[i].test = log'[j].test => i = j
      BY <2>1 DEF CountInv, LogInv
    <2>4. ASSUME NEW t \in Failing \cap simulated', step'[t] = "ended"
          PROVE  \E i \in 1..Len(log') : Reports(i, t)'
      <3>1. t # s /\ t \in simulated /\ step[t] = "ended"
        BY <2>4, <1>1, <1>4, <1>5, <1>6
      <3>2. PICK i \in 1..Len(log) : Reports(i, t) BY <3>1 DEF CountInv, LogInv
      <3> QED BY <1>3, <3>2 DEF Reports
    <2> QED BY <1>3, <2>2, <2>3, <2>4 DEF LogInv
  <1>9. ReadInv' BY <1>1, <1>2, <1>5, <1>6, GrowthUnread
  <1> QED BY <1>7, <1>8, <1>9 DEF CountInv

\* A simulation ends: one report more if the test fails, its first
LEMMA EndHolds ==
  ASSUME CountInv, StepsOK', NEW s \in Tests, End(s) PROVE CountInv'
  <1>1. /\ step[s] = "running" /\ Goes(s, "ended") /\ UNCHANGED <<simulated, managerVars>>
        /\ log' = IF s \in Failing THEN Append(log, Failed(s)) ELSE log
    BY DEF End
  <1>2. step' = [step EXCEPT ![s] = "ended"] /\ step \in [Tests -> Steps]
    BY <1>1 DEF Goes, CountInv, StepsOK
  <1>3. s \in simulated /\ s \notin over /\ simulated \subseteq Tests
    BY <1>1 DEF CountInv, RanInv, ReadInv
  <1>4. step'[s] = "ended" /\ \A t \in Tests : t # s => step'[t] = step[t] BY <1>2
  <1>5. RanInv' BY <1>1, <1>4 DEF CountInv, RanInv
  <1>6. \A i \in FailedIn(Len(log)) :
          /\ i \in 1..Len(log) /\ log[i].test \in Failing \cap simulated
          /\ log[i].test # s /\ step'[log[i].test] = "ended"
    <2>1. \A i \in FailedIn(Len(log)) :
            /\ i \in 1..Len(log) /\ log[i].test \in Failing \cap simulated
            /\ step[log[i].test] = "ended"
      BY DEF CountInv, LogInv, FailedIn
    <2>2. \A t \in Tests : step[t] = "ended" => t # s /\ step'[t] = "ended" BY <1>1, <1>4
    <2> QED BY <2>1, <2>2, TestsAssumption
  <1>7. CASE s \notin Failing
    <2>1. log' = log BY <1>1, <1>7
    <2>2. FailedIn(Len(log))' = FailedIn(Len(log)) /\ FailedIn(position)' = FailedIn(position)
      BY <1>1, <2>1 DEF FailedIn, managerVars
    <2>3. \A t \in Failing \cap simulated : step'[t] = "ended" => step[t] = "ended"
      BY <1>3, <1>4, <1>7
    <2>4. LogInv' BY <1>1, <1>6, <2>1, <2>2, <2>3 DEF CountInv, LogInv, Reports
    <2>5. ReadInv' BY <1>1, <1>3, <1>4, <2>1, <2>2 DEF CountInv, ReadInv, Reported, managerVars
    <2> QED BY <1>5, <2>4, <2>5 DEF CountInv
  <1>8. CASE s \in Failing
    <2>1. log' = Append(log, Failed(s)) BY <1>1, <1>8
    <2>2. /\ Failed(s) \in Lines /\ Failed(s).line = "TEST FAILED" /\ Failed(s).test = s
      BY DEF Failed, Lines
    <2> DEFINE n == Len(log) + 1
    <2>3. /\ log' \in Seq(Lines) /\ 1..Len(log') = (1..Len(log)) \cup {n}
          /\ n \notin 1..Len(log) /\ log'[n] = Failed(s)
          /\ \A i \in 1..Len(log) : log'[i] = log[i]
          /\ FailedIn(Len(log))' = FailedIn(Len(log)) \cup {n}
      BY <2>1, <2>2, LogGrows DEF CountInv, LogInv
    <2> HIDE DEF n
    <2>4. log'[n].test = s /\ \A i \in FailedIn(Len(log)) : log'[i] = log[i]
      BY <1>6, <2>2, <2>3
    <2>5. \A i \in FailedIn(Len(log)) \cup {n} :
            /\ log'[i].test \in Failing \cap simulated /\ step'[log'[i].test] = "ended"
      BY <1>3, <1>4, <1>6, <1>8, <2>4
    <2>6. \A i, j \in FailedIn(Len(log)) \cup {n} : log'[i].test = log'[j].test => i = j
      <3>1. \A i, j \in FailedIn(Len(log)) : log[i].test = log[j].test => i = j
        BY DEF CountInv, LogInv
      <3>2. \A i \in FailedIn(Len(log)) : log'[i].test # log'[n].test BY <1>6, <2>4
      <3> QED BY <2>4, <3>1, <3>2
    <2>7. ASSUME NEW t \in Failing \cap simulated, step'[t] = "ended"
          PROVE  \E i \in 1..Len(log') : Reports(i, t)'
      <3>1. CASE t = s BY <2>3, <2>4, <3>1 DEF Reports
      <3>2. CASE t # s
        <4>1. step[t] = "ended" BY <1>3, <1>4, <2>7, <3>2
        <4>2. PICK i \in 1..Len(log) : Reports(i, t) BY <4>1 DEF CountInv, LogInv
        <4> QED BY <2>3, <4>2 DEF Reports
      <3> QED BY <3>1, <3>2
    <2>8. LogInv' BY <1>1, <2>3, <2>5, <2>6, <2>7 DEF LogInv
    <2>9. ReadInv' BY <1>1, <1>3, <1>4, <2>1, <2>2, GrowthUnread
    <2> QED BY <1>5, <2>8, <2>9 DEF CountInv
  <1> QED BY <1>7, <1>8

\* A line is read: one failure more is counted if it reports one
LEMMA ReadHolds ==
  ASSUME CountInv, ParseLine PROVE ReadInv'
  <1>1. /\ manager = "parsing" /\ position < Len(log) /\ position' = position + 1
        /\ match' = IF log[position'].line = "TEST FAILED" THEN match + 1 ELSE match
        /\ UNCHANGED <<step, log, manager, over>>
    BY DEF ParseLine
  <1>2. Len(log) \in Nat /\ Len(log') = Len(log) /\ position \in 0..Len(log)
    <2>1. log \in Seq(Lines) BY DEF CountInv, LogInv
    <2>2. Len(log) \in Nat BY <2>1
    <2>3. log' = log BY <1>1
    <2> QED BY <2>2, <2>3 DEF CountInv, ReadInv
  <1> DEFINE p == position
             old == FailedIn(position)
             new == FailedIn(position)'
  <1>3. p \in Nat /\ p + 1 \in 1..Len(log)
    <2>1. position < Len(log) BY <1>1
    <2> QED BY <1>2, <2>1
  <1>4. 1..(p + 1) = (1..p) \cup {p + 1} /\ p + 1 \notin 1..p BY <1>3
  <1>5. new = {i \in 1..(p + 1) : log[i].line = "TEST FAILED"} BY <1>1 DEF FailedIn
  <1>6. IsFiniteSet(old) /\ match = Cardinality(old) /\ p + 1 \notin old
    BY <1>3, <1>4, FailedFinite DEF FailedIn, CountInv, ReadInv
  <1>7. match' = Cardinality(new)
    <2>1. CASE log[p + 1].line = "TEST FAILED"
      <3>1. new = old \cup {p + 1} BY <1>4, <1>5, <2>1 DEF FailedIn
      <3>2. Cardinality(new) = Cardinality(old) + 1 BY <1>6, <3>1, FS_AddElement
      <3> QED BY <1>1, <1>6, <2>1, <3>2
    <2>2. CASE log[p + 1].line # "TEST FAILED"
      <3>1. new = old BY <1>4, <1>5, <2>2 DEF FailedIn
      <3> QED BY <1>1, <1>6, <2>2, <3>1
    <2> QED BY <2>1, <2>2
  <1>8. position' \in 0..Len(log')
    <2>1. position' = position + 1 BY <1>1
    <2> QED BY <1>2, <1>3, <2>1
  <1>9. manager' # "done" BY <1>1
  <1> QED BY <1>1, <1>7, <1>8, <1>9 DEF CountInv, ReadInv

LEMMA CountManager == ASSUME CountInv, StepsOK', Manager PROVE CountInv'
  <1>1. CASE \E s \in Tests : Popen(s)
    <2>1. PICK s \in Tests : Popen(s) BY <1>1
    <2> QED BY <2>1, SilentHolds DEF Popen, Steps
  <1>2. CASE AllStarted \/ WakeUp \/ ParseLine \/ EndOfFile
    <2>1. UNCHANGED <<step, log, simulated>> BY <1>2 DEF AllStarted, WakeUp, ParseLine, EndOfFile
    <2>2. \A n : FailedIn(n)' = FailedIn(n) BY <2>1 DEF FailedIn
    <2>3. RanInv' BY <2>1 DEF CountInv, RanInv
    <2>4. LogInv' BY <2>1, <2>2 DEF CountInv, LogInv, Reports
    <2>5. ASSUME AllStarted PROVE ReadInv' BY <2>1, <2>2, <2>5 DEF AllStarted, CountInv, ReadInv
    <2>6. ASSUME WakeUp PROVE ReadInv' BY <2>1, <2>2, <2>6 DEF WakeUp, CountInv, ReadInv
    <2>7. ASSUME EndOfFile PROVE ReadInv'
      <3>1. ASSUME NEW t \in Failing \cap simulated \cap over PROVE Reported(t)'
        <4>1. PICK i \in 1..Len(log) : Reports(i, t) BY <3>1 DEF CountInv, ReadInv, LogInv
        <4> QED BY <2>1, <2>2, <2>7, <4>1 DEF EndOfFile, Reports, Reported
      <3> QED BY <2>1, <2>2, <2>7, <3>1 DEF EndOfFile, CountInv, ReadInv
    <2>8. ReadInv' BY <1>2, <2>5, <2>6, <2>7, ReadHolds DEF CountInv
    <2> QED BY <2>3, <2>4, <2>8 DEF CountInv
  <1> QED BY <1>1, <1>2 DEF Manager

LEMMA CountRunPl == ASSUME CountInv, StepsOK', NEW s \in Tests, RunPl(s) PROVE CountInv'
  <1> USE DEF Steps
  <1>1. CASE Clean(s) BY <1>1, SilentHolds DEF Clean
  <1>2. CASE Vlib(s) BY <1>2, SilentHolds DEF Vlib
  <1>3. CASE Vlog(s) BY <1>3, SilentHolds DEF Vlog
  <1>4. CASE Vsim(s) /\ work # "compiled" BY <1>4, SilentHolds DEF Vsim
  <1>5. CASE Vsim(s) /\ work = "compiled" BY <1>5, LoadingHolds
  <1>6. CASE End(s) BY <1>6, EndHolds
  <1> QED BY <1>1, <1>2, <1>3, <1>4, <1>5, <1>6 DEF RunPl

LEMMA CountStep == IInv /\ CountInv /\ [Next]_vars => IInv' /\ CountInv'
  <1> SUFFICES ASSUME IInv, CountInv, [Next]_vars PROVE IInv' /\ CountInv' OBVIOUS
  <1>1. IInv' /\ StepsOK' BY StepHolds DEF IInv
  <1>2. CASE Manager BY <1>1, <1>2, CountManager
  <1>3. CASE \E t \in Tests : RunPl(t) BY <1>1, <1>3, CountRunPl
  <1>4. CASE UNCHANGED vars
    <2>1. \A n : FailedIn(n)' = FailedIn(n) BY <1>4 DEF FailedIn, vars
    <2> QED BY <1>1, <1>4, <2>1 DEF vars, managerVars, CountInv, RanInv, LogInv, ReadInv, Reports, Reported
  <1> QED BY <1>1, <1>2, <1>3, <1>4 DEF Next

\* The lines counted and the tests they name correspond one to one; the tests named are
\* failing ones that were simulated, and those that had ended are among them
LEMMA ReportsCounted ==
  ASSUME CountInv, manager = "done"
  PROVE  match \in Cardinality(Failing \cap simulated \cap over)
                     .. Cardinality(Failing \cap simulated)
  <1> DEFINE S == FailedIn(position)
             T == {log[i].test : i \in S}
             f == [i \in S |-> log[i].test]
             Ran == Failing \cap simulated
             Over == Failing \cap simulated \cap over
  <1>1. position \in Nat /\ S \subseteq FailedIn(Len(log)) /\ IsFiniteSet(S)
    <2>1. Len(log) \in Nat /\ position \in 0..Len(log) BY DEF CountInv, ReadInv, LogInv
    <2>2. position \in Nat /\ 1..position \subseteq 1..Len(log) BY <2>1
    <2> QED BY <2>2, FailedFinite DEF FailedIn
  <1>2. T \subseteq Ran /\ IsFiniteSet(Ran)
    <2>1. T \subseteq Ran BY <1>1 DEF CountInv, LogInv
    <2>2. Ran \in SUBSET simulated /\ IsFiniteSet(simulated) BY DEF CountInv, RanInv
    <2> QED BY <2>1, <2>2, FS_Subset
  <1>3. Over \subseteq T BY DEF CountInv, ReadInv, Reported
  <1>4. f \in Bijection(S, T)
    <2>1. f \in [S -> T] /\ \A t \in T : \E i \in S : f[i] = t OBVIOUS
    <2>2. \A i, j \in S : f[i] = f[j] => i = j BY <1>1 DEF CountInv, LogInv
    <2> HIDE DEF f, S, T
    <2> QED BY <2>1, <2>2 DEF Bijection, Injection, Surjection, IsInjective
  <1>5. match = Cardinality(S) BY DEF CountInv, ReadInv
  <1> HIDE DEF f, S, T, Ran, Over
  <1>6. IsFiniteSet(T) /\ Cardinality(T) = Cardinality(S)
    <2>1. ExistsBijection(S, T) BY <1>4 DEF ExistsBijection
    <2> QED BY <1>1, <2>1, FS_Bijection
  <1>7. Cardinality(Over) <= Cardinality(T) /\ IsFiniteSet(Over) BY <1>3, <1>6, FS_Subset
  <1>8. Cardinality(T) <= Cardinality(Ran) BY <1>2, FS_Subset
  <1>9. Cardinality(T) \in Nat /\ Cardinality(Over) \in Nat /\ Cardinality(Ran) \in Nat
    BY <1>2, <1>6, <1>7, FS_CardinalityType
  <1>10. match \in Cardinality(Over) .. Cardinality(Ran) BY <1>5, <1>6, <1>7, <1>8, <1>9
  <1> QED BY <1>10 DEF Over, Ran

\* CountsTheEnded for every set of tests: the manager counts every failing test that was
\* simulated and had ended when the reading began, none twice and none that has not
\* failed, whatever the order in which they write (regressionManager.py:49-65).
THEOREM CountComplete == Spec => []CountsTheEnded
  <1>1. CountInv => CountsTheEnded BY ReportsCounted DEF CountsTheEnded
  <1> QED BY <1>1, InitHolds, CountInit, CountStep, PTL DEF Spec
=============================================================================
