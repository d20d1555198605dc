--------------------------- MODULE ToolCallProofs ---------------------------
(***************************************************************************)
(* Proofs about ToolCall, for every row limit, row count, set of apps and  *)
(* configuration: what a result says of its completeness is so, a saved    *)
(* search runs where it was found enabled, and a query runs no command the *)
(* safety check did not let pass and is refused for none it does not run.  *)
(* Together: a call keeps the promise of HonestCall.                       *)
(***************************************************************************)
EXTENDS ToolCall, SequenceTheorems, TLAPS

(* The effective limit is a number, whatever the caller gave.              *)
LEMMA LimitType ==
  ASSUME NEW limiter \in BOOLEAN, NEW raw \in Int \cup {None}
  PROVE  EffectiveLimit(BuildLimit(limiter, raw)) \in Int
BY RowAssumption DEF EffectiveLimit, BuildLimit

(* It is within the maximum, or the default where the caller's limit is    *)
(* missing, 0 or made 0 by the maximum.                                    *)
Capped(l, raw) ==
  l <= MaxRows \/ (l = DefaultRows /\ (raw \in {None, 0} \/ MaxRows = 0))

LEMMA LimitCapped ==
  ASSUME NEW limiter \in BOOLEAN, NEW raw \in Int \cup {None}, raw = None \/ limiter
  PROVE  Capped(EffectiveLimit(BuildLimit(limiter, raw)), raw)
BY RowAssumption DEF EffectiveLimit, BuildLimit, Capped

LEMMA StreamedType == \A n \in Nat : Streamed(n) \in Nat
BY RowAssumption DEF Streamed

LEMMA ReportType ==
  ASSUME NEW k \in Nat, NEW l \in Int, NEW warned \in BOOLEAN
  PROVE  Report(k, l, warned) \in [rows : Nat, truncated : BOOLEAN, total : Nat,
                                   approx : BOOLEAN, warned : BOOLEAN]
<1>1. Sliced(k, l) \in Nat
  BY DEF Sliced
<1> QED
  BY <1>1 DEF Report

(* A list that is not truncated is the whole search, or all that the head  *)
(* lets through, the row beyond the maximum included, of which a limit     *)
(* within the maximum would cut something.                                 *)
Over(r, l) == l > MaxRows /\ r.rows = MaxRows + 1 /\ r.approx

LEMMA WholeList ==
  ASSUME NEW n \in Nat, NEW l \in Int, NEW warned \in BOOLEAN,
         ~Report(Streamed(n), l, warned).truncated
  PROVE  \/ Report(Streamed(n), l, warned).rows = n
         \/ Over(Report(Streamed(n), l, warned), l)
<1> USE RowAssumption
<1>1. Streamed(n) \in Nat /\ ~(Streamed(n) > l)
  BY StreamedType DEF Report
<1>2. Sliced(Streamed(n), l) = Streamed(n)
  BY <1>1 DEF Sliced
<1>3. CASE Streamed(n) = n
  BY <1>2, <1>3 DEF Report
<1>4. CASE Streamed(n) # n
  <2>1. Streamed(n) = MaxRows + 1
    BY <1>4 DEF Streamed
  <2>2. l > MaxRows
    BY <1>1, <2>1
  <2>3. Report(Streamed(n), l, warned).rows = MaxRows + 1
    BY <1>2, <2>1 DEF Report
  <2>4. Report(Streamed(n), l, warned).approx
    BY <2>1 DEF Report
  <2> QED BY <2>2, <2>3, <2>4 DEF Over
<1> QED
  BY <1>3, <1>4

(* The total is exact, or marked approximate and short.                    *)
LEMMA Totals ==
  ASSUME NEW n \in Nat, NEW l \in Int, NEW warned \in BOOLEAN
  PROVE  IF Report(Streamed(n), l, warned).approx
         THEN n > MaxRows ELSE Report(Streamed(n), l, warned).total = n
<1>1. Report(Streamed(n), l, warned).approx <=> Streamed(n) = MaxRows + 1
  BY DEF Report
<1>2. Report(Streamed(n), l, warned).total = Streamed(n)
  BY DEF Report
<1>3. IF Streamed(n) = MaxRows + 1 THEN n > MaxRows ELSE Streamed(n) = n
  BY RowAssumption DEF Streamed
<1> QED
  BY <1>1, <1>2, <1>3
-----------------------------------------------------------------------------
(* What is put in front of the rest of an agenda is due, and so is all     *)
(* that was, but for its head.                                             *)
LEMMA Push ==
  ASSUME NEW S, NEW s \in Seq(S), NEW a \in Seq(S), a # <<>>
  PROVE  /\ s \o Tail(a) \in Seq(S)
         /\ Range(s) \subseteq Range(s \o Tail(a))
         /\ \A x \in Range(a) : x = Head(a) \/ x \in Range(s \o Tail(a))
<1>1. Tail(a) \in Seq(S)
  BY HeadTailProperties
<1>2. s \o Tail(a) \in Seq(S)
  BY <1>1, ConcatProperties
<1>3. Range(s \o Tail(a)) = Range(s) \cup Range(Tail(a))
  BY <1>1, RangeConcatenation
<1>4. ASSUME NEW x \in Range(a), x # Head(a) PROVE x \in Range(Tail(a))
  <2>1. PICK i \in 1..Len(a) : x = a[i]
    BY DEF Range
  <2>2. i # 1 /\ i - 1 \in 1..Len(Tail(a))
    BY <1>4, <2>1
  <2>3. Tail(a)[i - 1] = x
    BY <2>1, <2>2
  <2>4. DOMAIN Tail(a) = 1..Len(Tail(a))
    BY <1>1
  <2> QED
    BY <2>2, <2>3, <2>4 DEF Range
<1> QED
  BY <1>2, <1>3, <1>4

LEMMA Widen ==
  ASSUME NEW S, NEW T, NEW s \in Seq(S)
  PROVE  s \in Seq(S \cup T) /\ s \in Seq(T \cup S) /\ Range(s) \subseteq S
BY DEF Range

LEMMA SubsearchType ==
  ASSUME NEW c \in Commands
  PROVE  Subsearches(c) \in Seq(Texts) /\ Range(Subsearches(c)) \subseteq Texts
<1>1. Subsearches(c) \in Seq(Texts)
  BY DEF Subsearches, Commands
<1> QED
  BY <1>1, Widen

LEMMA ArgsType ==
  ASSUME args \in CallArgs
  PROVE  /\ args.limit \in Int \cup {None}
         /\ args.app \in Apps \cup {None}
         /\ args.kind \in Kinds
BY CallAssumption DEF CallArgs

LEMMA TypeInitial == Init => TypeOK
<1> SUFFICES ASSUME Init PROVE TypeOK
  OBVIOUS
<1>1. app \in Apps \cup {None} /\ args \in CallArgs
  BY ArgsType DEF Init
<1>2. answer \in [rows : Nat, truncated : BOOLEAN, total : Nat,
                  approx : BOOLEAN, warned : BOOLEAN]
  BY DEF Init, NoAnswer
<1>3. dispatched \in [sent : BOOLEAN, app : Apps \cup {None}, window : BOOLEAN]
  BY DEF Init, NoSearch
<1>4. pc = "new" /\ outcome = "none"
  BY DEF Init
<1>5. limit \in Int /\ available \in Nat
  BY DEF Init
<1>6. window \in BOOLEAN /\ disclosed \in BOOLEAN /\ lost \in BOOLEAN
  BY DEF Init
<1>7. catalogue \in [Apps -> States] /\ seen \subseteq Apps
  BY DEF Init
<1>8. text \in Texts \cup {None} /\ agenda \in Seq(Texts \cup Commands) /\ parsed \subseteq Texts
  BY DEF Init
<1> QED
  BY <1>1, <1>2, <1>3, <1>4, <1>5, <1>6, <1>7, <1>8 DEF TypeOK

LEMMA TypeStep == TypeOK /\ [Next]_vars => TypeOK'
<1> SUFFICES ASSUME TypeOK, [Next]_vars PROVE TypeOK'
  OBVIOUS
<1> USE DEF TypeOK
<1>1. CASE Start
  BY <1>1 DEF Start, callVars, checkVars, runVars, Enabled
<1>2. ASSUME NEW from, NEW to \in {"payload", "limiter", "validate", "lookup", "build", "export"},
             Proceed(from, to)
      PROVE  TypeOK'
  BY <1>2 DEF Proceed, callVars, checkVars, runVars, worldVars
<1>3. CASE Refuse
  BY <1>3 DEF Refuse, callVars, checkVars, runVars, worldVars
<1>4. CASE Escape
  BY <1>4 DEF Escape, callVars, checkVars, runVars, worldVars
<1>5. CASE LookupFound
  BY <1>5 DEF LookupFound, checkVars, runVars, worldVars, Enabled
<1>6. CASE Build
  <2>1. limit' \in Int
    BY <1>6, ArgsType, LimitType DEF Build, RowLimiter
  <2>2. window' \in BOOLEAN
    BY <1>6 DEF Build
  <2>3. /\ pc' \in {"safety", "export"}
        /\ text' \in Texts \cup {None} /\ parsed' \subseteq Texts
        /\ agenda' \in Seq(Texts \cup Commands)
    <3>1. Submit
      BY <1>6 DEF Build
    <3>2. CASE SkipsSafety(args.kind)
      BY <3>1, <3>2 DEF Submit, checkVars
    <3>3. CASE ~SkipsSafety(args.kind)
      <4>1. PICK t \in Texts : text' = t /\ agenda' = <<t>>
        BY <3>1, <3>3 DEF Submit
      <4>2. <<t>> \in Seq(Texts \cup Commands)
        OBVIOUS
      <4> QED
        BY <3>1, <3>3, <4>1, <4>2 DEF Submit
    <3> QED
      BY <3>2, <3>3
  <2>4. UNCHANGED <<args, app, runVars, outcome, worldVars>>
    BY <1>6 DEF Build
  <2> QED
    BY <2>1, <2>2, <2>3, <2>4 DEF runVars, worldVars
<1>7. CASE ExportAnswers
  <2>0. PICK n \in RowCounts :
          \E k \in Parsed(n), warned \in BOOLEAN :
            /\ Dispatch(n)
            /\ answer' = Report(k, limit, warned)
            /\ lost' = (k < Streamed(n) /\ ~warned)
    BY <1>7 DEF ExportAnswers
  <2>1. PICK k \in Parsed(n), warned \in BOOLEAN :
          /\ Dispatch(n)
          /\ answer' = Report(k, limit, warned)
          /\ lost' = (k < Streamed(n) /\ ~warned)
    BY <2>0
  <2>2. n \in Nat /\ k \in Nat
    BY CallAssumption, StreamedType DEF Parsed
  <2>3. answer' \in [rows : Nat, truncated : BOOLEAN, total : Nat,
                     approx : BOOLEAN, warned : BOOLEAN]
    BY <2>1, <2>2, ReportType
  <2>4. lost' \in BOOLEAN
    BY <2>1
  <2> QED
    BY <1>7, <2>1, <2>2, <2>3, <2>4 DEF ExportAnswers, Dispatch, checkVars, worldVars
<1>8. CASE ExportFails
  BY <1>8, CallAssumption DEF ExportFails, Dispatch, checkVars, worldVars
<1>9. CASE Administer
  BY <1>9 DEF Administer, callVars, checkVars, runVars, Enabled
<1>10. CASE UNCHANGED vars
  BY <1>10 DEF vars, callVars, checkVars, runVars, worldVars
<1>11. CASE Validate
  BY <1>2, <1>3, <1>11 DEF Validate
<1>12. CASE Gate
  BY <1>2, <1>3, <1>4, <1>12 DEF Gate
<1>13. CASE ParseText
  <2>1. Parse[Head(agenda)] \in Seq(Texts \cup Commands)
    BY <1>13, SafetyAssumption, Widen DEF ParseText
  <2>2. agenda' \in Seq(Texts \cup Commands)
    BY <1>13, <2>1, Push DEF ParseText
  <2>3. parsed' \subseteq Texts
    BY <1>13 DEF ParseText
  <2> QED
    BY <1>13, <2>2, <2>3 DEF ParseText, runVars, worldVars
<1>14. CASE PassCommand
  <2>1. Subsearches(Head(agenda)) \in Seq(Texts \cup Commands)
    BY <1>14, SubsearchType, Widen DEF PassCommand
  <2>2. agenda' \in Seq(Texts \cup Commands)
    BY <1>14, <2>1, Push DEF PassCommand
  <2> QED
    BY <1>14, <2>2 DEF PassCommand, runVars, worldVars
<1> QED
  BY <1>1, <1>2, <1>3, <1>5, <1>6, <1>7, <1>8, <1>9, <1>10, <1>11, <1>12, <1>13, <1>14
     DEF Next, CheckPayload, CheckRate, LookupFails, BuildFails, ParseFails, BlockCommand,
         FoundSafe, Quiet

(* Type correctness of the tool call (the variables of _execute_tool_inner *)
(* and the result dictionary).                                             *)
THEOREM TypeCorrect == Spec => []TypeOK
BY TypeInitial, TypeStep, PTL DEF Spec
-----------------------------------------------------------------------------
(* The limit once it is computed.                                          *)
LimitInv == pc \in {"safety", "export"} => Capped(limit, args.limit)

(* A result reports on the rows the search streamed, unless some were lost *)
(* or an error came along with them.                                       *)
AnswerInv ==
  /\ outcome = "answered" => pc = "done"
  /\ Complete => answer = Report(Streamed(available), limit, FALSE)

CappedInv == (pc = "done" /\ outcome = "answered") => Capped(limit, args.limit)

(* After the check, the app in the arguments is one the search was enabled *)
(* in, and the one asked for.                                              *)
VettedInv ==
  /\ args.kind = "saved" /\ pc \in {"build", "safety", "export"} =>
       app \in seen /\ args.app \in {None, app}
  /\ pc # "new" => Enabled(catalogue) \subseteq seen
  /\ SavedSearchVetted
  /\ dispatched.sent => pc = "done"

(* The flag that discloses the default window is decided before the search *)
(* is sent, and goes with it.                                              *)
WindowInv ==
  /\ window => args.kind = "query" /\ ~args.bounded
  /\ dispatched.window => window
  /\ pc # "done" => ~dispatched.window /\ outcome # "answered"
  /\ outcome = "answered" => disclosed = window /\ dispatched.window = window

(* What the check has parsed has been seen or is due, with what it nests;  *)
(* when a query is sent, nothing is due.                                   *)
Early == {"new", "gate", "payload", "limiter", "validate", "lookup", "build"}
Due(x) == x \in Range(agenda)
Passed(c) == ~Forbidden(c) /\ \A u \in Range(Subsearches(c)) : u \in parsed \/ Due(u)

CheckInv ==
  /\ pc \in Early => parsed = {}
  /\ (pc \in {"safety", "export"} \/ dispatched.sent) /\ ~SkipsSafety(args.kind) =>
       text \in Texts /\ (text \in parsed \/ Due(text))
  /\ \A t \in parsed : \A i \in DOMAIN Parse[t] : Due(Parse[t][i]) \/ Passed(Parse[t][i])
  /\ (pc = "export" \/ dispatched.sent) /\ ~SkipsSafety(args.kind) => agenda = <<>>
  /\ dispatched.sent => pc = "done"

LEMMA AnswerStep == TypeOK /\ AnswerInv /\ [Next]_vars => AnswerInv'
<1> SUFFICES ASSUME TypeOK, AnswerInv, [Next]_vars PROVE AnswerInv'
  OBVIOUS
<1> USE DEF AnswerInv, Complete
<1>1. ASSUME pc # "done", UNCHANGED <<callVars, outcome>> PROVE AnswerInv'
  BY <1>1 DEF callVars, runVars
<1>2. ASSUME pc # "done", UNCHANGED <<runVars, outcome>> PROVE AnswerInv'
  BY <1>2 DEF runVars
<1>3. CASE ExportAnswers
  <2>0. PICK n \in RowCounts :
          \E k \in Parsed(n), warned \in BOOLEAN :
            /\ Dispatch(n)
            /\ answer' = Report(k, limit, warned)
            /\ lost' = (k < Streamed(n) /\ ~warned)
    BY <1>3 DEF ExportAnswers
  <2>1. PICK k \in Parsed(n), warned \in BOOLEAN :
          /\ Dispatch(n)
          /\ answer' = Report(k, limit, warned)
          /\ lost' = (k < Streamed(n) /\ ~warned)
    BY <2>0
  <2>2. n \in Nat /\ k \in Nat /\ Streamed(n) \in Nat
    BY CallAssumption, StreamedType DEF Parsed
  <2>3. answer'.warned = warned
    BY <2>1 DEF Report
  <2>10. ~warned /\ ~lost' => ~(k < Streamed(n))
    BY <2>1
  <2>4. ~warned /\ ~lost' => k = Streamed(n)
    BY <2>2, <2>10 DEF Parsed
  <2>5. Complete' => answer' = Report(Streamed(n), limit, FALSE)
    BY <2>1, <2>3, <2>4
  <2>6. available' = n /\ limit' = limit /\ pc' = "done"
    BY <1>3, <2>1 DEF ExportAnswers, Dispatch
  <2> QED
    BY <2>5, <2>6
<1>4. CASE ExportFails
  BY <1>4 DEF ExportFails
<1>5. CASE pc # "done" /\ Refuse
  BY <1>5 DEF Refuse
<1>6. CASE pc # "done" /\ Escape
  BY <1>6 DEF Escape
<1>7. CASE UNCHANGED vars
  BY <1>7 DEF vars, callVars, runVars
<1> QED
  BY <1>1, <1>2, <1>3, <1>4, <1>5, <1>6, <1>7
     DEF Next, Start, Gate, CheckPayload, CheckRate, Validate, Proceed, LookupFound,
         LookupFails, Build, BuildFails, ParseText, ParseFails, PassCommand, BlockCommand,
         FoundSafe, Administer, Quiet

LEMMA CappedStep == TypeOK /\ LimitInv /\ CappedInv /\ [Next]_vars => (LimitInv /\ CappedInv)'
<1> SUFFICES ASSUME TypeOK, LimitInv, CappedInv, [Next]_vars PROVE (LimitInv /\ CappedInv)'
  OBVIOUS
<1> USE DEF LimitInv, CappedInv
<1>1. CASE Build
  <2>1. /\ args' = args /\ limit' = EffectiveLimit(BuildLimit(RowLimiter(args.kind), args.limit))
        /\ pc' # "done"
    BY <1>1 DEF Build, Submit
  <2>2. args.limit \in Int \cup {None} /\ (args.limit = None \/ RowLimiter(args.kind))
    BY ArgsType DEF TypeOK, CallArgs, TakesLimit, RowLimiter
  <2> QED BY <2>1, <2>2, LimitCapped DEF RowLimiter
<1>2. CASE ExportAnswers
  BY <1>2 DEF ExportAnswers
<1>3. CASE ExportFails
  BY <1>3 DEF ExportFails
<1>4. CASE UNCHANGED vars
  BY <1>4 DEF vars, callVars
<1>5. CASE ParseText \/ ParseFails \/ PassCommand \/ BlockCommand \/ FoundSafe
  BY <1>5 DEF ParseText, ParseFails, PassCommand, BlockCommand, FoundSafe, Proceed, Refuse,
              callVars
<1>6. CASE Administer
  BY <1>6 DEF Administer, callVars
<1> QED
  BY <1>1, <1>2, <1>3, <1>4, <1>5, <1>6
     DEF Next, Start, Gate, CheckPayload, CheckRate, Validate, Proceed, Refuse, Escape,
         LookupFound, LookupFails, BuildFails, Quiet

LEMMA VettedStep == TypeOK /\ VettedInv /\ [Next]_vars => VettedInv'
<1> SUFFICES ASSUME TypeOK, VettedInv, [Next]_vars PROVE VettedInv'
  OBVIOUS
<1> USE DEF VettedInv, SavedSearchVetted
<1>1. CASE UNCHANGED vars
  BY <1>1 DEF vars, callVars, checkVars, runVars, worldVars
<1>2. CASE Start
  BY <1>2 DEF Start, callVars, runVars
<1>3. ASSUME pc \notin {"new", "build", "safety", "export", "done"}, Refuse \/ Escape
      PROVE  VettedInv'
  BY <1>3 DEF Refuse, Escape, callVars, runVars, worldVars
<1>4. CASE Gate
  BY <1>3, <1>4 DEF Gate, Proceed, callVars, runVars, worldVars
<1>5. CASE CheckPayload \/ CheckRate
  BY <1>3, <1>5 DEF CheckPayload, CheckRate, Proceed, callVars, runVars, worldVars
<1>6. CASE Validate
  <2>1. CASE Proceed("validate", IF args.kind = "saved" THEN "lookup" ELSE "build")
    <3>1. pc' = "build" => args.kind # "saved"
      BY <2>1 DEF Proceed
    <3>2. pc = "validate" /\ pc' \in {"lookup", "build"} /\ UNCHANGED <<callVars, worldVars>>
      BY <2>1 DEF Proceed
    <3> QED
      BY <3>1, <3>2 DEF callVars, runVars, worldVars
  <2>2. CASE pc = "validate" /\ Refuse
    BY <1>3, <2>2
  <2> QED
    BY <1>6, <2>1, <2>2 DEF Validate
<1>7. CASE LookupFound
  BY <1>7 DEF LookupFound, runVars, worldVars
<1>8. CASE LookupFails
  BY <1>3, <1>8 DEF LookupFails
<1>9. CASE Build
  BY <1>9 DEF Build, Submit, runVars, worldVars
<1>10. CASE BuildFails
  BY <1>10 DEF BuildFails, Refuse, callVars, runVars, worldVars
<1>11. CASE ParseText \/ ParseFails \/ PassCommand \/ BlockCommand \/ FoundSafe
  BY <1>11 DEF ParseText, ParseFails, PassCommand, BlockCommand, FoundSafe, Proceed, Refuse,
               callVars, runVars, worldVars
<1>12. ASSUME pc = "export", dispatched'.app = app, pc' = "done",
              UNCHANGED <<args, app, worldVars>>
       PROVE  VettedInv'
  BY <1>12 DEF worldVars
<1>13. CASE ExportAnswers
  BY <1>12, <1>13 DEF ExportAnswers, Dispatch, worldVars
<1>14. CASE ExportFails
  BY <1>12, <1>14 DEF ExportFails, Dispatch, worldVars
<1>15. CASE Administer
  BY <1>15 DEF Administer, callVars, runVars
<1> QED
  BY <1>1, <1>2, <1>4, <1>5, <1>6, <1>7, <1>8, <1>9, <1>10, <1>11, <1>13, <1>14, <1>15
     DEF Next, Quiet

LEMMA WindowStep == TypeOK /\ WindowInv /\ [Next]_vars => WindowInv'
<1> SUFFICES ASSUME TypeOK, WindowInv, [Next]_vars PROVE WindowInv'
  OBVIOUS
<1> USE DEF WindowInv
<1>1. ASSUME UNCHANGED <<args, window, runVars, outcome>>, pc = "done" => pc' = "done"
      PROVE  WindowInv'
  BY <1>1 DEF runVars
<1>2. CASE Build
  <2>1. /\ pc = "build" /\ pc' # "done"
        /\ window' = (args.kind = "query" /\ ~args.bounded /\ DefaultWindow)
        /\ UNCHANGED <<args, runVars, outcome>>
    BY <1>2 DEF Build, Submit
  <2> QED BY <2>1 DEF runVars
<1>3. CASE ExportAnswers
  <2>1. /\ dispatched'.window = window /\ disclosed' = window /\ pc' = "done"
        /\ UNCHANGED <<args, window>>
    BY <1>3 DEF ExportAnswers, Dispatch
  <2> QED BY <2>1
<1>4. CASE ExportFails
  <2>1. /\ dispatched'.window = window /\ pc' = "done" /\ outcome' = "refused"
        /\ UNCHANGED <<args, window>>
    BY <1>4 DEF ExportFails, Dispatch
  <2> QED BY <2>1
<1>5. ASSUME pc # "done", Refuse \/ Escape PROVE WindowInv'
  BY <1>5 DEF Refuse, Escape, callVars, runVars
<1>6. CASE UNCHANGED vars
  BY <1>6 DEF vars, callVars, runVars
<1> QED
  BY <1>1, <1>2, <1>3, <1>4, <1>5, <1>6
     DEF Next, Start, Gate, CheckPayload, CheckRate, Validate, Proceed, LookupFound,
         LookupFails, BuildFails, ParseText, ParseFails, PassCommand, BlockCommand,
         FoundSafe, Administer, Quiet, callVars

LEMMA CheckStep == TypeOK /\ CheckInv /\ [Next]_vars => CheckInv'
<1> SUFFICES ASSUME TypeOK, CheckInv, [Next]_vars PROVE CheckInv'
  OBVIOUS
<1> USE DEF CheckInv, Early, Due, Passed
<1>1. ASSUME UNCHANGED <<args, checkVars>>,
             pc \in Early \/ pc' \notin Early,
             pc' \in {"safety", "export"} => pc' = pc \/ (pc = "safety" /\ agenda = <<>>),
             dispatched'.sent => pc' = "done" /\ (dispatched.sent \/ pc = "export")
      PROVE  CheckInv'
  BY <1>1 DEF checkVars
<1>2. CASE Build
  <2>1. pc = "build" /\ parsed = {} /\ UNCHANGED <<args, parsed, dispatched>>
    BY <1>2 DEF Build, Submit, checkVars, runVars
  <2>2. CASE SkipsSafety(args.kind)
    BY <1>2, <2>1, <2>2 DEF Build, Submit, checkVars
  <2>3. CASE ~SkipsSafety(args.kind)
    <3>1. PICK t \in Texts : text' = t /\ agenda' = <<t>> /\ pc' = "safety"
      BY <1>2, <2>3 DEF Build, Submit
    <3>2. Due(text)'
      BY <3>1 DEF Range
    <3> QED
      BY <2>1, <3>1, <3>2
  <2> QED
    BY <2>2, <2>3
<1>3. CASE ParseText
  <2> DEFINE h == Head(agenda)
  <2>1. /\ pc = "safety" /\ pc' = pc /\ h \in Texts
        /\ agenda' = Parse[h] \o Tail(agenda) /\ parsed' = parsed \cup {h}
        /\ UNCHANGED <<args, text, dispatched>>
    BY <1>3 DEF ParseText, runVars
  <2>2. Parse[h] \in Seq(Texts \cup Commands)
    BY <2>1, SafetyAssumption, Widen
  <2>3. /\ Range(Parse[h]) \subseteq Range(agenda')
        /\ \A x \in Range(agenda) : x = h \/ x \in Range(agenda')
    BY <1>3, <2>1, <2>2, Push DEF ParseText, TypeOK
  <2>4. ASSUME NEW t \in parsed', NEW i \in DOMAIN Parse[t]
        PROVE  (Due(Parse[t][i]) \/ Passed(Parse[t][i]))'
    <3>1. CASE t = h
      BY <2>3, <3>1 DEF Range
    <3>2. CASE t \in parsed
      <4>1. Parse[t][i] \in Commands
        BY <3>2, SafetyAssumption DEF TypeOK
      <4>2. Parse[t][i] # h
        BY <2>1, <4>1, SafetyAssumption
      <4>3. CASE Due(Parse[t][i])
        BY <2>3, <4>2, <4>3
      <4>4. CASE Passed(Parse[t][i])
        BY <2>1, <2>3, <4>4
      <4> QED
        BY <3>2, <4>3, <4>4
    <3> QED
      BY <2>1, <3>1, <3>2
  <2>5. (text \in parsed \/ Due(text)) => (text \in parsed \/ Due(text))'
    BY <2>1, <2>3
  <2> QED
    BY <2>1, <2>4, <2>5
<1>4. CASE PassCommand
  <2> DEFINE h == Head(agenda)
  <2>1. /\ pc = "safety" /\ pc' = pc /\ h \in Commands /\ ~Forbidden(h)
        /\ agenda' = Subsearches(h) \o Tail(agenda)
        /\ UNCHANGED <<args, text, parsed, dispatched>>
    BY <1>4 DEF PassCommand, runVars
  <2>2. Subsearches(h) \in Seq(Texts \cup Commands)
    BY <2>1, SubsearchType, Widen
  <2>3. /\ Range(Subsearches(h)) \subseteq Range(agenda')
        /\ \A x \in Range(agenda) : x = h \/ x \in Range(agenda')
    BY <1>4, <2>1, <2>2, Push DEF PassCommand, TypeOK
  <2>4. \A u \in Texts : (u \in parsed \/ Due(u)) => (u \in parsed \/ Due(u))'
    BY <2>1, <2>3, SafetyAssumption
  <2>5. ASSUME NEW t \in parsed', NEW i \in DOMAIN Parse[t]
        PROVE  (Due(Parse[t][i]) \/ Passed(Parse[t][i]))'
    <3>1. Parse[t][i] \in Commands
      BY <2>1, SafetyAssumption DEF TypeOK
    <3>2. CASE Parse[t][i] = h
      BY <2>1, <2>3, <3>2
    <3>3. CASE Due(Parse[t][i]) /\ Parse[t][i] # h
      BY <2>3, <3>3
    <3>4. CASE Passed(Parse[t][i])
      BY <2>4, <3>1, <3>4, SubsearchType
    <3> QED
      BY <2>1, <3>2, <3>3, <3>4
  <2> QED
    BY <2>1, <2>4, <2>5
<1>5. CASE FoundSafe
  BY <1>1, <1>5 DEF FoundSafe, Proceed, callVars, runVars
<1>6. ASSUME Refuse \/ Escape PROVE CheckInv'
  BY <1>1, <1>6 DEF Refuse, Escape, callVars, runVars
<1>7. CASE ExportAnswers \/ ExportFails
  <2>1. pc = "export" /\ pc' = "done" /\ UNCHANGED <<args, checkVars>>
    BY <1>7 DEF ExportAnswers, ExportFails
  <2> QED
    BY <1>1, <2>1
<1>8. CASE UNCHANGED vars
  BY <1>8 DEF vars, callVars, checkVars, runVars
<1>9. ASSUME NEW from \in Early, NEW to \in Early \ {"safety", "export"}, Proceed(from, to)
      PROVE  CheckInv'
  BY <1>1, <1>9 DEF Proceed, callVars, runVars
<1>10. CASE Start \/ LookupFound
  BY <1>1, <1>10 DEF Start, LookupFound, callVars, runVars
<1>11. CASE Administer
  BY <1>11 DEF Administer, callVars, checkVars, runVars
<1> QED
  BY <1>2, <1>3, <1>4, <1>5, <1>6, <1>7, <1>8, <1>9, <1>10, <1>11
     DEF Next, Gate, CheckPayload, CheckRate, Validate, LookupFails, BuildFails,
         ParseFails, BlockCommand, Quiet
-----------------------------------------------------------------------------
(* The totals a tool reports are right, for every configuration of the two *)
(* row limits (export_search's total_rows and approx_total).               *)
THEOREM HonestTotalsCorrect == Spec => []HonestTotals
<1>1. Init => AnswerInv
  BY DEF Init, AnswerInv, Complete
<1>2. TypeOK /\ AnswerInv => HonestTotals
  <2> SUFFICES ASSUME TypeOK, AnswerInv, Complete
               PROVE  IF answer.approx THEN available > MaxRows ELSE answer.total = available
    BY DEF HonestTotals
  <2>1. available \in Nat /\ limit \in Int
    BY DEF TypeOK
  <2>2. answer = Report(Streamed(available), limit, FALSE)
    BY DEF AnswerInv
  <2> QED
    BY <2>1, <2>2, Totals
<1> QED
  BY <1>1, <1>2, TypeCorrect, AnswerStep, PTL DEF Spec

(* No result is cut short without "truncated", for every configuration of  *)
(* the two row limits, save where a default limit above the maximum, which *)
(* from_env lets pass, is in force and the total is marked approximate.    *)
THEOREM NoSilentTruncationCorrect == Spec => []NoSilentTruncation
<1>1. Init => AnswerInv /\ LimitInv /\ CappedInv
  BY DEF Init, AnswerInv, Complete, LimitInv, CappedInv
<1>2. TypeOK /\ AnswerInv /\ CappedInv => NoSilentTruncation
  <2> SUFFICES ASSUME TypeOK, AnswerInv, CappedInv, Complete, ~answer.truncated
               PROVE  \/ answer.rows = available
                      \/ limit = DefaultRows /\ DefaultRows > MaxRows /\ answer.approx
    BY DEF NoSilentTruncation
  <2>1. available \in Nat /\ limit \in Int /\ Capped(limit, args.limit)
    BY DEF TypeOK, AnswerInv, CappedInv, Complete
  <2>2. answer = Report(Streamed(available), limit, FALSE)
    BY DEF AnswerInv
  <2>3. answer.rows = available \/ Over(answer, limit)
    BY <2>1, <2>2, WholeList
  <2> QED
    BY <2>1, <2>3, RowAssumption DEF Over, Capped
<1>3. TypeOK /\ LimitInv /\ CappedInv /\ [Next]_vars => (LimitInv /\ CappedInv)'
  BY CappedStep
<1> QED
  BY <1>1, <1>2, <1>3, TypeCorrect, AnswerStep, PTL DEF Spec

(* A saved search runs in the app the check resolved, and was enabled      *)
(* there during the call, however the administrator's edits interleave.    *)
THEOREM SavedSearchVettedCorrect == Spec => []SavedSearchVetted
<1>1. Init => VettedInv
  BY DEF Init, VettedInv, SavedSearchVetted, NoSearch
<1>2. VettedInv => SavedSearchVetted
  BY DEF VettedInv
<1> QED
  BY <1>1, <1>2, TypeCorrect, VettedStep, PTL DEF Spec

(* Once nothing is due, the texts the check has parsed leave out no        *)
(* subsearch of theirs, so all the query reaches has passed.               *)
LEMMA CheckedSafe ==
  ASSUME TypeOK, CheckInv, agenda = <<>>, text \in Texts, text \in parsed \/ Due(text)
  PROVE  text \in SafeTexts
<1>1. \A x : ~Due(x)
  BY DEF Due, Range
<1>2. \A u \in parsed : \A j \in DOMAIN Parse[u] :
        ~Forbidden(Parse[u][j]) /\ Range(Subsearches(Parse[u][j])) \subseteq parsed
  BY <1>1 DEF CheckInv, Passed
<1>3. Closed(parsed)
  BY <1>2 DEF Closed, Subsearches
<1>4. Reachable(text) \subseteq parsed
  BY <1>1, <1>3 DEF Reachable, TypeOK
<1> QED
  BY <1>2, <1>4 DEF SafeTexts

(* A query is sent only when every command it runs, at any depth of        *)
(* subsearches, is on the allowlist: for every parser, allowlist and table *)
(* of the commands that nest searches.                                     *)
THEOREM OnlySafeCommandsCorrect == Spec => []OnlySafeCommands
<1>1. Init => CheckInv
  BY DEF Init, CheckInv, Early, NoSearch
<1>2. TypeOK /\ CheckInv => OnlySafeCommands
  <2> SUFFICES ASSUME TypeOK, CheckInv, dispatched.sent, ~SkipsSafety(args.kind)
               PROVE  text \in SafeTexts
    BY DEF OnlySafeCommands, SafeTexts
  <2> QED
    BY CheckedSafe DEF CheckInv
<1> QED
  BY <1>1, <1>2, TypeCorrect, CheckStep, PTL DEF Spec
-----------------------------------------------------------------------------
(* A query is reachable from itself, and so are the subsearches of what is. *)
LEMMA ReachSelf == ASSUME NEW t \in Texts PROVE t \in Reachable(t)
BY DEF Reachable

LEMMA ReachNested ==
  ASSUME NEW t, NEW u \in Reachable(t), NEW i \in DOMAIN Parse[u]
  PROVE  Range(Subsearches(Parse[u][i])) \subseteq Reachable(t)
<1> SUFFICES ASSUME NEW v \in Range(Subsearches(Parse[u][i])) PROVE v \in Reachable(t)
  OBVIOUS
<1>1. u \in Texts /\ Parse[u][i] \in Commands
  BY SafetyAssumption DEF Reachable
<1>2. v \in Texts
  BY <1>1, SubsearchType
<1>3. ASSUME NEW S \in SUBSET Texts, t \in S, Closed(S) PROVE v \in S
  <2>1. u \in S
    BY <1>3 DEF Reachable
  <2>2. Parse[u][i].name \in Nesting /\ v \in Range(Parse[u][i].cuts)
    BY DEF Subsearches, Range
  <2> QED
    BY <1>3, <2>1, <2>2 DEF Closed
<1> QED
  BY <1>2, <1>3 DEF Reachable

(* Putting s in front of the rest of an agenda makes nothing else due.     *)
LEMMA PushOnly ==
  ASSUME NEW S, NEW s \in Seq(S), NEW a \in Seq(S), a # <<>>
  PROVE  Head(a) \in Range(a) /\ Range(s \o Tail(a)) \subseteq Range(s) \cup Range(a)
<1>1. Tail(a) \in Seq(S)
  BY HeadTailProperties
<1>2. Range(s \o Tail(a)) = Range(s) \cup Range(Tail(a))
  BY <1>1, RangeConcatenation
<1>3. Head(a) \in Range(a)
  <2>1. 1 \in DOMAIN a /\ Head(a) = a[1]
    OBVIOUS
  <2> QED
    BY <2>1 DEF Range
<1>4. ASSUME NEW x \in Range(Tail(a)) PROVE x \in Range(a)
  <2>1. PICK i \in DOMAIN Tail(a) : x = Tail(a)[i]
    BY DEF Range
  <2>2. i \in 1..Len(Tail(a)) /\ i + 1 \in DOMAIN a /\ Tail(a)[i] = a[i + 1]
    BY <1>1, <2>1
  <2> QED
    BY <2>1, <2>2 DEF Range
<1> QED
  BY <1>2, <1>3, <1>4

(* What is due runs in the query or is a subsearch of it, and a call is    *)
(* refused with a command due only by BlockCommand.                        *)
Source(x) ==
  \/ x \in Reachable(text)
  \/ \E t \in Reachable(text) : x \in Range(Parse[t])

BlameInv ==
  /\ pc \in Early \cup {"export"} => agenda = <<>>
  /\ pc # "done" => outcome = "none"
  /\ \A x \in Range(agenda) : Source(x)
  /\ outcome = "refused" /\ agenda # <<>> /\ Head(agenda) \in Commands => Forbidden(Head(agenda))

LEMMA BlameStep == TypeOK /\ BlameInv /\ [Next]_vars => BlameInv'
<1> SUFFICES ASSUME TypeOK, BlameInv, [Next]_vars PROVE BlameInv'
  OBVIOUS
<1> USE DEF BlameInv, Early, Source
<1>1. ASSUME UNCHANGED <<checkVars, outcome>>, pc # "done",
             pc' \in Early \cup {"export"} => agenda = <<>>
      PROVE  BlameInv'
  BY <1>1 DEF checkVars
<1>2. CASE Build
  <2>1. outcome' = outcome /\ pc = "build"
    BY <1>2 DEF Build
  <2>2. CASE SkipsSafety(args.kind)
    BY <1>1, <1>2, <2>1, <2>2 DEF Build, Submit
  <2>3. CASE ~SkipsSafety(args.kind)
    <3>1. PICK t \in Texts : text' = t /\ agenda' = <<t>> /\ pc' = "safety"
      BY <1>2, <2>3 DEF Build, Submit
    <3>2. \A x \in Range(agenda') : x = t
      BY <3>1 DEF Range
    <3>3. t \in Reachable(t)
      BY ReachSelf
    <3> QED
      BY <2>1, <3>1, <3>2, <3>3
  <2> QED
    BY <2>2, <2>3
<1>3. CASE ParseText
  <2> DEFINE h == Head(agenda)
  <2>1. /\ pc = "safety" /\ pc' = pc /\ h \in Texts /\ agenda # <<>>
        /\ agenda' = Parse[h] \o Tail(agenda)
        /\ UNCHANGED <<text, outcome>>
    BY <1>3 DEF ParseText
  <2>2. Parse[h] \in Seq(Texts \cup Commands)
    BY <2>1, SafetyAssumption, Widen
  <2>3. h \in Range(agenda) /\ Range(agenda') \subseteq Range(Parse[h]) \cup Range(agenda)
    BY <2>1, <2>2, PushOnly DEF TypeOK
  <2>4. h \in Reachable(text)
    <3> SUFFICES ASSUME NEW t \in Reachable(text), h \in Range(Parse[t]) PROVE FALSE
      BY <2>3
    <3>1. h \in Commands
      BY SafetyAssumption DEF Reachable, Range
    <3> QED
      BY <2>1, <3>1, SafetyAssumption
  <2> QED
    BY <2>1, <2>3, <2>4
<1>4. CASE PassCommand
  <2> DEFINE h == Head(agenda)
  <2>1. /\ pc = "safety" /\ pc' = pc /\ h \in Commands /\ agenda # <<>>
        /\ agenda' = Subsearches(h) \o Tail(agenda)
        /\ UNCHANGED <<text, outcome>>
    BY <1>4 DEF PassCommand
  <2>2. Subsearches(h) \in Seq(Texts \cup Commands)
    BY <2>1, SubsearchType, Widen
  <2>3. /\ h \in Range(agenda)
        /\ Range(agenda') \subseteq Range(Subsearches(h)) \cup Range(agenda)
    BY <2>1, <2>2, PushOnly DEF TypeOK
  <2>4. PICK t \in Reachable(text) : h \in Range(Parse[t])
    BY <2>1, <2>3, SafetyAssumption DEF Reachable
  <2>5. PICK i \in DOMAIN Parse[t] : h = Parse[t][i]
    BY <2>4 DEF Range
  <2>6. Range(Subsearches(h)) \subseteq Reachable(text)
    BY <2>5, ReachNested
  <2> QED
    BY <2>1, <2>3, <2>6
<1>5. CASE BlockCommand
  <2>1. /\ pc = "safety" /\ pc' = "done" /\ UNCHANGED <<text, agenda>> /\ Forbidden(Head(agenda))
    BY <1>5 DEF BlockCommand, Refuse, callVars, checkVars
  <2> QED
    BY <2>1
<1>6. CASE ParseFails
  <2>1. /\ pc = "safety" /\ pc' = "done" /\ UNCHANGED <<text, agenda>> /\ Head(agenda) \in Texts
    BY <1>6 DEF ParseFails, Refuse, callVars, checkVars
  <2>2. Head(agenda) \notin Commands
    BY <2>1, SafetyAssumption
  <2> QED
    BY <2>1, <2>2
<1>7. ASSUME Refuse \/ Escape, pc \in Early PROVE BlameInv'
  <2>1. pc' = "done" /\ UNCHANGED <<text, agenda>>
    BY <1>7 DEF Refuse, Escape, callVars, checkVars
  <2> QED
    BY <1>7, <2>1
<1>8. CASE ExportAnswers \/ ExportFails
  <2>1. pc = "export" /\ pc' = "done" /\ UNCHANGED <<text, agenda>>
    BY <1>8 DEF ExportAnswers, ExportFails, checkVars
  <2> QED
    BY <2>1
<1>9. CASE UNCHANGED vars
  BY <1>9 DEF vars, callVars, checkVars
<1>10. ASSUME NEW from \in Early, NEW to \in Early \ {"safety", "export"}, Proceed(from, to)
       PROVE  BlameInv'
  BY <1>1, <1>10 DEF Proceed, callVars
<1>11. CASE FoundSafe
  BY <1>1, <1>11 DEF FoundSafe, Proceed, callVars
<1>12. CASE Start \/ LookupFound
  BY <1>1, <1>12 DEF Start, LookupFound, callVars
<1>13. CASE Administer
  BY <1>1, <1>13 DEF Administer, callVars
<1> QED
  BY <1>2, <1>3, <1>4, <1>5, <1>6, <1>7, <1>8, <1>9, <1>10, <1>11, <1>12, <1>13
     DEF Next, Gate, CheckPayload, CheckRate, Validate, LookupFails, BuildFails, Quiet

(* A query refused for a command really runs it, at some depth, for every  *)
(* parser, allowlist and table of nesting commands: brackets the code does *)
(* not take for a subsearch refuse nothing.                                *)
THEOREM BlockJustifiedCorrect == Spec => []BlockJustified
<1>1. Init => BlameInv
  BY DEF Init, BlameInv, Early, Range
<1>2. TypeOK /\ BlameInv => BlockJustified
  <2> SUFFICES ASSUME TypeOK, BlameInv, outcome = "refused", agenda # <<>>,
                      Head(agenda) \in Commands
               PROVE  /\ Forbidden(Head(agenda))
                      /\ \E t \in Reachable(text) : Head(agenda) \in Range(Parse[t])
    BY DEF BlockJustified
  <2>1. Head(agenda) \in Range(agenda)
    BY PushOnly DEF TypeOK
  <2>2. Source(Head(agenda)) /\ Head(agenda) \notin Reachable(text)
    BY <2>1, SafetyAssumption DEF BlameInv, Reachable
  <2> QED
    BY <2>2 DEF BlameInv, Source
<1> QED
  BY <1>1, <1>2, TypeCorrect, BlameStep, PTL DEF Spec
-----------------------------------------------------------------------------
(* The only exceptions a call leaves unclassified are those of the         *)
(* capability gate, which runs ahead of the try block of _execute_tool:    *)
(* without require_capabilities its docstring is right.                    *)
THEOREM FailuresClassifiedUngated ==
  ASSUME ~RequireCaps
  PROVE  Spec => []FailuresClassified
<1> DEFINE Ungated == pc # "gate" /\ outcome # "escaped"
<1>1. Init => Ungated
  BY DEF Init
<1>2. Ungated /\ [Next]_vars => Ungated'
  BY DEF Next, Start, Gate, CheckPayload, CheckRate, Validate, Proceed, LookupFound, LookupFails,
         Build, Submit, BuildFails, ParseText, ParseFails, PassCommand, BlockCommand, FoundSafe,
         Refuse, ExportAnswers, ExportFails, Administer, Quiet, vars
<1>3. Ungated => FailuresClassified
  BY DEF FailuresClassified
<1> QED
  BY <1>1, <1>2, <1>3, PTL DEF Spec
-----------------------------------------------------------------------------
(* What the refinement needs besides: a limit the caller gave is kept, and *)
(* nothing is sent before the call ends.  A maximum of 0 makes way for the *)
(* default limit, but lets one row through at most.                        *)
Kept(l, raw) == MaxRows = 0 \/ (l >= 0 /\ l <= raw)

AskedInv ==
  pc \in {"safety", "export"} /\ args.limit # None /\ args.limit > 0 => Kept(limit, args.limit)

QuietInv ==
  /\ pc # "done" => outcome = "none" /\ ~dispatched.sent
  /\ pc = "new" => seen = {}

LEMMA LimitAsked ==
  ASSUME NEW limiter \in BOOLEAN, NEW raw \in Int, raw > 0, limiter
  PROVE  Kept(EffectiveLimit(BuildLimit(limiter, raw)), raw)
BY RowAssumption DEF EffectiveLimit, BuildLimit, Kept

(* No list is cut to more rows than it has or than the limit, nor, unless  *)
(* the limit is above it, than the maximum, a negative limit included: it  *)
(* drops the row beyond.                                                   *)
LEMMA ReportBounds ==
  ASSUME NEW n \in Nat, NEW k \in 0..Streamed(n), NEW l \in Int, NEW warned \in BOOLEAN
  PROVE  /\ Report(k, l, warned).rows <= Report(k, l, warned).total
         /\ Report(k, l, warned).rows <= MaxRows \/ Over(Report(k, l, warned), l)
         /\ \A m \in Int : m > 0 /\ Kept(l, m) => Report(k, l, warned).rows <= m
<1> USE RowAssumption
<1>1. k \in Nat /\ k <= MaxRows + 1
  BY StreamedType DEF Streamed
<1>2. Sliced(k, l) \in Nat /\ Sliced(k, l) <= k
  BY <1>1 DEF Sliced
<1>a. Sliced(k, l) <= MaxRows \/ (l > MaxRows /\ k = MaxRows + 1 /\ Sliced(k, l) = k)
  BY <1>1 DEF Sliced
<1>3. ASSUME NEW m \in Int, m > 0, Kept(l, m) PROVE Sliced(k, l) <= m
  BY <1>1, <1>2, <1>3 DEF Sliced, Kept
<1> QED
  BY <1>2, <1>a, <1>3 DEF Report, Over

LEMMA AskedStep == TypeOK /\ AskedInv /\ [Next]_vars => AskedInv'
<1> SUFFICES ASSUME TypeOK, AskedInv, [Next]_vars PROVE AskedInv'
  OBVIOUS
<1> USE DEF AskedInv
<1>1. CASE Build
  <2>1. args' = args /\ limit' = EffectiveLimit(BuildLimit(RowLimiter(args.kind), args.limit))
    BY <1>1 DEF Build
  <2>2. args.limit # None => RowLimiter(args.kind) /\ args.limit \in Int
    BY ArgsType DEF TypeOK, CallArgs, TakesLimit, RowLimiter
  <2> QED BY <2>1, <2>2, LimitAsked DEF RowLimiter
<1>2. ASSUME UNCHANGED <<args, limit>>, pc' \in {"safety", "export"} => pc \in {"safety", "export"}
      PROVE  AskedInv'
  BY <1>2
<1>3. CASE UNCHANGED vars
  BY <1>2, <1>3 DEF vars, callVars
<1>4. CASE Administer
  BY <1>2, <1>4 DEF Administer, callVars
<1>5. CASE ParseText \/ ParseFails \/ PassCommand \/ BlockCommand \/ FoundSafe
  BY <1>2, <1>5 DEF ParseText, ParseFails, PassCommand, BlockCommand, FoundSafe, Proceed, Refuse,
                    callVars
<1>6. CASE ExportAnswers \/ ExportFails
  BY <1>6 DEF ExportAnswers, ExportFails
<1> QED
  BY <1>1, <1>3, <1>4, <1>5, <1>6
     DEF Next, Start, Gate, CheckPayload, CheckRate, Validate, Proceed, Refuse, Escape,
         LookupFound, LookupFails, BuildFails, Quiet

LEMMA QuietStep == QuietInv /\ [Next]_vars => QuietInv'
<1> SUFFICES ASSUME QuietInv, [Next]_vars PROVE QuietInv'
  OBVIOUS
<1> USE DEF QuietInv
<1>1. CASE UNCHANGED vars
  BY <1>1 DEF vars, callVars, runVars, worldVars
<1>2. CASE Administer
  BY <1>2 DEF Administer, callVars, runVars
<1>3. CASE Build \/ ParseText \/ PassCommand
  BY <1>3 DEF Build, Submit, ParseText, PassCommand, runVars, worldVars
<1>4. CASE LookupFound
  BY <1>4 DEF LookupFound, runVars, worldVars
<1>5. CASE Start
  BY <1>5 DEF Start, callVars, runVars
<1>6. ASSUME NEW from, NEW to, from \notin {"new", "done"}, to \notin {"new", "done"},
             Proceed(from, to)
      PROVE  QuietInv'
  BY <1>6 DEF Proceed, callVars, runVars, worldVars
<1>7. CASE Refuse \/ Escape \/ ExportAnswers \/ ExportFails
  BY <1>7 DEF Refuse, Escape, ExportAnswers, ExportFails
<1> QED
  BY <1>1, <1>2, <1>3, <1>4, <1>5, <1>6, <1>7
     DEF Next, Gate, CheckPayload, CheckRate, Validate, LookupFails, BuildFails, ParseFails,
         BlockCommand, FoundSafe, Quiet

CallInv ==
  /\ TypeOK /\ LimitInv /\ CappedInv /\ AskedInv
  /\ VettedInv /\ WindowInv /\ CheckInv /\ QuietInv

(* The search a call sends, and what it leaves behind.                     *)
Sent(n, whole) ==
  [app |-> app, narrowed |-> window, text |-> text, rows |-> n, whole |-> whole]

LEMMA SentPermitted ==
  ASSUME CallInv, pc = "export", NEW n, NEW whole
  PROVE  HC!Permitted(Sent(n, whole))
<1>1. args.kind = "saved" => app \in seen /\ args.app \in {None, app}
  BY DEF CallInv, VettedInv
<1>2. window => args.kind = "query" /\ ~args.bounded
  BY DEF CallInv, WindowInv
<1>3. args.kind = "query" => text \in SafeTexts
  BY CheckedSafe DEF CallInv, CheckInv, SkipsSafety
<1> QED
  BY <1>1, <1>2, <1>3 DEF HC!Permitted, Sent

LEMMA SentOnce ==
  ASSUME CallInv, pc = "export", NEW n, Dispatch(n), NEW whole \in BOOLEAN, lost' = ~whole,
         UNCHANGED <<args, app, window, text, seen>>
  PROVE  /\ HC!Run(Sent(n, whole))
         /\ Ran' = {Sent(n, whole)}
         /\ Given = {}
<1>1. outcome = "none" /\ ~dispatched.sent
  BY DEF CallInv, QuietInv
<1>2. Ran' = {Sent(n, whole)}
  BY DEF Dispatch, Ran, Sent
<1>3. Ran = {} /\ Given = {}
  BY <1>1 DEF Ran, Given
<1> QED
  BY <1>1, <1>2, <1>3, SentPermitted DEF HC!Run

LEMMA AnswerRefines ==
  ASSUME CallInv, ExportAnswers
  PROVE  \E s \in Ran' : \E a \in Given' : HC!Answer(s, a)
<1>1. PICK n \in RowCounts :
        \E k \in Parsed(n), warned \in BOOLEAN :
          /\ Dispatch(n)
          /\ answer' = Report(k, limit, warned)
          /\ lost' = (k < Streamed(n) /\ ~warned)
  BY DEF ExportAnswers
<1>2. PICK k \in Parsed(n), warned \in BOOLEAN :
        /\ Dispatch(n)
        /\ answer' = Report(k, limit, warned)
        /\ lost' = (k < Streamed(n) /\ ~warned)
  BY <1>1
<1> DEFINE whole == ~(k < Streamed(n) /\ ~warned)
           s == Sent(n, whole)
           r == Report(k, limit, warned)
           a == [rows |-> r.rows, truncated |-> r.truncated, total |-> r.total,
                 approx |-> r.approx, warned |-> r.warned, narrowed |-> window]
<1>3. /\ pc = "export" /\ outcome' = "answered" /\ disclosed' = window
      /\ UNCHANGED <<args, app, window, text, seen>>
  BY DEF ExportAnswers, checkVars, worldVars
<1>4. HC!Run(s) /\ Ran' = {s} /\ Given = {}
  BY <1>2, <1>3, SentOnce
<1>5. Given' = {a}
  BY <1>2, <1>3 DEF Given
<1>6. /\ n \in Nat /\ k \in 0..Streamed(n) /\ limit \in Int
      /\ Capped(limit, args.limit)
      /\ args.limit # None => args.limit \in Int
  BY <1>3, CallAssumption, ArgsType DEF Parsed, CallInv, TypeOK, LimitInv
<1>7. HC!Honest(a, s)
  <2>1. /\ a.narrowed = s.narrowed /\ a.rows = r.rows /\ a.total = r.total
        /\ a.truncated = r.truncated /\ a.approx = r.approx /\ a.warned = warned
        /\ s.rows = n /\ s.whole = whole
    BY DEF Sent, Report
  <2>a. Over(r, limit) => HC!Exceeds(a)
    BY <1>6, <2>1, RowAssumption DEF Over, Capped, HC!Exceeds
  <2>2. r.rows <= r.total /\ (r.rows <= MaxRows \/ Over(r, limit))
    BY <1>6, ReportBounds
  <2>3. args.limit # None /\ args.limit > 0 => r.rows <= args.limit
    BY <1>3, <1>6, ReportBounds DEF CallInv, AskedInv
  <2>4. ASSUME whole, ~warned
        PROVE  /\ ~r.truncated => r.rows = n \/ Over(r, limit)
               /\ IF r.approx THEN n > MaxRows ELSE r.total = n
    <3>1. k = Streamed(n)
      BY <1>6, <2>4, StreamedType
    <3> QED BY <1>6, <3>1, WholeList, Totals
  <2> HIDE DEF a, s, r, whole
  <2> QED BY <2>1, <2>a, <2>2, <2>3, <2>4 DEF HC!Honest
<1> HIDE DEF a, s
<1> QED
  BY <1>3, <1>4, <1>5, <1>7 DEF HC!Answer

LEMMA FailRefines ==
  ASSUME CallInv, ExportFails
  PROVE  \E s \in Ran' : HC!Fail(s)
<1>1. PICK n \in RowCounts : Dispatch(n)
  BY DEF ExportFails
<1>2. /\ pc = "export" /\ outcome' = "refused" /\ lost' = lost /\ lost \in BOOLEAN
      /\ UNCHANGED <<args, app, window, text, seen>>
  BY DEF ExportFails, checkVars, worldVars, CallInv, TypeOK
<1>3. HC!Run(Sent(n, ~lost)) /\ Ran' = {Sent(n, ~lost)} /\ Given = {}
  BY <1>1, <1>2, SentOnce
<1>4. Given' = {}
  BY <1>2 DEF Given
<1> QED
  BY <1>2, <1>3, <1>4 DEF HC!Fail

LEMMA StepRefines ==
  CallInv /\ [Next]_vars => [HC!Next]_<<args, seen, Ran, outcome, Given>>
<1> SUFFICES ASSUME CallInv, [Next]_vars PROVE [HC!Next]_<<args, seen, Ran, outcome, Given>>
  OBVIOUS
<1>0. pc # "done" => outcome = "none" /\ Ran = {} /\ Given = {}
  BY DEF CallInv, QuietInv, Ran, Given
<1>1. CASE ExportAnswers
  BY <1>1, AnswerRefines DEF HC!Next
<1>2. CASE ExportFails
  BY <1>2, FailRefines DEF HC!Next
<1>3. ASSUME pc # "done", Refuse \/ Escape PROVE HC!Next
  <2>1. outcome' \in {"refused", "escaped"} /\ UNCHANGED <<args, seen, dispatched>>
    BY <1>3 DEF Refuse, Escape, callVars, runVars, worldVars
  <2>2. Ran' = {} /\ Given' = {}
    BY <1>3, <2>1 DEF Ran, Given, CallInv, QuietInv
  <2> QED BY <1>0, <1>3, <2>1, <2>2 DEF HC!Next, HC!Decline
<1>4. ASSUME UNCHANGED <<args, seen, runVars, outcome>>, pc = "done" => UNCHANGED text
      PROVE  UNCHANGED <<args, seen, Ran, outcome, Given>>
  BY <1>0, <1>4 DEF Ran, Given, runVars, CallInv, QuietInv
<1>5. ASSUME pc # "done", UNCHANGED <<callVars, outcome>>, seen' \in SUBSET Apps, seen \subseteq seen'
      PROVE  HC!Next
  <2>1. Ran' = {} /\ Given' = {}
    BY <1>0, <1>5 DEF Ran, Given, callVars, runVars, CallInv, QuietInv
  <2> QED BY <1>0, <1>5, <2>1 DEF HC!Next, HC!Watch, callVars
<1>6. CASE Start
  BY <1>5, <1>6 DEF Start, CallInv, QuietInv, Enabled
<1>7. CASE Administer
  BY <1>5, <1>7 DEF Administer, CallInv, TypeOK, Enabled
<1>8. CASE Build \/ LookupFound \/ ParseText \/ PassCommand
  BY <1>4, <1>8 DEF Build, LookupFound, ParseText, PassCommand, checkVars, worldVars
<1>9. ASSUME NEW from, NEW to, Proceed(from, to) PROVE UNCHANGED <<args, seen, Ran, outcome, Given>>
  BY <1>4, <1>9 DEF Proceed, callVars, checkVars, worldVars
<1>10. CASE UNCHANGED vars
  BY <1>4, <1>10 DEF vars, callVars, checkVars, worldVars
<1> QED
  BY <1>1, <1>2, <1>3, <1>6, <1>7, <1>8, <1>9, <1>10
     DEF Next, Gate, CheckPayload, CheckRate, Validate, LookupFails, BuildFails, ParseFails,
         BlockCommand, FoundSafe, Quiet

(* A tool call keeps the promise of HonestCall, for every parser, catalogue *)
(* and configuration: at most one search, permitted and vetted, one reply,  *)
(* true of it, and nothing after (_execute_tool and all it calls).          *)
THEOREM Refinement == Spec => Implements
<1>1. Init => HC!Init
  BY DEF Init, HC!Init, Ran, Given, NoSearch
<1>2. Init => CallInv
  BY TypeInitial DEF Init, CallInv, LimitInv, CappedInv, AskedInv, VettedInv, SavedSearchVetted,
     WindowInv, CheckInv, Early, QuietInv, NoSearch
<1>3. CallInv /\ [Next]_vars => CallInv'
  BY TypeStep, CappedStep, AskedStep, VettedStep, WindowStep, CheckStep, QuietStep DEF CallInv
<1>4. CallInv /\ [Next]_vars => [HC!Next]_<<args, seen, Ran, outcome, Given>>
  BY StepRefines
<1> QED
  BY <1>1, <1>2, <1>3, <1>4, PTL DEF Spec, Implements, HC!Spec
=============================================================================
