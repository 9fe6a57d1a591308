----------------------------- MODULE EvalRunProofs -----------------------------
(***************************************************************************)
(* Proofs about the measurement of EvalRun and its artifact, for any       *)
(* questions, corpora, values of the knobs, workers and numbers of starts. *)
(* The loop of a resume and the choice of what is left to ask are data,    *)
(* of which the induction is over sets of numbers (UpTo): the loop's       *)
(* prefixes that come out right contain all of them.                       *)
(***************************************************************************)
EXTENDS EvalRun, FiniteSetTheorems, FunctionTheorems, WellFoundedInduction, TLAPS

\* A set of numbers has a least one.
LEMMA Least ==
    ASSUME NEW T \in SUBSET Nat, T # {}
    PROVE  \E n \in T : \A m \in T : ~(m < n)
<1>1. PICK x \in T : \A y \in T : ~(<<y, x>> \in OpToRel(<, Nat))
    BY NatLessThanWellFounded, WFMin
<1>. QED BY <1>1 DEF OpToRel

\* A set that holds 0 and, with each number below k, the next, holds all up to k.
LEMMA UpTo ==
    ASSUME NEW k \in Nat, NEW T, 0 \in T, \A n \in 0 .. k : n \in T /\ n < k => n + 1 \in T
    PROVE  0 .. k \subseteq T
<1>. SUFFICES ASSUME (0 .. k) \ T # {} PROVE FALSE
    OBVIOUS
<1>1. PICK n \in (0 .. k) \ T : \A m \in (0 .. k) \ T : ~(m < n)
    <2>1. (0 .. k) \ T \in SUBSET Nat
        OBVIOUS
    <2>. QED BY <2>1, Least
<1>2. n # 0 /\ n - 1 \in 0 .. k /\ n - 1 < n /\ n - 1 < k
    BY <1>1
<1>3. n - 1 \in T
    BY <1>1, <1>2
<1>4. (n - 1) + 1 = n
    BY <1>1
<1>. QED BY <1>1, <1>2, <1>3, <1>4

\* SetToSeq lists a finite set, each element once.
LEMMA SequenceOfASet ==
    ASSUME NEW S, IsFiniteSet(S)
    PROVE  /\ SetToSeq(S) \in Seq(S)
           /\ Elements(SetToSeq(S)) = S
           /\ \A i, j \in DOMAIN SetToSeq(S) : SetToSeq(S)[i] = SetToSeq(S)[j] => i = j
<1>. DEFINE n == Cardinality(S)
<1>1. n \in Nat /\ ExistsBijection(1 .. n, S)
    BY FS_CardinalityType
<1>2. PICK b \in Bijection(1 .. n, S) : TRUE
    BY <1>1 DEF ExistsBijection
<1>3. b \in [1 .. n -> S] /\ IsInjective(b)
    BY <1>2 DEF Bijection, Injection
<1>4. SetToSeq(S) \in [1 .. n -> S] /\ IsInjective(SetToSeq(S))
    BY <1>3, Zenon DEF SetToSeq
<1>5. SetToSeq(S) \in Injection(1 .. n, S)
    BY <1>4 DEF Injection
<1>6. Cardinality(1 .. n) = n
    BY <1>1, FS_Interval
<1>7. SetToSeq(S) \in Surjection(1 .. n, S)
    BY <1>5, <1>6, FS_Injection
<1>8. SetToSeq(S) \in Seq(S) /\ DOMAIN SetToSeq(S) = 1 .. n
    BY <1>1, <1>4
<1>9. Elements(SetToSeq(S)) = S
    BY <1>4, <1>7, <1>8, Zenon DEF Elements, Surjection
<1>. QED BY <1>4, <1>8, <1>9 DEF IsInjective

\* What the loop of Kept returns: the measured lines and no other.
LEMMA KeptLines ==
    ASSUME NEW R, NEW lines \in Seq(R)
    PROVE  /\ Kept(lines) \in Seq(R)
           /\ Elements(Kept(lines)) = {line \in Elements(lines) : Measured(line)}
           /\ OncePerQuestion(lines) => OncePerQuestion(Kept(lines))
<1>. DEFINE N == Len(lines)
            Loop(f, k) == [n \in 0 .. k |->
                              IF n = 0 THEN <<>>
                              ELSE IF Measured(lines[n]) THEN Append(f[n - 1], lines[n])
                              ELSE f[n - 1]]
            \* s holds what is measured among the first n lines
            Picks(s, n) ==
                /\ s \in Seq(R)
                /\ Elements(s) = {lines[i] : i \in {j \in 1 .. n : Measured(lines[j])}}
                /\ OncePerQuestion(lines) => OncePerQuestion(s)
<1>1. N \in Nat /\ DOMAIN lines = 1 .. N /\ \A i \in 1 .. N : lines[i] \in R
    OBVIOUS
<1>. HIDE DEF N
<1>2. Picks(<<>>, 0)
    BY DEF Elements, OncePerQuestion
<1>3. ASSUME NEW s, NEW n \in 1 .. N, Picks(s, n - 1)
      PROVE  Picks(IF Measured(lines[n]) THEN Append(s, lines[n]) ELSE s, n)
    <2>1. CASE ~Measured(lines[n])
        <3>1. {j \in 1 .. n : Measured(lines[j])} = {j \in 1 .. (n - 1) : Measured(lines[j])}
            BY <1>1, <2>1
        <3>. QED BY <1>3, <2>1, <3>1
    <2>2. CASE Measured(lines[n])
        <3>1. {j \in 1 .. n : Measured(lines[j])}
                = {j \in 1 .. (n - 1) : Measured(lines[j])} \cup {n}
            BY <1>1, <2>2
        <3>. DEFINE t == Append(s, lines[n])
        <3>2. /\ t \in Seq(R) /\ DOMAIN t = 1 .. (Len(s) + 1) /\ t[Len(s) + 1] = lines[n]
              /\ Len(s) \in Nat /\ DOMAIN s = 1 .. Len(s) /\ \A i \in 1 .. Len(s) : t[i] = s[i]
            BY <1>1, <1>3
        <3>. HIDE DEF t
        <3>3. Elements(t) = Elements(s) \cup {lines[n]}
            BY <3>2 DEF Elements
        <3>4. Elements(t) = {lines[i] : i \in {j \in 1 .. n : Measured(lines[j])}}
            BY <1>3, <3>1, <3>3
        <3>5. ASSUME OncePerQuestion(lines) PROVE OncePerQuestion(t)
            <4>1. \A i \in 1 .. Len(s) : \E j \in 1 .. (n - 1) : s[i] = lines[j]
                BY <1>3, <3>2 DEF Elements
            <4>2. \A i \in 1 .. Len(s) : s[i].question_id # lines[n].question_id
                BY <1>1, <3>5, <4>1 DEF OncePerQuestion
            <4>3. OncePerQuestion(s)
                BY <1>3, <3>5
            <4>. QED BY <3>2, <4>2, <4>3 DEF OncePerQuestion
        <3>. QED BY <2>2, <3>2, <3>4, <3>5 DEF t
    <2>. QED BY <2>1, <2>2
<1>. HIDE DEF Picks
<1>4. ASSUME NEW f, NEW k \in 0 .. N, f = Loop(f, k)
      PROVE  \A n \in 0 .. k : Picks(f[n], n)
    <2>. DEFINE T == {n \in 0 .. k : Picks(f[n], n)}
    <2>0. \A n \in 0 .. k : f[n] = IF n = 0 THEN <<>>
                                   ELSE IF Measured(lines[n]) THEN Append(f[n - 1], lines[n])
                                   ELSE f[n - 1]
        <3>1. \A n \in 0 .. k : f[n] = Loop(f, k)[n]
            BY <1>4, Zenon
        <3>. QED BY <3>1
    <2>1. 0 \in T
        BY <1>1, <1>2, <2>0
    <2>2. ASSUME NEW n \in 0 .. k, n \in T, n < k PROVE n + 1 \in T
        <3>1. f[n + 1] = IF Measured(lines[n + 1]) THEN Append(f[n], lines[n + 1]) ELSE f[n]
            BY <1>1, <2>0, <2>2
        <3>2. n + 1 \in 1 .. N /\ (n + 1) - 1 = n /\ n + 1 \in 0 .. k
            BY <1>1, <2>2
        <3>. QED BY <1>3, <2>2, <3>1, <3>2
    <2>. HIDE DEF T
    <2>3. 0 .. k \subseteq T
        BY <1>1, <2>1, <2>2, UpTo
    <2>. QED BY <2>3 DEF T
<1>5. \E f : f = Loop(f, N)
    <2>. DEFINE T == {k \in 0 .. N : \E f : f = Loop(f, k)}
    <2>1. 0 \in T
        <3>1. [n \in 0 .. 0 |-> <<>>] = Loop([n \in 0 .. 0 |-> <<>>], 0)
            OBVIOUS
        <3>2. 0 \in 0 .. N
            BY <1>1
        <3>. QED BY <3>1, <3>2, Zenon
    <2>2. ASSUME NEW k \in 0 .. N, k \in T, k < N PROVE k + 1 \in T
        <3>1. PICK f : f = Loop(f, k)
            BY <2>2
        <3>. DEFINE x == IF Measured(lines[k + 1]) THEN Append(f[k], lines[k + 1]) ELSE f[k]
                    g == [n \in 0 .. (k + 1) |-> IF n = k + 1 THEN x ELSE f[n]]
        <3>2. \A n \in 0 .. k : f[n] = Loop(f, k)[n]
            BY <3>1
        <3>. HIDE DEF x
        <3>3. ASSUME NEW n \in 0 .. (k + 1) PROVE g[n] = Loop(g, k + 1)[n]
            <4>1. CASE n = 0
                BY <1>1, <3>2, <4>1
            <4>2. CASE n = k + 1
                BY <1>1, <4>2 DEF x
            <4>3. CASE n # 0 /\ n # k + 1
                BY <1>1, <3>2, <4>3
            <4>. QED BY <4>1, <4>2, <4>3
        <3>4. g = Loop(g, k + 1)
            BY <3>3
        <3>5. k + 1 \in 0 .. N
            BY <1>1, <2>2
        <3>. QED BY <3>4, <3>5
    <2>. HIDE DEF T
    <2>3. 0 .. N \subseteq T
        BY <1>1, <2>1, <2>2, UpTo
    <2>4. N \in 0 .. N
        BY <1>1
    <2>. QED BY <2>3, <2>4, Zenon DEF T
<1>6. PICK f : f = Loop(f, N) /\ Kept(lines) = f[N]
    <2>. DEFINE rows == CHOOSE f : f = Loop(f, N)
    <2>1. rows = Loop(rows, N)
        BY <1>5, Zenon
    <2>2. Kept(lines) = rows[N]
        BY Zenon DEF Kept, N
    <2>. QED BY <2>1, <2>2, Zenon
<1>7. Picks(Kept(lines), N)
    <2>1. N \in 0 .. N
        BY <1>1
    <2>. QED BY <1>4, <1>6, <2>1, Zenon
<1>8. {lines[i] : i \in {j \in 1 .. N : Measured(lines[j])}}
        = {line \in Elements(lines) : Measured(line)}
    BY <1>1 DEF Elements
<1>. QED BY <1>7, <1>8 DEF Picks

\* What a start still has to ask.
LEMMA LeftToAsk ==
    ASSUME NEW limit \in Nat, NEW rows
    PROVE  /\ NotDone(limit, rows) \in Seq(Covered(limit))
           /\ Elements(NotDone(limit, rows)) = Covered(limit) \ QuestionsOf(rows)
           /\ \A i, j \in DOMAIN NotDone(limit, rows) :
                  NotDone(limit, rows)[i] = NotDone(limit, rows)[j] => i = j
<1>. DEFINE S == Covered(limit) \ QuestionsOf(rows)
<1>1. IsFiniteSet(S)
    <2>1. IsFiniteSet(Covered(limit))
        BY FS_Interval DEF Covered
    <2>. QED BY <2>1, FS_Difference
<1>2. /\ SetToSeq(S) \in Seq(S) /\ Elements(SetToSeq(S)) = S
      /\ \A i, j \in DOMAIN SetToSeq(S) : SetToSeq(S)[i] = SetToSeq(S)[j] => i = j
    BY <1>1, SequenceOfASet
<1>3. NotDone(limit, rows) = SetToSeq(S)
    BY DEF NotDone
<1>4. Seq(S) \subseteq Seq(Covered(limit))
    OBVIOUS
<1>. QED BY <1>2, <1>3, <1>4

\* Lines of different questions are as many as their questions.
LEMMA LinesAreCounted ==
    ASSUME NEW R, NEW lines \in Seq(R), OncePerQuestion(lines)
    PROVE  Cardinality(QuestionsOf(lines)) = Len(lines)
<1>. DEFINE f == [i \in 1 .. Len(lines) |-> lines[i].question_id]
            Q == QuestionsOf(lines)
<1>1. Len(lines) \in Nat /\ DOMAIN lines = 1 .. Len(lines)
    OBVIOUS
<1>2. f \in [1 .. Len(lines) -> Q]
    BY <1>1 DEF QuestionsOf, Elements
<1>3. \A q \in Q : \E i \in 1 .. Len(lines) : f[i] = q
    BY <1>1 DEF QuestionsOf, Elements
<1>4. \A i, j \in 1 .. Len(lines) : f[i] = f[j] => i = j
    BY <1>1 DEF OncePerQuestion
<1>. HIDE DEF f, Q
<1>5. f \in Bijection(1 .. Len(lines), Q)
    BY <1>2, <1>3, <1>4, Fun_IsBij
<1>6. ExistsBijection(1 .. Len(lines), Q)
    BY <1>5 DEF ExistsBijection
<1>. QED BY <1>1, <1>6, FS_CountingElements DEF Q

\* A limit is a number of questions.
LEMMA LimitsAreCounts == \A limit \in Limits : limit \in 1 .. NQuestions /\ limit \in Nat
<1>1. NQuestions \in Nat /\ Limits \subseteq 1 .. NQuestions
    BY EvalAssumption
<1>. QED BY <1>1

\* The elements of a sequence over R are in R.
LEMMA Members ==
    ASSUME NEW R, NEW s \in Seq(R)
    PROVE  Elements(s) \subseteq R
BY DEF Elements

\* A sequence is its first element and the rest, and they share nothing if none occurs twice.
LEMMA HeadAndTail ==
    ASSUME NEW R, NEW s \in Seq(R), s # <<>>
    PROVE  /\ Head(s) \in R /\ Tail(s) \in Seq(R)
           /\ Elements(s) = Elements(Tail(s)) \cup {Head(s)}
           /\ (\A i, j \in DOMAIN s : s[i] = s[j] => i = j) =>
                  /\ Head(s) \notin Elements(Tail(s))
                  /\ \A i, j \in DOMAIN Tail(s) : Tail(s)[i] = Tail(s)[j] => i = j
<1>. DEFINE t == Tail(s)
            n == Len(s)
<1>1. /\ n \in Nat /\ n >= 1 /\ DOMAIN s = 1 .. n /\ Head(s) = s[1] /\ s[1] \in R
      /\ t \in Seq(R) /\ DOMAIN t = 1 .. (n - 1)
    OBVIOUS
<1>2. \A i \in 1 .. (n - 1) : t[i] = s[i + 1]
    OBVIOUS
<1>. HIDE DEF t, n
<1>3. \A i \in 1 .. n : i = 1 \/ (i - 1 \in 1 .. (n - 1) /\ (i - 1) + 1 = i)
    BY <1>1
<1>4. \A i \in 1 .. (n - 1) : i + 1 \in 1 .. n /\ i + 1 # 1
    BY <1>1
<1>5. 1 \in 1 .. n /\ \A i, j \in 1 .. (n - 1) : i + 1 = j + 1 => i = j
    BY <1>1
<1>6. Elements(s) \subseteq Elements(t) \cup {s[1]}
    <2>1. \A i \in 1 .. n : i = 1 \/ (i - 1 \in 1 .. (n - 1) /\ t[i - 1] = s[i])
        BY <1>2, <1>3
    <2>. QED BY <1>1, <2>1 DEF Elements
<1>7. Elements(t) \cup {s[1]} \subseteq Elements(s)
    BY <1>1, <1>2, <1>4, <1>5 DEF Elements
<1>8. ASSUME \A i, j \in 1 .. n : s[i] = s[j] => i = j
      PROVE  s[1] \notin Elements(t) /\ \A i, j \in 1 .. (n - 1) : t[i] = t[j] => i = j
    BY <1>1, <1>2, <1>4, <1>5, <1>8 DEF Elements
<1>. QED BY <1>1, <1>6, <1>7, <1>8 DEF t

\* A set without two different elements.
LEMMA AtMostOne ==
    ASSUME NEW S, \A x, y \in S : x = y
    PROVE  Cardinality(S) <= 1
<1>1. CASE S = {}
    BY <1>1, FS_EmptySet
<1>2. CASE S # {}
    <2>1. PICK x \in S : TRUE
        BY <1>2
    <2>2. S = {x}
        BY <2>1
    <2>. QED BY <2>2, FS_Singleton
<1>. QED BY <1>1, <1>2

----------------------------------------------------------------------------
(***************************************************************************)
(* The steps.                                                              *)
(***************************************************************************)
\* Before the first start there is no file.
LEMMA Starts == Init => WhyTheArtifactStands
<1>. SUFFICES ASSUME Init PROVE WhyTheArtifactStands
    OBVIOUS
<1>. USE DEF Init
<1>1. TypeOK
    BY EvalAssumption DEF TypeOK, Elements, Workers
<1>2. FileIsWhole
    BY DEF FileIsWhole
<1>3. PhaseHolds
    BY DEF PhaseHolds, AtRest
<1>4. EveryQuestionHasItsPlace
    BY DEF EveryQuestionHasItsPlace, OncePerQuestion, Secured, Answered, Asked,
           QuestionsOf, Elements
<1>5. RowsAreOfOneTreatment
    BY DEF RowsAreOfOneTreatment, PaidFor, Elements
<1>6. MemoryIsTheFile /\ ReportStands /\ ReportCoversTheArm
    BY DEF MemoryIsTheFile, ReportStands, ReportCoversTheArm
<1>. QED BY <1>1, <1>2, <1>3, <1>4, <1>5, <1>6 DEF WhyTheArtifactStands

\* However a start ends, the file it leaves is one the next start can go on from.
LEMMA EndsKeep ==
    ASSUME WhyTheArtifactStands, NEW how, Ends(how),
           UNCHANGED <<file, conf, launches>>,
           how # "report_raised",
           how \in {"reported", "quotable"} =>
               QuestionsOf(file.lines) = Covered(conf.limit) /\ Len(file.lines) = conf.limit
    PROVE  WhyTheArtifactStands'
<1>. USE DEF Ends
<1>1. TypeOK'
    BY EvalAssumption DEF WhyTheArtifactStands, TypeOK, Elements
<1>2. FileIsWhole'
    BY DEF WhyTheArtifactStands, FileIsWhole
<1>3. PhaseHolds'
    BY DEF PhaseHolds, AtRest
<1>4. EveryQuestionHasItsPlace'
    BY DEF WhyTheArtifactStands, EveryQuestionHasItsPlace, OncePerQuestion, Secured,
           Answered, Asked, QuestionsOf, Elements
<1>5. RowsAreOfOneTreatment'
    BY DEF WhyTheArtifactStands, RowsAreOfOneTreatment, PaidFor, Elements, OfOneTreatment
<1>6. MemoryIsTheFile' /\ ReportStands'
    BY DEF MemoryIsTheFile, ReportStands
<1>7. ReportCoversTheArm'
    BY DEF ReportCoversTheArm, QuestionsOf, Elements, Covered
<1>. QED BY <1>1, <1>2, <1>3, <1>4, <1>5, <1>6, <1>7 DEF WhyTheArtifactStands

\* A start finds an empty file unless it resumes.
LEMMA LaunchKeeps ==
    ASSUME WhyTheArtifactStands, NEW c \in Confs, NEW truncate \in BOOLEAN, Launch(c, truncate)
    PROVE  WhyTheArtifactStands'
<1>. USE DEF Launch
<1>0. /\ file' = file \/ (file' = Emptied(file) /\ file.exists)
      /\ file \in [exists : BOOLEAN, lines : Seq(Rows), open : {FALSE}]
      /\ file' \in [exists : BOOLEAN, lines : Seq(Rows), open : {FALSE}]
      /\ file'.exists = file.exists
      /\ file'.lines = file.lines \/ (file'.lines = <<>> /\ file.exists)
    <2>1. file \in [exists : BOOLEAN, lines : Seq(Rows), open : {FALSE}]
        BY DEF WhyTheArtifactStands, FileIsWhole
    <2>2. <<>> \in Seq(Rows)
        OBVIOUS
    <2>3. /\ Emptied(file) \in [exists : BOOLEAN, lines : Seq(Rows), open : {FALSE}]
          /\ Emptied(file).exists = file.exists /\ Emptied(file).lines = <<>>
        BY <2>1, <2>2 DEF Emptied
    <2>4. file' = file \/ (file' = Emptied(file) /\ file.exists)
        OBVIOUS
    <2>. QED BY <2>1, <2>3, <2>4
<1>1. TypeOK'
    <2>1. Elements(file.lines)' \subseteq Rows
        BY <1>0 DEF Elements
    <2>2. launches' \in 0 .. MaxLaunches
        BY EvalAssumption DEF WhyTheArtifactStands, TypeOK
    <2>. QED BY <1>0, <2>1, <2>2 DEF WhyTheArtifactStands, TypeOK, Elements
<1>2. FileIsWhole'
    BY <1>0 DEF WhyTheArtifactStands, FileIsWhole
<1>3. PhaseHolds'
    BY DEF WhyTheArtifactStands, FileIsWhole, PhaseHolds, AtRest, Asked, Emptied,
           append_refusal, flag_conflict
<1>4. EveryQuestionHasItsPlace'
    <2>1. AtRest /\ kept = <<>>
        BY DEF WhyTheArtifactStands, PhaseHolds
    <2>. QED BY <1>0, <2>1 DEF WhyTheArtifactStands, EveryQuestionHasItsPlace, OncePerQuestion,
           FileIsWhole, Secured, Answered, Asked, QuestionsOf, Elements, AtRest, Emptied
<1>5. RowsAreOfOneTreatment'
    BY <1>0 DEF WhyTheArtifactStands, RowsAreOfOneTreatment, PaidFor, Elements, OfOneTreatment,
           FileIsWhole, Emptied
<1>6. MemoryIsTheFile' /\ ReportStands' /\ ReportCoversTheArm'
    BY DEF MemoryIsTheFile, ReportStands, ReportCoversTheArm
<1>. QED BY <1>1, <1>2, <1>3, <1>4, <1>5, <1>6 DEF WhyTheArtifactStands

\* What a resume keeps belongs to this start, and the rest of what is covered is asked.
LEMMA ResumeKeeps ==
    ASSUME WhyTheArtifactStands, Resume
    PROVE  WhyTheArtifactStands'
<1>. DEFINE continuing == conf.resume /\ file.exists
            rows == IF continuing THEN Kept(file.lines) ELSE <<>>
            left == NotDone(conf.limit, rows)
<1>1. /\ phase = "resuming" /\ kept = <<>> /\ AtRest
      /\ file \in [exists : BOOLEAN, lines : Seq(Rows), open : {FALSE}]
      /\ conf \in Confs /\ conf.limit \in Nat /\ conf.limit \in 1 .. NQuestions
      /\ busy \in [Workers -> 0 .. NQuestions]
    <2>1. conf \in Confs /\ busy \in [Workers -> 0 .. NQuestions]
        BY DEF WhyTheArtifactStands, TypeOK
    <2>2. conf.limit \in 1 .. NQuestions /\ conf.limit \in Nat
        <3>1. conf.limit \in Limits
            BY <2>1 DEF Confs
        <3>. QED BY <3>1, LimitsAreCounts
    <2>3. phase = "resuming"
        BY DEF Resume
    <2>4. kept = <<>> /\ AtRest
        BY <2>3 DEF WhyTheArtifactStands, PhaseHolds
    <2>5. file \in [exists : BOOLEAN, lines : Seq(Rows), open : {FALSE}]
        BY DEF WhyTheArtifactStands, FileIsWhole
    <2>. QED BY <2>1, <2>2, <2>3, <2>4, <2>5, Zenon
<1>2. CASE Ends("refused") /\ UNCHANGED <<file, conf, launches>>
    BY <1>1, <1>2, EndsKeep
<1>3. CASE ~resume_identity_problem(rows, conf) /\ ~Ends("refused")
    <2>. DEFINE again == continuing /\ Retrying(file.lines)
    <2>1. /\ todo' = left
          /\ kept' = IF again THEN rows ELSE <<>>
          /\ phase' = IF again THEN "rewriting" ELSE "opening"
          /\ UNCHANGED <<file, conf, busy, done, crashes, launches, last>>
        BY <1>3 DEF Resume
    <2>2. /\ rows \in Seq(Rows)
          /\ Elements(rows) = {line \in Elements(file.lines) : Measured(line)}
          /\ OncePerQuestion(rows)
        <3>1. CASE continuing
            BY <1>1, <3>1, KeptLines DEF WhyTheArtifactStands, EveryQuestionHasItsPlace
        <3>2. CASE ~continuing
            <4>1. file.lines = <<>>
                BY <1>1, <3>2 DEF WhyTheArtifactStands, FileIsWhole, PhaseHolds
            <4>. QED BY <3>2, <4>1 DEF Elements, OncePerQuestion
        <3>. QED BY <3>1, <3>2
    <2>3. /\ left \in Seq(Covered(conf.limit))
          /\ Elements(left) = Covered(conf.limit) \ QuestionsOf(rows)
          /\ \A i, j \in DOMAIN left : left[i] = left[j] => i = j
        BY <1>1, LeftToAsk
    <2>4. /\ QuestionsOf(rows) \subseteq Covered(conf.limit)
          /\ \A row \in Elements(rows) : OfThisStart(row)
        BY <1>3 DEF resume_identity_problem, _identity_problem, _knob_problem, OfThisStart
    <2>0. again => conf.resume
        OBVIOUS
    <2>. HIDE DEF rows, left, again
    <2>5. QuestionsOf(rows) = QuestionsOf(file.lines) \/ again
        <3>1. CASE continuing /\ ~Retrying(file.lines)
            <4>1. Elements(file.lines) \subseteq Rows
                BY <1>1 DEF Elements
            <4>2. Elements(rows) = Elements(file.lines)
                BY <2>2, <3>1, <4>1 DEF Retrying, Measured, Rows, Outcomes
            <4>. QED BY <4>2 DEF QuestionsOf
        <3>2. CASE ~continuing
            <4>1. file.lines = <<>> /\ rows = <<>>
                BY <1>1, <3>2 DEF WhyTheArtifactStands, FileIsWhole, PhaseHolds, rows
            <4>. QED BY <4>1
        <3>. QED BY <3>1, <3>2 DEF again
    <2>6. Elements(<<>>) = {} /\ QuestionsOf(<<>>) = {}
        BY DEF Elements, QuestionsOf
    <2>7. PhaseHolds'
        <3>1. Seq(Covered(conf.limit)) \subseteq Seq(1 .. NQuestions)
            BY <1>1, EvalAssumption DEF Covered
        <3>. QED BY <1>1, <2>0, <2>1, <2>2, <2>3, <3>1
               DEF WhyTheArtifactStands, PhaseHolds, AtRest, Asked
    <2>8. TypeOK'
        <3>0. todo' \in Seq(1 .. NQuestions) /\ kept' \in Seq(Rows)
            BY <2>7 DEF PhaseHolds
        <3>1. Elements(todo') \subseteq 1 .. NQuestions /\ Elements(kept') \subseteq Rows
            BY <3>0, Members
        <3>2. phase' \in {"rewriting", "opening"}
            BY <2>1
        <3>. QED BY <2>1, <3>1, <3>2 DEF WhyTheArtifactStands, TypeOK, Elements
    <2>9. FileIsWhole'
        BY <1>1, <2>1 DEF WhyTheArtifactStands, FileIsWhole, again
    <2>10. EveryQuestionHasItsPlace'
        <3>1. Answered' = {} /\ Asked' = {} /\ done' = {} /\ \A w \in Workers : busy'[w] = 0
            BY <1>1, <2>1 DEF AtRest, Answered, Asked
        <3>2. QuestionsOf(Secured') = QuestionsOf(rows)
            BY <2>1, <2>5 DEF Secured
        <3>3. QuestionsOf(Secured)' = QuestionsOf(rows)
            BY <3>2 DEF QuestionsOf, Elements
        <3>4. Elements(todo)' = Covered(conf.limit) \ QuestionsOf(rows)
            BY <2>1, <2>3 DEF Elements
        <3>5. OncePerQuestion(file.lines)' /\ OncePerQuestion(kept)'
            BY <2>1, <2>2 DEF WhyTheArtifactStands, EveryQuestionHasItsPlace, OncePerQuestion
        <3>6. Covered(conf.limit)' = Covered(conf.limit)
            BY <2>1 DEF Covered
        <3>. QED BY <2>1, <2>3, <2>4, <3>1, <3>3, <3>4, <3>5, <3>6 DEF EveryQuestionHasItsPlace
    <2>11. RowsAreOfOneTreatment'
        <3>1. PaidFor(file.lines, kept)' = Elements(rows)
            BY <2>1, <2>2, <2>6 DEF PaidFor, Elements
        <3>2. \A row \in Elements(rows) : OfThisStart(row)'
            BY <2>1, <2>4 DEF OfThisStart
        <3>. QED BY <1>1, <2>1, <3>1, <3>2
               DEF RowsAreOfOneTreatment, OfThisStart, OfOneTreatment, AtRest
    <2>12. MemoryIsTheFile' /\ ReportStands' /\ ReportCoversTheArm'
        BY <1>1, <2>1, <2>2 DEF WhyTheArtifactStands, MemoryIsTheFile, ReportStands,
           ReportCoversTheArm, Elements, PhaseHolds
    <2>. QED BY <2>7, <2>8, <2>9, <2>10, <2>11, <2>12 DEF WhyTheArtifactStands
<1>. QED BY <1>2, <1>3 DEF Resume

\* The emptying and the filling of the file take it to memory and back.
LEMMA RewriteKeeps ==
    ASSUME WhyTheArtifactStands, Empty \/ Rewrite
    PROVE  WhyTheArtifactStands'
<1>1. /\ file \in [exists : BOOLEAN, lines : Seq(Rows), open : {FALSE}]
      /\ kept \in Seq(Rows) /\ done = {} /\ Asked = {} /\ last = "running"
    BY DEF WhyTheArtifactStands, FileIsWhole, PhaseHolds, Empty, Rewrite
<1>2. <<>> \in Seq(Rows) /\ Elements(<<>>) = {} /\ OncePerQuestion(<<>>)
    BY DEF Elements, OncePerQuestion
<1>3. CASE Empty
    <2>1. /\ phase = "rewriting" /\ phase' = "rewritten"
          /\ file' \in [exists : BOOLEAN, lines : Seq(Rows), open : {FALSE}]
          /\ file'.lines = <<>> /\ file'.exists = file.exists /\ file'.open = FALSE
          /\ UNCHANGED <<conf, kept, todo, busy, done, crashes, launches, last>>
        BY <1>1, <1>2, <1>3 DEF Empty, Emptied
    <2>2. TypeOK'
        BY <1>2, <2>1 DEF WhyTheArtifactStands, TypeOK, Elements
    <2>3. FileIsWhole' /\ PhaseHolds'
        BY <1>1, <2>1 DEF WhyTheArtifactStands, FileIsWhole, PhaseHolds, AtRest, Asked
    <2>4. EveryQuestionHasItsPlace'
        <3>1. /\ Secured' = Secured /\ Covered(conf.limit)' = Covered(conf.limit)
              /\ Answered' = Answered /\ Asked' = Asked /\ Elements(todo)' = Elements(todo)
            BY <2>1 DEF Secured, Covered, Answered, Asked, Elements
        <3>2. QuestionsOf(Secured)' = QuestionsOf(Secured)
            BY <3>1 DEF QuestionsOf, Elements
        <3>3. OncePerQuestion(file.lines)' /\ OncePerQuestion(kept)'
            BY <2>1 DEF OncePerQuestion, WhyTheArtifactStands, EveryQuestionHasItsPlace
        <3>. QED BY <2>1, <3>1, <3>2, <3>3 DEF WhyTheArtifactStands, EveryQuestionHasItsPlace
    <2>5. RowsAreOfOneTreatment'
        BY <1>2, <2>1 DEF WhyTheArtifactStands, RowsAreOfOneTreatment, PaidFor, Elements,
           OfOneTreatment, OfThisStart
    <2>6. MemoryIsTheFile' /\ ReportStands' /\ ReportCoversTheArm'
        BY <1>1, <2>1 DEF MemoryIsTheFile, ReportStands, ReportCoversTheArm
    <2>. QED BY <2>2, <2>3, <2>4, <2>5, <2>6 DEF WhyTheArtifactStands
<1>4. CASE Rewrite
    <2>0. phase = "rewritten" /\ file.lines = <<>>
        BY <1>4 DEF Rewrite, WhyTheArtifactStands, FileIsWhole
    <2>1. /\ phase' = "opening" /\ kept' = <<>>
          /\ file' \in [exists : BOOLEAN, lines : Seq(Rows), open : {FALSE}]
          /\ file'.lines = kept /\ file'.exists = file.exists /\ file'.open = FALSE
          /\ UNCHANGED <<conf, todo, busy, done, crashes, launches, last>>
        BY <1>1, <1>4 DEF Rewrite
    <2>2. TypeOK'
        <3>1. Elements(file'.lines) \subseteq Rows /\ Elements(kept') = {}
            BY <1>1, <1>2, <2>1, Members
        <3>2. file'.exists \in BOOLEAN
            BY <1>1, <2>1
        <3>3. /\ Elements(todo') = Elements(todo) /\ phase' = "opening"
              /\ Elements(file'.lines) = Elements(file.lines)'
              /\ Elements(todo') = Elements(todo)' /\ Elements(kept') = Elements(kept)'
            BY <2>1 DEF Elements
        <3>. QED BY <2>1, <3>1, <3>2, <3>3 DEF WhyTheArtifactStands, TypeOK
    <2>3. FileIsWhole' /\ PhaseHolds'
        BY <1>1, <1>2, <2>0, <2>1 DEF WhyTheArtifactStands, FileIsWhole, PhaseHolds, AtRest, Asked
    <2>4. EveryQuestionHasItsPlace'
        <3>1. /\ Secured' = Secured /\ Covered(conf.limit)' = Covered(conf.limit)
              /\ Answered' = Answered /\ Asked' = Asked /\ Elements(todo)' = Elements(todo)
            BY <2>0, <2>1 DEF Secured, Covered, Answered, Asked, Elements
        <3>2. QuestionsOf(Secured)' = QuestionsOf(Secured)
            BY <3>1 DEF QuestionsOf, Elements
        <3>3. OncePerQuestion(file.lines)' /\ OncePerQuestion(kept)'
            BY <2>1 DEF OncePerQuestion, WhyTheArtifactStands, EveryQuestionHasItsPlace
        <3>. QED BY <2>0, <2>1, <3>1, <3>2, <3>3
               DEF WhyTheArtifactStands, EveryQuestionHasItsPlace
    <2>5. RowsAreOfOneTreatment'
        BY <1>2, <2>0, <2>1 DEF WhyTheArtifactStands, RowsAreOfOneTreatment, PaidFor, Elements,
           OfOneTreatment, OfThisStart
    <2>6. MemoryIsTheFile' /\ ReportStands' /\ ReportCoversTheArm'
        BY <1>1, <2>1 DEF MemoryIsTheFile, ReportStands, ReportCoversTheArm
    <2>. QED BY <2>2, <2>3, <2>4, <2>5, <2>6 DEF WhyTheArtifactStands
<1>. QED BY <1>3, <1>4

\* Where a row or a question is kept is a matter of file, todo, busy and done alone.
LEMMA PhaseMoves ==
    ASSUME WhyTheArtifactStands,
           UNCHANGED <<conf, kept, todo, busy, done, crashes, launches, last>>,
           phase \notin {"idle", "resuming", "rewriting", "rewritten"},
           phase' \in {"serving", "draining", "reporting"},
           phase' = "reporting" => AtRest,
           file' \in [exists : BOOLEAN, lines : Seq(Rows), open : {FALSE}],
           file'.lines = file.lines, file'.exists
    PROVE  WhyTheArtifactStands'
<1>1. TypeOK'
    <2>1. /\ Elements(file.lines)' = Elements(file'.lines) /\ Elements(kept)' = Elements(kept)
          /\ Elements(todo)' = Elements(todo) /\ Elements(file'.lines) \subseteq Rows
        BY Members DEF Elements
    <2>2. file'.exists \in BOOLEAN /\ file'.open = FALSE
        OBVIOUS
    <2>. QED BY <2>1, <2>2 DEF WhyTheArtifactStands, TypeOK
<1>2. FileIsWhole' /\ PhaseHolds'
    BY DEF WhyTheArtifactStands, FileIsWhole, PhaseHolds, AtRest, Asked
<1>3. EveryQuestionHasItsPlace'
    <2>1. /\ Secured = file.lines /\ Secured' = file.lines
          /\ Covered(conf.limit)' = Covered(conf.limit)
          /\ Answered' = Answered /\ Asked' = Asked /\ Elements(todo)' = Elements(todo)
        BY DEF Secured, Covered, Answered, Asked, Elements
    <2>2. QuestionsOf(Secured)' = QuestionsOf(Secured)
        BY <2>1 DEF QuestionsOf, Elements
    <2>3. OncePerQuestion(file.lines)' /\ OncePerQuestion(kept)'
        BY DEF OncePerQuestion, WhyTheArtifactStands, EveryQuestionHasItsPlace
    <2>. QED BY <2>1, <2>2, <2>3 DEF WhyTheArtifactStands, EveryQuestionHasItsPlace
<1>4. RowsAreOfOneTreatment'
    BY DEF WhyTheArtifactStands, RowsAreOfOneTreatment, PaidFor, Elements,
           OfOneTreatment, OfThisStart
<1>5. MemoryIsTheFile' /\ ReportStands' /\ ReportCoversTheArm'
    BY DEF WhyTheArtifactStands, PhaseHolds, MemoryIsTheFile, ReportStands, ReportCoversTheArm
<1>. QED BY <1>1, <1>2, <1>3, <1>4, <1>5 DEF WhyTheArtifactStands

\* A worker takes the next question.
LEMMA BeginKeeps ==
    ASSUME WhyTheArtifactStands, NEW w \in Workers, Begin(w)
    PROVE  WhyTheArtifactStands'
<1>0. /\ phase \in {"serving", "draining"} /\ busy[w] = 0 /\ todo # <<>>
      /\ busy' = [busy EXCEPT ![w] = Head(todo)] /\ todo' = Tail(todo)
      /\ UNCHANGED <<file, phase, conf, kept, done, crashes, launches, last>>
      /\ todo \in Seq(1 .. NQuestions) /\ busy \in [Workers -> 0 .. NQuestions]
    BY DEF Begin, WhyTheArtifactStands, PhaseHolds, TypeOK
<1>1. Head(todo) \in 1 .. NQuestions /\ Tail(todo) \in Seq(1 .. NQuestions)
    BY <1>0, HeadAndTail
<1>2. /\ Elements(todo) = Elements(todo') \cup {Head(todo)}
      /\ (\A i, j \in DOMAIN todo : todo[i] = todo[j] => i = j) =>
             /\ Head(todo) \notin Elements(todo')
             /\ \A i, j \in DOMAIN todo' : todo'[i] = todo'[j] => i = j
    BY <1>0, HeadAndTail, Zenon
<1>3. Asked' = Asked \cup {Head(todo)}
    BY <1>0, <1>1 DEF Asked
<1>4. TypeOK'
    <2>1. /\ Elements(file.lines)' = Elements(file.lines) /\ Elements(kept)' = Elements(kept)
          /\ Elements(todo)' = Elements(todo')
        BY <1>0 DEF Elements
    <2>2. busy' \in [Workers -> 0 .. NQuestions]
        BY <1>0, <1>1
    <2>. QED BY <1>0, <1>2, <2>1, <2>2 DEF WhyTheArtifactStands, TypeOK
<1>5. FileIsWhole' /\ PhaseHolds'
    BY <1>0, <1>1 DEF WhyTheArtifactStands, FileIsWhole, PhaseHolds, AtRest
<1>6. EveryQuestionHasItsPlace'
    <2>1. /\ Secured' = Secured /\ Covered(conf.limit)' = Covered(conf.limit)
          /\ Answered' = Answered /\ Elements(todo)' = Elements(todo')
        BY <1>0 DEF Secured, Covered, Answered, Elements
    <2>2. QuestionsOf(Secured)' = QuestionsOf(Secured)
        BY <2>1 DEF QuestionsOf, Elements
    <2>3. OncePerQuestion(file.lines)' /\ OncePerQuestion(kept)'
        BY <1>0 DEF OncePerQuestion, WhyTheArtifactStands, EveryQuestionHasItsPlace
    <2>4. \A v \in Workers : busy[v] # Head(todo)
        <3>1. Head(todo) \in Elements(todo)
            BY <1>2
        <3>. QED BY <1>1, <3>1 DEF WhyTheArtifactStands, EveryQuestionHasItsPlace, Asked
    <2>5. \A u, v \in Workers : busy'[u] = busy'[v] /\ busy'[u] # 0 => u = v
        BY <1>0, <2>4 DEF WhyTheArtifactStands, EveryQuestionHasItsPlace
    <2>. QED BY <1>0, <1>2, <1>3, <2>1, <2>2, <2>3, <2>5
           DEF WhyTheArtifactStands, EveryQuestionHasItsPlace
<1>7. RowsAreOfOneTreatment'
    BY <1>0 DEF WhyTheArtifactStands, RowsAreOfOneTreatment, PaidFor, Elements,
           OfOneTreatment, OfThisStart
<1>8. MemoryIsTheFile' /\ ReportStands' /\ ReportCoversTheArm'
    BY <1>0 DEF WhyTheArtifactStands, PhaseHolds, MemoryIsTheFile, ReportStands, ReportCoversTheArm
<1>. QED BY <1>4, <1>5, <1>6, <1>7, <1>8 DEF WhyTheArtifactStands

\* A worker is done with its question: a future holds a row of this start's treatment.
LEMMA FutureKeeps ==
    ASSUME WhyTheArtifactStands, NEW w \in Workers, busy[w] # 0,
           NEW row \in Futures, row.question_id = busy[w], OfThisStart(row),
           done' = done \cup {row}, busy' = [busy EXCEPT ![w] = 0],
           crashes' \in 0 .. MaxCrashes,
           UNCHANGED <<file, phase, conf, kept, todo, launches, last>>
    PROVE  WhyTheArtifactStands'
<1>0. /\ busy \in [Workers -> 0 .. NQuestions] /\ busy[w] \in Asked
      /\ phase \notin {"idle", "resuming", "reporting", "rewriting", "rewritten", "opening"}
      /\ \A u, v \in Workers : busy[u] = busy[v] /\ busy[u] # 0 => u = v
    BY DEF WhyTheArtifactStands, TypeOK, PhaseHolds, AtRest, Asked, EveryQuestionHasItsPlace
<1>1. Answered' = Answered \cup {busy[w]}
    BY DEF Answered
<1>2. Asked' = Asked \ {busy[w]}
    BY <1>0 DEF Asked
<1>3. TypeOK'
    <2>1. /\ Elements(file.lines)' = Elements(file.lines) /\ Elements(kept)' = Elements(kept)
          /\ Elements(todo)' = Elements(todo)
        BY DEF Elements
    <2>2. busy' \in [Workers -> 0 .. NQuestions]
        BY <1>0, EvalAssumption
    <2>. QED BY <2>1, <2>2 DEF WhyTheArtifactStands, TypeOK
<1>4. FileIsWhole' /\ PhaseHolds'
    BY <1>0 DEF WhyTheArtifactStands, FileIsWhole, PhaseHolds, AtRest
<1>5. EveryQuestionHasItsPlace'
    <2>1. /\ Secured' = Secured /\ Covered(conf.limit)' = Covered(conf.limit)
          /\ Elements(todo)' = Elements(todo)
        BY DEF Secured, Covered, Elements
    <2>2. QuestionsOf(Secured)' = QuestionsOf(Secured)
        BY <2>1 DEF QuestionsOf, Elements
    <2>3. OncePerQuestion(file.lines)' /\ OncePerQuestion(kept)'
        BY DEF OncePerQuestion, WhyTheArtifactStands, EveryQuestionHasItsPlace
    <2>4. \A r \in done : r.question_id # busy[w]
        BY <1>0 DEF WhyTheArtifactStands, EveryQuestionHasItsPlace, Answered
    <2>5. \A r1, r2 \in done' : r1.question_id = r2.question_id => r1 = r2
        BY <2>4 DEF WhyTheArtifactStands, EveryQuestionHasItsPlace
    <2>6. \A u, v \in Workers : busy'[u] = busy'[v] /\ busy'[u] # 0 => u = v
        BY <1>0
    <2>. QED BY <1>0, <1>1, <1>2, <2>1, <2>2, <2>3, <2>5, <2>6
           DEF WhyTheArtifactStands, EveryQuestionHasItsPlace
<1>6. RowsAreOfOneTreatment'
    BY <1>0 DEF WhyTheArtifactStands, RowsAreOfOneTreatment, PaidFor, Elements,
           OfOneTreatment, OfThisStart
<1>7. MemoryIsTheFile' /\ ReportStands' /\ ReportCoversTheArm'
    BY <1>0 DEF WhyTheArtifactStands, PhaseHolds, MemoryIsTheFile, ReportStands, ReportCoversTheArm
<1>. QED BY <1>3, <1>4, <1>5, <1>6, <1>7 DEF WhyTheArtifactStands

\* What project_turn writes is of the treatment that is running.
LEMMA WorkKeeps ==
    ASSUME WhyTheArtifactStands, NEW w \in Workers, Work(w)
    PROVE  WhyTheArtifactStands'
<1>0. /\ conf \in Confs /\ busy \in [Workers -> 0 .. NQuestions] /\ crashes \in 0 .. MaxCrashes
      /\ busy[w] # 0 => busy[w] \in 1 .. NQuestions
    BY EvalAssumption DEF WhyTheArtifactStands, TypeOK
<1>1. CASE Begin(w)
    BY <1>1, BeginKeeps
<1>2. ASSUME NEW outcome \in Outcomes \cup {"raised"}, NEW row, busy[w] # 0,
             row = [project_turn(busy[w], "crashed") EXCEPT !.outcome = outcome]
             \/ (row = project_turn(busy[w], outcome) /\ outcome \in Outcomes)
      PROVE  row \in Futures /\ row.question_id = busy[w] /\ OfThisStart(row)
    BY <1>0, <1>2 DEF project_turn, Confs, Futures, Outcomes, OfThisStart
<1>3. ASSUME NEW outcome \in Outcomes, Answer(w, outcome) PROVE WhyTheArtifactStands'
    <2>. DEFINE row == project_turn(busy[w], outcome)
    <2>1. busy[w] # 0 /\ row \in Futures /\ row.question_id = busy[w] /\ OfThisStart(row)
        BY <1>2, <1>3 DEF Answer
    <2>. HIDE DEF row
    <2>2. /\ done' = done \cup {row} /\ busy' = [busy EXCEPT ![w] = 0]
          /\ crashes' \in 0 .. MaxCrashes
          /\ UNCHANGED <<file, phase, conf, kept, todo, launches, last>>
        BY <1>0, <1>3 DEF Answer, row
    <2>. QED BY <2>1, <2>2, FutureKeeps
<1>4. CASE Raise(w) /\ Serial
    <2>1. phase # "rewritten"
        BY <1>0, <1>4 DEF Raise, WhyTheArtifactStands, PhaseHolds, Asked
    <2>. QED BY <1>4, <2>1, EndsKeep DEF Raise
<1>5. CASE Raise(w) /\ ~Serial
    <2>. DEFINE row == project_turn(busy[w], "crashed")
    <2>1. busy[w] # 0 /\ row \in Futures /\ row.question_id = busy[w] /\ OfThisStart(row)
        BY <1>2, <1>5 DEF Raise, Outcomes
    <2>. HIDE DEF row
    <2>2. /\ done' = done \cup {row} /\ busy' = [busy EXCEPT ![w] = 0]
          /\ crashes' \in 0 .. MaxCrashes
          /\ UNCHANGED <<file, phase, conf, kept, todo, launches, last>>
        BY <1>0, <1>5, EvalAssumption DEF Raise, CrashedRow, row
    <2>. QED BY <2>1, <2>2, FutureKeeps
<1>6. CASE CannotBuild(w)
    <2>. DEFINE row == NoGraph(busy[w])
    <2>1. busy[w] # 0 /\ row \in Futures /\ row.question_id = busy[w] /\ OfThisStart(row)
        BY <1>2, <1>6 DEF CannotBuild, NoGraph
    <2>. HIDE DEF row
    <2>2. /\ done' = done \cup {row} /\ busy' = [busy EXCEPT ![w] = 0]
          /\ crashes' \in 0 .. MaxCrashes
          /\ UNCHANGED <<file, phase, conf, kept, todo, launches, last>>
        BY <1>0, <1>6, EvalAssumption DEF CannotBuild, row
    <2>. QED BY <2>1, <2>2, FutureKeeps
<1>. QED BY <1>1, <1>3, <1>4, <1>5, <1>6 DEF Work

\* A line joins the others.
LEMMA LineJoins ==
    ASSUME NEW R, NEW lines \in Seq(R), NEW row \in R
    PROVE  /\ Append(lines, row) \in Seq(R)
           /\ Elements(Append(lines, row)) = Elements(lines) \cup {row}
           /\ QuestionsOf(Append(lines, row)) = QuestionsOf(lines) \cup {row.question_id}
           /\ OncePerQuestion(lines) /\ row.question_id \notin QuestionsOf(lines) =>
                  OncePerQuestion(Append(lines, row))
<1>. DEFINE t == Append(lines, row)
            n == Len(lines)
<1>1. /\ n \in Nat /\ DOMAIN lines = 1 .. n /\ DOMAIN t = 1 .. (n + 1) /\ t \in Seq(R)
      /\ t[n + 1] = row /\ \A i \in 1 .. n : t[i] = lines[i]
    OBVIOUS
<1>. HIDE DEF t, n
<1>2. Elements(t) = Elements(lines) \cup {row}
    BY <1>1 DEF Elements
<1>3. QuestionsOf(t) = QuestionsOf(lines) \cup {row.question_id}
    BY <1>2 DEF QuestionsOf
<1>4. ASSUME OncePerQuestion(lines), row.question_id \notin QuestionsOf(lines)
      PROVE  OncePerQuestion(t)
    <2>1. \A i \in 1 .. n : t[i].question_id # row.question_id
        BY <1>1, <1>4 DEF QuestionsOf, Elements
    <2>. QED BY <1>1, <1>4, <2>1 DEF OncePerQuestion
<1>. QED BY <1>1, <1>2, <1>3, <1>4 DEF t

\* The main thread appends the line of a future and forgets the future.
LEMMA LineKeeps ==
    ASSUME WhyTheArtifactStands, NEW row \in done, phase = "serving", row.outcome # "raised",
           file' = WithLine(file, row), done' = done \ {row},
           UNCHANGED <<phase, conf, kept, todo, busy, crashes, launches, last>>
    PROVE  WhyTheArtifactStands'
<1>0. /\ file \in [exists : BOOLEAN, lines : Seq(Rows), open : {FALSE}]
      /\ row \in Futures /\ row \in Rows /\ kept = <<>>
    <2>1. row \in Futures
        BY DEF WhyTheArtifactStands, PhaseHolds
    <2>2. row \in Rows
        BY <2>1 DEF Futures, Rows
    <2>. QED BY <2>1, <2>2 DEF WhyTheArtifactStands, FileIsWhole, PhaseHolds
<1>1. /\ file' \in [exists : BOOLEAN, lines : Seq(Rows), open : {FALSE}]
      /\ file'.lines = Append(file.lines, row) /\ file'.exists = file.exists
    <2>1. file.open = FALSE /\ Append(file.lines, row) \in Seq(Rows)
        <3>1. file.lines \in Seq(Rows) /\ file.open = FALSE
            BY <1>0
        <3>. QED BY <1>0, <3>1, LineJoins, Zenon
    <2>2. file' = [file EXCEPT !.lines = Append(file.lines, row)]
        BY <2>1 DEF WithLine
    <2>. QED BY <1>0, <2>1, <2>2
<1>2. /\ Elements(file'.lines) = Elements(file.lines) \cup {row}
      /\ QuestionsOf(file'.lines) = QuestionsOf(file.lines) \cup {row.question_id}
      /\ OncePerQuestion(file.lines) /\ row.question_id \notin QuestionsOf(file.lines) =>
            OncePerQuestion(file'.lines)
    BY <1>0, <1>1, LineJoins
<1>3. /\ Elements(file.lines)' = Elements(file'.lines)
      /\ QuestionsOf(file.lines)' = QuestionsOf(file'.lines)
      /\ OncePerQuestion(file.lines)' <=> OncePerQuestion(file'.lines)
      /\ Elements(kept)' = Elements(kept) /\ Elements(todo)' = Elements(todo)
      /\ Elements(kept) = {}
    BY <1>0 DEF Elements, QuestionsOf, OncePerQuestion
<1>4. TypeOK'
    BY <1>0, <1>1, <1>2, <1>3 DEF WhyTheArtifactStands, TypeOK
<1>5. FileIsWhole' /\ PhaseHolds'
    <2>1. file.exists
        BY <1>0 DEF WhyTheArtifactStands, FileIsWhole, PhaseHolds
    <2>. QED BY <1>1, <2>1 DEF WhyTheArtifactStands, FileIsWhole, PhaseHolds, AtRest
<1>6. EveryQuestionHasItsPlace'
    <2>1. /\ Secured = file.lines /\ Covered(conf.limit)' = Covered(conf.limit)
          /\ QuestionsOf(Secured)' = QuestionsOf(file'.lines) /\ Asked' = Asked
        BY <1>3 DEF Secured, Covered, Asked
    <2>2. Answered' = Answered \ {row.question_id} /\ row.question_id \in Answered
        BY DEF WhyTheArtifactStands, EveryQuestionHasItsPlace, Answered
    <2>3. OncePerQuestion(kept)'
        BY DEF OncePerQuestion, WhyTheArtifactStands, EveryQuestionHasItsPlace
    <2>4. row.question_id \notin QuestionsOf(file.lines)
        BY <2>1, <2>2 DEF WhyTheArtifactStands, EveryQuestionHasItsPlace
    <2>. QED BY <1>2, <1>3, <2>1, <2>2, <2>3, <2>4
           DEF WhyTheArtifactStands, EveryQuestionHasItsPlace
<1>7. RowsAreOfOneTreatment'
    <2>1. PaidFor(file.lines, kept)' \subseteq PaidFor(file.lines, kept) \cup {row}
        BY <1>2, <1>3 DEF PaidFor
    <2>2. /\ \A r \in PaidFor(file.lines, kept) \cup done : OfThisStart(r)
          /\ conf' = conf
        BY DEF WhyTheArtifactStands, RowsAreOfOneTreatment
    <2>3. \A r \in PaidFor(file.lines, kept)' : OfThisStart(r)
        BY <2>1, <2>2
    <2>4. \A r \in PaidFor(file.lines, kept)' \cup done' : OfThisStart(r)'
        BY <2>2, <2>3 DEF OfThisStart
    <2>5. \A r1, r2 \in PaidFor(file.lines, kept)' : OfOneTreatment(r1, r2)
        BY <2>3 DEF OfThisStart, OfOneTreatment
    <2>. QED BY <2>4, <2>5 DEF RowsAreOfOneTreatment, OfOneTreatment
<1>8. MemoryIsTheFile' /\ ReportStands' /\ ReportCoversTheArm'
    BY DEF WhyTheArtifactStands, PhaseHolds, MemoryIsTheFile, ReportStands, ReportCoversTheArm
<1>. QED BY <1>4, <1>5, <1>6, <1>7, <1>8 DEF WhyTheArtifactStands

\* When nothing is left to ask, every covered question has its line, and there is no other.
LEMMA ReportKeeps ==
    ASSUME WhyTheArtifactStands, Report
    PROVE  WhyTheArtifactStands'
<1>. DEFINE readable == \A line \in Elements(file.lines) : Readable(line)
            once == Cardinality(QuestionsOf(file.lines)) = Len(file.lines)
            how == CASE ~(readable /\ once) -> "report_raised"
                     [] readable /\ once /\ quotable(file.lines) -> "quotable"
                     [] OTHER -> "reported"
<1>1. /\ phase = "reporting" /\ Ends(how) /\ UNCHANGED <<file, conf, launches>>
    BY DEF Report
<1>2. /\ file.lines \in Seq(Rows) /\ conf \in Confs /\ OncePerQuestion(file.lines)
    BY DEF WhyTheArtifactStands, FileIsWhole, TypeOK, EveryQuestionHasItsPlace
<1>3. readable
    <2>1. Elements(file.lines) \subseteq Rows
        BY <1>2, Members
    <2>. QED BY <2>1 DEF Readable, Rows, Outcomes
<1>4. once
    BY <1>2, LinesAreCounted
<1>5. QuestionsOf(file.lines) = Covered(conf.limit)
    <2>1. Answered = {} /\ Asked = {} /\ Elements(todo) = {} /\ Secured = file.lines
        BY <1>1 DEF WhyTheArtifactStands, PhaseHolds, AtRest, Answered, Asked, Elements, Secured
    <2>. QED BY <1>1, <2>1 DEF WhyTheArtifactStands, EveryQuestionHasItsPlace
<1>6. Len(file.lines) = conf.limit
    <2>1. conf.limit \in Nat
        BY <1>2, LimitsAreCounts DEF Confs
    <2>2. Cardinality(Covered(conf.limit)) = conf.limit
        BY <2>1, FS_Interval DEF Covered
    <2>. QED BY <1>4, <1>5, <2>2
<1>7. how \in {"quotable", "reported"}
    BY <1>3, <1>4, Zenon
<1>. HIDE DEF how
<1>. QED BY <1>1, <1>5, <1>6, <1>7, EndsKeep

\* The steps of the main thread.
LEMMA MainKeeps ==
    ASSUME WhyTheArtifactStands, Main
    PROVE  WhyTheArtifactStands'
<1>0. file \in [exists : BOOLEAN, lines : Seq(Rows), open : {FALSE}]
    BY DEF WhyTheArtifactStands, FileIsWhole
<1>1. CASE Resume
    BY <1>1, ResumeKeeps
<1>2. CASE Empty \/ Rewrite
    BY <1>2, RewriteKeeps
<1>3. CASE Open
    <2>1. CASE Ends("nothing_to_do") /\ UNCHANGED <<file, conf, launches>>
        BY <1>3, <2>1, EndsKeep DEF Open
    <2>2. CASE file' = [file EXCEPT !.exists = TRUE] /\ phase' = "serving"
        <3>1. file' \in [exists : BOOLEAN, lines : Seq(Rows), open : {FALSE}]
            BY <1>0, <2>2
        <3>2. file'.lines = file.lines /\ file'.exists
            BY <1>0, <2>2
        <3>3. /\ phase = "opening" /\ phase' = "serving"
              /\ UNCHANGED <<conf, kept, todo, busy, done, crashes, launches, last>>
            BY <1>3, <2>2 DEF Open, Ends
        <3>. QED BY <3>1, <3>2, <3>3, PhaseMoves
    <2>. QED BY <1>3, <2>1, <2>2 DEF Open
<1>4. ASSUME phase = "serving", ArmRaises PROVE WhyTheArtifactStands'
    <2>1. CASE Ends("arm_raised") /\ UNCHANGED <<file, conf, launches>>
        BY <1>4, <2>1, EndsKeep
    <2>2. CASE /\ phase' = "draining"
               /\ UNCHANGED <<file, conf, kept, todo, busy, done, crashes, launches, last>>
        <3>1. file.exists
            BY <1>4 DEF WhyTheArtifactStands, FileIsWhole
        <3>. QED BY <1>0, <1>4, <2>2, <3>1, PhaseMoves
    <2>. QED BY <1>4, <2>1, <2>2 DEF ArmRaises
<1>5. ASSUME NEW row \in done, Take(row) \/ WriterRaises(row) PROVE WhyTheArtifactStands'
    <2>1. CASE ArmRaises
        BY <1>4, <1>5, <2>1 DEF Take, WriterRaises
    <2>2. CASE ~ArmRaises
        BY <1>5, <2>2, LineKeeps DEF Take, WriterRaises
    <2>. QED BY <2>1, <2>2
<1>6. CASE Drained
    BY <1>6, EndsKeep DEF Drained
<1>7. CASE Close
    <2>1. file.exists /\ AtRest
        BY <1>7 DEF WhyTheArtifactStands, FileIsWhole, Close, AtRest
    <2>. QED BY <1>0, <1>7, <2>1, PhaseMoves DEF Close
<1>8. CASE Report
    BY <1>8, ReportKeeps
<1>. QED BY <1>1, <1>2, <1>3, <1>5, <1>6, <1>7, <1>8 DEF Main

\* Every step of Next keeps the invariant.
LEMMA StepKeeps == WhyTheArtifactStands /\ [Next]_vars => WhyTheArtifactStands'
<1>. SUFFICES ASSUME WhyTheArtifactStands, [Next]_vars PROVE WhyTheArtifactStands'
    OBVIOUS
<1>1. CASE Start
    BY <1>1, LaunchKeeps DEF Start
<1>2. ASSUME NEW w \in Workers, Work(w) PROVE WhyTheArtifactStands'
    BY <1>2, WorkKeeps
<1>3. CASE Main
    BY <1>3, MainKeeps
<1>4. CASE Kill
    BY <1>4, EndsKeep DEF Kill
<1>5. CASE UNCHANGED vars
    <2>. USE <1>5 DEF vars
    <2>1. /\ Secured' = Secured /\ Answered' = Answered /\ Asked' = Asked /\ (AtRest' <=> AtRest)
          /\ Elements(todo)' = Elements(todo) /\ Elements(kept)' = Elements(kept)
          /\ Elements(file.lines)' = Elements(file.lines)
          /\ QuestionsOf(file.lines)' = QuestionsOf(file.lines)
          /\ Covered(conf.limit)' = Covered(conf.limit)
        BY DEF Secured, Answered, Asked, AtRest, Elements, QuestionsOf, Covered
    <2>2. QuestionsOf(Secured)' = QuestionsOf(Secured)
        BY <2>1 DEF QuestionsOf, Elements
    <2>3. TypeOK' /\ FileIsWhole' /\ PhaseHolds'
        BY <2>1 DEF WhyTheArtifactStands, TypeOK, FileIsWhole, PhaseHolds
    <2>4. EveryQuestionHasItsPlace'
        BY <2>1, <2>2 DEF WhyTheArtifactStands, EveryQuestionHasItsPlace, OncePerQuestion
    <2>5. RowsAreOfOneTreatment'
        BY <2>1 DEF WhyTheArtifactStands, RowsAreOfOneTreatment, PaidFor, OfOneTreatment, OfThisStart
    <2>6. MemoryIsTheFile' /\ ReportStands' /\ ReportCoversTheArm'
        BY <2>1 DEF WhyTheArtifactStands, MemoryIsTheFile, ReportStands, ReportCoversTheArm
    <2>. QED BY <2>3, <2>4, <2>5, <2>6 DEF WhyTheArtifactStands
<1>. QED BY <1>1, <1>2, <1>3, <1>4, <1>5 DEF Next

----------------------------------------------------------------------------
(***************************************************************************)
(* However often the driver is started, stopped and killed, but inside the *)
(* writing of a line, the file is whole rows of one treatment, one per     *)
(* question.                                                               *)
(***************************************************************************)
THEOREM EvalInvariance == Spec => []WhyTheArtifactStands
BY Starts, StepKeeps, PTL DEF Spec

\* Every variable of the driver keeps its type.
THEOREM EvalTypeCorrect == Spec => []TypeOK
<1>1. WhyTheArtifactStands => TypeOK
    BY DEF WhyTheArtifactStands
<1>. QED BY <1>1, EvalInvariance, PTL

(***************************************************************************)
(* A report that is printed is over the arm: one line for each covered     *)
(* question, all readable; and no report raises.                           *)
(***************************************************************************)
THEOREM ReportsCoverTheArm == Spec => []ReportCoversTheArm
<1>1. WhyTheArtifactStands => ReportCoversTheArm
    BY DEF WhyTheArtifactStands
<1>. QED BY <1>1, EvalInvariance, PTL

(***************************************************************************)
(* The measured rows of the artifact share their comparability knob, and   *)
(* those that name a corpus name one, whatever the starts were given.      *)
(***************************************************************************)
THEOREM TreatmentsStayApart == Spec => []OneTreatmentPerArtifact
<1>1. WhyTheArtifactStands => OneTreatmentPerArtifact
    <2>. SUFFICES ASSUME WhyTheArtifactStands PROVE OneTreatmentPerArtifact
        OBVIOUS
    <2>. DEFINE rows == {line \in Elements(file.lines) : Measured(line)}
                corpora == {row.corpus_content_hash : row \in rows} \ {Unstamped}
                top_ns == {row.top_n : row \in rows}
    <2>1. \A r1, r2 \in rows : OfOneTreatment(r1, r2)
        BY DEF WhyTheArtifactStands, RowsAreOfOneTreatment, PaidFor
    <2>2. \A x, y \in corpora : x = y
        BY <2>1 DEF OfOneTreatment
    <2>3. \A x, y \in top_ns : x = y
        BY <2>1 DEF OfOneTreatment
    <2>4. Cardinality(corpora) <= 1 /\ Cardinality(top_ns) <= 1
        <3>. HIDE DEF corpora, top_ns
        <3>. QED BY <2>2, <2>3, AtMostOne
    <2>. QED BY <2>4 DEF OneTreatmentPerArtifact
<1>. QED BY <1>1, EvalInvariance, PTL

(***************************************************************************)
(* Two steps take a measured row from the file and from memory: a start    *)
(* with --truncate, and the death of a resume between the emptying of the  *)
(* file and its writing.  What a resume that lives rewrites it keeps.      *)
(***************************************************************************)
THEOREM PaidRowsSurvive == Spec => MeasuredRowsSurvive
<1>. DEFINE Survive == \/ PaidFor(file.lines, kept) \subseteq PaidFor(file'.lines, kept')
                       \/ Truncated \/ DiesRewriting
<1>1. ASSUME WhyTheArtifactStands, [Next]_vars PROVE [Survive]_vars
    <2>0. /\ file \in [exists : BOOLEAN, lines : Seq(Rows), open : {FALSE}]
          /\ phase \notin {"rewriting", "rewritten"} => kept = <<>>
          /\ phase = "rewritten" => file.lines = <<>> /\ conf.resume
          /\ ~file.exists => file.lines = <<>>
          /\ done \subseteq Futures
        BY <1>1 DEF WhyTheArtifactStands, FileIsWhole, PhaseHolds
    <2>1. Elements(<<>>) = {}
        BY DEF Elements
    <2>2. ASSUME NEW how, Ends(how), file' = file, phase # "rewritten" PROVE Survive
        <3>1. PaidFor(file.lines, kept) \subseteq Elements(file.lines)
            BY <1>1, <2>0, <2>1, <2>2 DEF WhyTheArtifactStands, MemoryIsTheFile, PaidFor, TypeOK
        <3>. QED BY <2>2, <3>1 DEF PaidFor
    <2>3. CASE file'.lines = file.lines /\ kept' = kept
        BY <2>3
    <2>4. CASE Start
        <3>1. PICK c \in Confs, truncate \in BOOLEAN : Launch(c, truncate)
            BY <2>4 DEF Start
        <3>2. /\ conf' = c /\ kept' = kept /\ phase = "idle" /\ phase' = "resuming"
              /\ ~(c.resume /\ truncate) /\ ~append_refusal(c.resume, truncate)
              /\ file' = IF truncate /\ file.exists THEN Emptied(file) ELSE file
            BY <3>1 DEF Launch, flag_conflict
        <3>3. CASE truncate /\ file.exists
            <4>1. file'.lines = <<>>
                BY <2>0, <3>2, <3>3 DEF Emptied
            <4>. QED BY <3>2, <3>3, <4>1 DEF Truncated
        <3>4. CASE ~(truncate /\ file.exists)
            BY <3>2, <3>4
        <3>. QED BY <3>3, <3>4
    <2>5. ASSUME NEW w \in Workers, Work(w) PROVE Survive
        <3>1. CASE Ends("arm_raised") /\ file' = file
            <4>1. phase # "rewritten"
                BY <1>1, <2>5 DEF Work, Begin, Answer, Raise, CannotBuild,
                   WhyTheArtifactStands, PhaseHolds, TypeOK, Asked
            <4>. QED BY <2>2, <3>1, <4>1
        <3>2. CASE UNCHANGED <<file, kept>>
            BY <3>2
        <3>. QED BY <2>5, <3>1, <3>2 DEF Work, Begin, Answer, Raise, CannotBuild
    <2>6. CASE Resume
        <3>1. phase = "resuming" /\ file' = file /\ kept = <<>>
            BY <2>0, <2>6 DEF Resume
        <3>. QED BY <2>1, <3>1 DEF PaidFor
    <2>7. CASE Empty
        <3>1. phase = "rewriting" /\ kept' = kept
            BY <2>7 DEF Empty
        <3>2. PaidFor(file.lines, kept) \subseteq Elements(kept)
            BY <1>1, <3>1 DEF WhyTheArtifactStands, MemoryIsTheFile, PaidFor
        <3>. QED BY <3>1, <3>2 DEF PaidFor
    <2>8. CASE Rewrite
        <3>1. phase = "rewritten" /\ file.lines = <<>>
            BY <2>0, <2>8 DEF Rewrite
        <3>2. file'.lines = kept
            BY <2>0, <2>8 DEF Rewrite
        <3>. QED BY <2>1, <3>1, <3>2 DEF PaidFor
    <2>9. CASE Open
        <3>1. phase = "opening"
            BY <2>9 DEF Open
        <3>2. \/ Ends("nothing_to_do") /\ file' = file
              \/ file'.lines = file.lines /\ kept' = kept
            BY <2>0, <2>9 DEF Open
        <3>. QED BY <2>2, <2>3, <3>1, <3>2
    <2>10. ASSUME NEW row \in done, Take(row) \/ WriterRaises(row) PROVE Survive
        <3>1. phase = "serving"
            BY <2>10 DEF Take, WriterRaises
        <3>2. CASE ArmRaises
            BY <2>2, <3>1, <3>2 DEF ArmRaises
        <3>3. CASE ~ArmRaises
            <4>1. file' = WithLine(file, row) /\ row.outcome # "raised" /\ kept' = kept
                BY <2>10, <3>3 DEF Take, WriterRaises
            <4>2. row \in Rows /\ file.lines \in Seq(Rows) /\ file.open = FALSE
                BY <2>0, <4>1 DEF Futures, Rows
            <4>3. file' = [file EXCEPT !.lines = Append(file.lines, row)]
                BY <4>1, <4>2 DEF WithLine
            <4>4. file'.lines = Append(file.lines, row)
                BY <2>0, <4>3
            <4>5. Elements(file'.lines) = Elements(file.lines) \cup {row}
                BY <4>2, <4>4, LineJoins
            <4>. QED BY <4>1, <4>5 DEF PaidFor
        <3>. QED BY <3>2, <3>3
    <2>11. CASE Drained \/ Report \/ Kill
        <3>1. file' = file /\ \E how : Ends(how)
            BY <2>11 DEF Drained, Report, Kill
        <3>2. CASE phase = "rewritten"
            <4>1. Kill
                BY <2>11, <3>2 DEF Drained, Report
            <4>2. last' = "killed"
                BY <4>1 DEF Kill, Ends
            <4>. QED BY <2>0, <3>2, <4>2 DEF DiesRewriting
        <3>. QED BY <2>2, <3>1, <3>2
    <2>12. CASE Close
        BY <2>3, <2>12 DEF Close
    <2>13. CASE UNCHANGED vars
        BY <2>13
    <2>. QED BY <1>1, <2>4, <2>5, <2>6, <2>7, <2>8, <2>9, <2>10, <2>11, <2>12, <2>13 DEF Next, Main
<1>. QED BY <1>1, EvalInvariance, PTL DEF Spec, MeasuredRowsSurvive
================================================================================
