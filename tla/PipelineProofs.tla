--------------------------- MODULE PipelineProofs ---------------------------
(***************************************************************************)
(* Theorems about the pipeline, for any goals, configurations and lossy    *)
(* networks: what the planner guarantees about its plans and about its     *)
(* answers to replanning, carried through the executor's loop; and that a  *)
(* run is determined by its job.                                           *)
(***************************************************************************)
EXTENDS Pipeline, ExecutorTraceProofs

-----------------------------------------------------------------------------
(* The pieces of a plan, as a set. *)

Given(condition, piece) == IF condition THEN {piece} ELSE {}

WorkSet(goal, config, failure) ==
  LET timeout == RequestTimeout(config, failure)
      posts   == Has(goal, {"post"})
      url     == HttpUrl(goal)
  IN  Given(posts, PostPiece(goal, timeout))
      \cup Given(url # "none" /\ ~(url = "/submit" /\ posts), GetPiece(goal, failure, timeout))
      \cup Given(Has(goal, {"db"}), DbPiece(goal))
      \cup Given(WantsCalc(goal), CalcPiece(goal))
      \cup Given(Has(goal, {"write"}), WritePiece(goal))

PieceSet(goal, config, failure) ==
  LET work == WorkSet(goal, config, failure)
  IN  IF Has(goal, {"bad tool"})
      THEN {Piece("non_existent_tool", "note", 0, 1, FALSE, {})}
      ELSE IF Has(goal, {"bad args"})
      THEN {Piece("calc", "bad shape", 0, 1, FALSE, {})}
      ELSE work
           \cup Given(Has(goal, {"summary"}) \/ work = {}, SummarizePiece)
           \cup Given(Has(goal, {"long plan"}), LongPlanPiece)
           \cup Given(Has(goal, {"early stop"}), ExtraPiece)

(* Sequences by their elements. *)
IsSequence(s) == s \in Seq(Range(s))

Postless(s) == \A x \in Range(s) : x.tool # "http_post"

(* Only the first step may be a submission. *)
PostsFirst(s) == \A i \in 2..Len(s) : s[i].tool # "http_post"

LEMMA EmptyRange ==
  ASSUME NEW s, IsSequence(s)
  PROVE  s = << >> <=> Range(s) = {}
<1>1. Range(s) = {s[i] : i \in 1..Len(s)}
  BY RangeEquality DEF IsSequence
<1>2. Len(s) \in Nat /\ (s = << >> <=> Len(s) = 0)
  BY EmptySeq, LenProperties DEF IsSequence
<1>3. Len(s) # 0 => s[1] \in Range(s)
  BY <1>1, <1>2
<1>4. Len(s) = 0 => Range(s) = {}
  BY <1>1
<1> QED
  BY <1>2, <1>3, <1>4

(* The elements of the shortest sequences. *)
LEMMA ShortRange ==
  /\ IsSequence(<< >>) /\ Range(<< >>) = {} /\ Len(<< >>) = 0
  /\ \A x : IsSequence(<<x>>) /\ Range(<<x>>) = {x} /\ Len(<<x>>) = 1
<1>1. IsSequence(<< >>) /\ Range(<< >>) = {} /\ Len(<< >>) = 0
  <2>1. << >> \in Seq({}) /\ Len(<< >>) = 0
    BY EmptySeq
  <2>2. Range(<< >>) = {<< >>[i] : i \in 1..Len(<< >>)}
    BY <2>1, RangeEquality
  <2>3. Range(<< >>) = {}
    BY <2>1, <2>2
  <2> QED
    BY <2>1, <2>3 DEF IsSequence
<1>2. ASSUME NEW x
      PROVE  IsSequence(<<x>>) /\ Range(<<x>>) = {x} /\ Len(<<x>>) = 1
  <2>1. <<x>> \in Seq({x}) /\ Len(<<x>>) = 1
    OBVIOUS
  <2>2. Range(<<x>>) = {<<x>>[i] : i \in 1..Len(<<x>>)}
    BY <2>1, RangeEquality
  <2>3. Range(<<x>>) = {x}
    BY <2>1, <2>2
  <2> QED
    BY <2>1, <2>3 DEF IsSequence
<1> QED
  BY <1>1, <1>2

LEMMA WhenRange ==
  ASSUME NEW c, NEW x
  PROVE  /\ IsSequence(When(c, x)) /\ Range(When(c, x)) = Given(c, x)
         /\ Len(When(c, x)) \in Nat /\ Len(When(c, x)) <= 1 /\ PostsFirst(When(c, x))
<1>0. Len(When(c, x)) \in Nat /\ Len(When(c, x)) <= 1
  BY ShortRange DEF When
<1>1. ASSUME c
      PROVE  IsSequence(When(c, x)) /\ Range(When(c, x)) = Given(c, x)
  <2>1. When(c, x) = <<x>> /\ Given(c, x) = {x}
    BY <1>1 DEF When, Given
  <2> QED
    BY <2>1, ShortRange
<1>2. ASSUME ~c
      PROVE  IsSequence(When(c, x)) /\ Range(When(c, x)) = Given(c, x)
  <2>1. When(c, x) = << >> /\ Given(c, x) = {}
    BY <1>2 DEF When, Given
  <2> QED
    BY <2>1, ShortRange
<1>3. PostsFirst(When(c, x))
  BY <1>0 DEF PostsFirst
<1> QED
  BY <1>0, <1>1, <1>2, <1>3

LEMMA JoinedRange ==
  ASSUME NEW s, NEW t, IsSequence(s), IsSequence(t)
  PROVE  IsSequence(s \o t) /\ Range(s \o t) = Range(s) \cup Range(t)
<1> DEFINE S == Range(s) \cup Range(t)
<1>1. s \in Seq(S) /\ t \in Seq(S)
  <2>1. \A A, B : A \subseteq B => Seq(A) \subseteq Seq(B)
    OBVIOUS
  <2> QED
    BY <2>1 DEF IsSequence
<1>2. Range(s \o t) = S
  BY <1>1, RangeConcatenation
<1>3. s \o t \in Seq(S)
  BY <1>1, ConcatProperties
<1> QED
  BY <1>2, <1>3 DEF IsSequence

LEMMA JoinedFirst ==
  ASSUME NEW s, NEW t, IsSequence(s), IsSequence(t)
  PROVE  /\ Len(s) \in Nat /\ Len(t) \in Nat /\ Len(s \o t) = Len(s) + Len(t)
         /\ PostsFirst(s) /\ Postless(t) => PostsFirst(s \o t)
<1> DEFINE S == Range(s) \cup Range(t)
<1>1. s \in Seq(S) /\ t \in Seq(S)
  <2>1. \A A, B : A \subseteq B => Seq(A) \subseteq Seq(B)
    OBVIOUS
  <2> QED
    BY <2>1 DEF IsSequence
<1> HIDE DEF S
<1>2. /\ Len(s) \in Nat /\ Len(t) \in Nat /\ Len(s \o t) = Len(s) + Len(t)
      /\ \A i \in 1..Len(s) : (s \o t)[i] = s[i]
      /\ \A i \in (Len(s) + 1)..(Len(s) + Len(t)) : (s \o t)[i] = t[i - Len(s)]
  BY <1>1, Joined
<1>3. ASSUME PostsFirst(s), Postless(t), NEW i \in 2..Len(s \o t)
      PROVE  (s \o t)[i].tool # "http_post"
  <2>1. CASE i <= Len(s)
    BY <1>2, <1>3, <2>1 DEF PostsFirst
  <2>2. CASE i > Len(s)
    <3>1. (s \o t)[i] = t[i - Len(s)] /\ i - Len(s) \in 1..Len(t)
      BY <1>2, <2>2
    <3>2. t[i - Len(s)] \in Range(t)
      BY <3>1, RangeEquality DEF IsSequence
    <3> QED
      BY <1>3, <3>1, <3>2 DEF Postless
  <2> QED
    BY <1>2, <2>1, <2>2
<1> QED
  BY <1>2, <1>3 DEF PostsFirst

LEMMA LongRange ==
  ASSUME NEW x
  PROVE  /\ IsSequence([i \in 1..10 |-> x]) /\ Range([i \in 1..10 |-> x]) = {x}
         /\ Len([i \in 1..10 |-> x]) = 10
<1> DEFINE s == [i \in 1..10 |-> x]
<1>1. s \in Seq({x}) /\ Len(s) = 10
  OBVIOUS
<1>2. Range(s) = {s[i] : i \in 1..Len(s)}
  BY <1>1, RangeEquality
<1>3. 1 \in 1..10 /\ \A i \in 1..10 : s[i] = x
  OBVIOUS
<1> HIDE DEF s
<1>4. Range(s) = {x}
  BY <1>1, <1>2, <1>3
<1> QED
  BY <1>1, <1>4 DEF IsSequence, s

(* The fields of the pieces that decide anything. *)
LEMMA PieceFields ==
  ASSUME NEW goal, NEW failure, NEW timeout
  PROVE  /\ PostPiece(goal, timeout).tool = "http_post"
         /\ PostPiece(goal, timeout).args.target = HttpUrl(goal)
         /\ PostPiece(goal, timeout).fallback = {}
         /\ GetPiece(goal, failure, timeout).tool = "http_get"
         /\ GetPiece(goal, failure, timeout).args.target =
              IF failure = "schema_error" /\ HttpUrl(goal) = "/malformed"
              THEN "/data" ELSE HttpUrl(goal)
         /\ GetPiece(goal, failure, timeout).fallback =
              IF Has(goal, {"malformed"}) THEN {"replan"} ELSE {}
         /\ DbPiece(goal).tool = "db_query"
         /\ CalcPiece(goal).tool = "calc"
         /\ WritePiece(goal).tool = "file_write"
         /\ SummarizePiece.tool = "summarize"
         /\ LongPlanPiece.tool = "calc"
         /\ ExtraPiece.tool = "summarize"
         /\ Piece("non_existent_tool", "note", 0, 1, FALSE, {}).tool = "non_existent_tool"
         /\ Piece("calc", "bad shape", 0, 1, FALSE, {}).tool = "calc"
  BY DEF Piece, PostPiece, GetPiece, DbPiece, CalcPiece, WritePiece, SummarizePiece,
     LongPlanPiece, ExtraPiece

(* The work of a plan is made of the pieces its goal gives; a submission   *)
(* comes first.                                                            *)
LEMMA WorkRange ==
  ASSUME NEW goal, NEW config, NEW failure
  PROVE  /\ IsSequence(Work(goal, config, failure))
         /\ Range(Work(goal, config, failure)) = WorkSet(goal, config, failure)
         /\ Len(Work(goal, config, failure)) <= 5
         /\ PostsFirst(Work(goal, config, failure))
<1> DEFINE timeout == RequestTimeout(config, failure)
           posts   == Has(goal, {"post"})
           gets    == HttpUrl(goal) # "none" /\ ~(HttpUrl(goal) = "/submit" /\ posts)
           a == When(posts, PostPiece(goal, timeout))
           b == When(gets, GetPiece(goal, failure, timeout))
           c == When(Has(goal, {"db"}), DbPiece(goal))
           d == When(WantsCalc(goal), CalcPiece(goal))
           e == When(Has(goal, {"write"}), WritePiece(goal))
<1>1. IsSequence(a) /\ Range(a) = Given(posts, PostPiece(goal, timeout))
      /\ Len(a) \in Nat /\ Len(a) <= 1
      /\ PostsFirst(a)
  BY WhenRange
<1>2. IsSequence(b) /\ Range(b) = Given(gets, GetPiece(goal, failure, timeout))
      /\ Len(b) \in Nat /\ Len(b) <= 1
  BY WhenRange
<1>3. IsSequence(c) /\ Range(c) = Given(Has(goal, {"db"}), DbPiece(goal))
      /\ Len(c) \in Nat /\ Len(c) <= 1
  BY WhenRange
<1>4. IsSequence(d) /\ Range(d) = Given(WantsCalc(goal), CalcPiece(goal))
      /\ Len(d) \in Nat /\ Len(d) <= 1
  BY WhenRange
<1>5. IsSequence(e) /\ Range(e) = Given(Has(goal, {"write"}), WritePiece(goal))
      /\ Len(e) \in Nat /\ Len(e) <= 1
  BY WhenRange
<1>6. Work(goal, config, failure) = a \o b \o c \o d \o e
  BY DEF Work
<1>7. WorkSet(goal, config, failure) = Range(a) \cup Range(b) \cup Range(c) \cup Range(d) \cup Range(e)
  BY <1>1, <1>2, <1>3, <1>4, <1>5 DEF WorkSet
<1>8. Postless(b) /\ Postless(c) /\ Postless(d) /\ Postless(e)
  BY <1>2, <1>3, <1>4, <1>5, PieceFields DEF Postless, Given
<1> HIDE DEF a, b, c, d, e
<1>9. /\ IsSequence(a \o b) /\ IsSequence(a \o b \o c) /\ IsSequence(a \o b \o c \o d)
      /\ IsSequence(a \o b \o c \o d \o e)
      /\ Range(a \o b \o c \o d \o e)
           = Range(a) \cup Range(b) \cup Range(c) \cup Range(d) \cup Range(e)
  <2>1. IsSequence(a \o b) /\ Range(a \o b) = Range(a) \cup Range(b)
    BY <1>1, <1>2, JoinedRange
  <2>2. /\ IsSequence(a \o b \o c)
        /\ Range(a \o b \o c) = Range(a) \cup Range(b) \cup Range(c)
    BY <1>3, <2>1, JoinedRange
  <2>3. /\ IsSequence(a \o b \o c \o d)
        /\ Range(a \o b \o c \o d) = Range(a) \cup Range(b) \cup Range(c) \cup Range(d)
    BY <1>4, <2>2, JoinedRange
  <2> QED
    BY <1>5, <2>1, <2>2, <2>3, JoinedRange
<1>10. PostsFirst(a \o b) /\ Len(a \o b) = Len(a) + Len(b)
  BY <1>1, <1>2, <1>8, JoinedFirst
<1>11. PostsFirst(a \o b \o c) /\ Len(a \o b \o c) = Len(a \o b) + Len(c)
  BY <1>3, <1>8, <1>9, <1>10, JoinedFirst
<1>12. PostsFirst(a \o b \o c \o d) /\ Len(a \o b \o c \o d) = Len(a \o b \o c) + Len(d)
  BY <1>4, <1>8, <1>9, <1>11, JoinedFirst
<1>13. /\ PostsFirst(a \o b \o c \o d \o e)
       /\ Len(a \o b \o c \o d \o e) = Len(a \o b \o c \o d) + Len(e)
  BY <1>5, <1>8, <1>9, <1>12, JoinedFirst
<1>14. Len(a \o b \o c \o d \o e) <= 5
  <2>1. Len(a \o b) \in Nat /\ Len(a \o b) <= 2
    BY <1>1, <1>2, <1>10
  <2>2. Len(a \o b \o c) \in Nat /\ Len(a \o b \o c) <= 3
    BY <1>3, <1>11, <2>1
  <2>3. Len(a \o b \o c \o d) \in Nat /\ Len(a \o b \o c \o d) <= 4
    BY <1>4, <1>12, <2>2
  <2> QED
    BY <1>5, <1>13, <2>3
<1> QED
  BY <1>6, <1>7, <1>9, <1>13, <1>14

(* The whole plan is made of its pieces: it is not empty, has no more than *)
(* 17 steps, and at most the first one is a submission.                    *)
LEMMA PiecesRange ==
  ASSUME NEW goal, NEW config, NEW failure
  PROVE  /\ IsSequence(Pieces(goal, config, failure))
         /\ Range(Pieces(goal, config, failure)) = PieceSet(goal, config, failure)
         /\ Len(Pieces(goal, config, failure)) >= 1
         /\ Len(Pieces(goal, config, failure)) <= 17
         /\ PostsFirst(Pieces(goal, config, failure))
<1> DEFINE work == Work(goal, config, failure)
           b == When(Has(goal, {"summary"}) \/ work = << >>, SummarizePiece)
           c == IF Has(goal, {"long plan"}) THEN [i \in 1..10 |-> LongPlanPiece] ELSE << >>
           d == When(Has(goal, {"early stop"}), ExtraPiece)
<1>0. ASSUME NEW x
      PROVE  PostsFirst(<<x>>) /\ Len(<<x>>) >= 1 /\ Len(<<x>>) <= 17
  <2>1. Len(<<x>>) = 1
    BY ShortRange
  <2> QED
    BY <2>1 DEF PostsFirst
<1>1. CASE Has(goal, {"bad tool"})
  BY <1>0, <1>1, ShortRange DEF Pieces, PieceSet
<1>2. CASE ~Has(goal, {"bad tool"}) /\ Has(goal, {"bad args"})
  BY <1>0, <1>2, ShortRange DEF Pieces, PieceSet
<1>3. CASE ~Has(goal, {"bad tool"}) /\ ~Has(goal, {"bad args"})
  <2>1. /\ IsSequence(work) /\ Range(work) = WorkSet(goal, config, failure)
        /\ Len(work) <= 5 /\ Len(work) \in Nat /\ PostsFirst(work)
    BY WorkRange, LenProperties DEF IsSequence
  <2>2. work = << >> <=> WorkSet(goal, config, failure) = {}
    BY <2>1, EmptyRange
  <2>3. /\ IsSequence(b)
      /\ Len(b) \in Nat /\ Len(b) <= 1
        /\ Range(b) = Given(Has(goal, {"summary"}) \/ WorkSet(goal, config, failure) = {},
                            SummarizePiece)
    BY <2>2, WhenRange
  <2>4. /\ IsSequence(c) /\ Range(c) = Given(Has(goal, {"long plan"}), LongPlanPiece)
        /\ Len(c) \in Nat /\ Len(c) <= 10
    <3>1. ASSUME Has(goal, {"long plan"})
          PROVE  /\ IsSequence(c) /\ Range(c) = Given(Has(goal, {"long plan"}), LongPlanPiece)
                 /\ Len(c) = 10
      BY <3>1, LongRange DEF Given
    <3>2. ASSUME ~Has(goal, {"long plan"})
          PROVE  /\ IsSequence(c) /\ Range(c) = Given(Has(goal, {"long plan"}), LongPlanPiece)
                 /\ Len(c) = 0
      BY <3>2, ShortRange DEF Given
    <3> HIDE DEF c
    <3>3. Len(c) = 10 \/ Len(c) = 0
      BY <3>1, <3>2
    <3>4. Len(c) \in Nat /\ Len(c) <= 10
      <4>1. CASE Len(c) = 10
        BY <4>1
      <4>2. CASE Len(c) = 0
        BY <4>2
      <4> QED
        BY <3>3, <4>1, <4>2
    <3> QED
      BY <3>1, <3>2, <3>4
  <2>5. /\ IsSequence(d) /\ Range(d) = Given(Has(goal, {"early stop"}), ExtraPiece)
        /\ Len(d) \in Nat /\ Len(d) <= 1
    BY WhenRange
  <2>6. Pieces(goal, config, failure) = work \o b \o c \o d
    BY <1>3 DEF Pieces
  <2>7. PieceSet(goal, config, failure) = Range(work) \cup Range(b) \cup Range(c) \cup Range(d)
    BY <1>3, <2>1, <2>3, <2>4, <2>5 DEF PieceSet
  <2>8. Postless(b) /\ Postless(c) /\ Postless(d)
    BY <2>3, <2>4, <2>5, PieceFields DEF Postless, Given
  <2>9. Len(work) + Len(b) > 0
    <3>1. CASE work = << >>
      BY <3>1, <2>1, ShortRange DEF When
    <3>2. CASE work # << >>
      BY <3>2, <2>1, <2>3, EmptySeq, LenProperties DEF IsSequence
    <3> QED
      BY <3>1, <3>2
  <2> HIDE DEF work, b, c, d
  <2>10. /\ IsSequence(work \o b) /\ IsSequence(work \o b \o c)
         /\ IsSequence(work \o b \o c \o d)
         /\ Range(work \o b \o c \o d) = Range(work) \cup Range(b) \cup Range(c) \cup Range(d)
    <3>1. IsSequence(work \o b) /\ Range(work \o b) = Range(work) \cup Range(b)
      BY <2>1, <2>3, JoinedRange
    <3>2. /\ IsSequence(work \o b \o c)
          /\ Range(work \o b \o c) = Range(work) \cup Range(b) \cup Range(c)
      BY <2>4, <3>1, JoinedRange
    <3> QED
      BY <2>5, <3>1, <3>2, JoinedRange
  <2>11. PostsFirst(work \o b) /\ Len(work \o b) = Len(work) + Len(b)
    BY <2>1, <2>3, <2>8, JoinedFirst
  <2>12. PostsFirst(work \o b \o c) /\ Len(work \o b \o c) = Len(work \o b) + Len(c)
    BY <2>4, <2>8, <2>10, <2>11, JoinedFirst
  <2>13. /\ PostsFirst(work \o b \o c \o d)
         /\ Len(work \o b \o c \o d) = Len(work \o b \o c) + Len(d)
    BY <2>5, <2>8, <2>10, <2>12, JoinedFirst
  <2>14. Len(work \o b \o c \o d) >= 1 /\ Len(work \o b \o c \o d) <= 17
    <3>1. Len(work \o b) \in Nat /\ Len(work \o b) >= 1 /\ Len(work \o b) <= 6
      BY <2>1, <2>3, <2>9, <2>11
    <3>2. Len(c) \in Nat /\ Len(c) <= 10 /\ Len(d) \in Nat /\ Len(d) <= 1
      BY <2>4, <2>5
    <3>3. Len(work \o b \o c) = Len(work \o b) + Len(c)
      BY <2>12
    <3>4. Len(work \o b \o c) \in Nat /\ Len(work \o b \o c) >= 1 /\ Len(work \o b \o c) <= 16
      BY <3>1, <3>2, <3>3
    <3>5. Len(work \o b \o c \o d) = Len(work \o b \o c) + Len(d)
      BY <2>13
    <3> QED
      BY <3>2, <3>4, <3>5
  <2> QED
    BY <2>6, <2>7, <2>10, <2>13, <2>14
<1> QED
  BY <1>1, <1>2, <1>3

-----------------------------------------------------------------------------
(* What the pieces of a plan ask for. *)

(* After whatever failure, a plan asks for what it asked for before it,    *)
(* but for the malformed endpoint.                                         *)
Stands(x, y) ==
  /\ x.tool = y.tool /\ x.fallback = y.fallback
  /\ \/ x.args.target = y.args.target
     \/ x.tool = "http_get" /\ x.args.target = "/data" /\ y.args.target = "/malformed"

(* A goal's work is the same work after a failure. *)
LEMMA WorkStands ==
  ASSUME NEW goal, NEW config, NEW failure
  PROVE  /\ \A x \in WorkSet(goal, config, failure) :
              \E y \in WorkSet(goal, config, "none") : Stands(x, y)
         /\ WorkSet(goal, config, failure) = {} <=> WorkSet(goal, config, "none") = {}
<1> DEFINE t == RequestTimeout(config, failure)
           u == RequestTimeout(config, "none")
<1>1. Stands(PostPiece(goal, t), PostPiece(goal, u))
  BY PieceFields DEF Stands
<1>2. Stands(GetPiece(goal, failure, t), GetPiece(goal, "none", u))
  <2> DEFINE x == GetPiece(goal, failure, t)
             y == GetPiece(goal, "none", u)
  <2>1. /\ x.tool = "http_get" /\ y.tool = "http_get" /\ x.fallback = y.fallback
        /\ x.args.target = IF failure = "schema_error" /\ HttpUrl(goal) = "/malformed"
                           THEN "/data" ELSE HttpUrl(goal)
    BY DEF GetPiece, Piece
  <2>2. y.args.target = HttpUrl(goal)
    BY DEF GetPiece, Piece
  <2> HIDE DEF x, y
  <2>3. Stands(x, y)
    BY <2>1, <2>2 DEF Stands
  <2> QED
    BY <2>3 DEF x, y
<1>3. \A x : Stands(x, x)
  BY DEF Stands
<1> QED
  BY <1>1, <1>2, <1>3 DEF WorkSet, Given

LEMMA PiecesStand ==
  ASSUME NEW goal, NEW config, NEW failure
  PROVE  \A x \in PieceSet(goal, config, failure) :
           \E y \in PieceSet(goal, config, "none") : Stands(x, y)
<1>1. \A x : Stands(x, x)
  BY DEF Stands
<1>2. WorkSet(goal, config, failure) = {} <=> WorkSet(goal, config, "none") = {}
  BY WorkStands
<1>3. \A x \in WorkSet(goal, config, failure) :
        \E y \in WorkSet(goal, config, "none") : Stands(x, y)
  BY WorkStands
<1> QED
  BY <1>1, <1>2, <1>3 DEF PieceSet, Given

(* Validation looks at the tool and the target only, and the mock server   *)
(* is one host.                                                            *)
LEMMA StandsAcceptable ==
  ASSUME NEW x, NEW y, NEW config, Stands(x, y), Acceptable(y, config)
  PROVE  Acceptable(x, config)
<1>1. CASE x.args.target = y.args.target
  BY <1>1 DEF Stands, Acceptable, PolicyAllows, ArgsAreValid
<1>2. CASE x.tool = "http_get" /\ x.args.target = "/data" /\ y.args.target = "/malformed"
  <2>1. y.tool = "http_get"
    BY <1>2 DEF Stands
  <2>2. Asked("/data") = Asked("/malformed")
    BY DEF Asked, Urls
  <2>3. PolicyAllows(x, config) = PolicyAllows(y, config)
    BY <1>2, <2>1, <2>2 DEF PolicyAllows
  <2> QED
    BY <1>2, <2>3 DEF Acceptable, ArgsAreValid, KnownTools
<1> QED
  BY <1>1, <1>2 DEF Stands

(* A goal that asks a malformed endpoint has the word in it, so that its   *)
(* step is to be replanned; and after a malformed response it is asked no  *)
(* more.                                                                   *)
LEMMA MalformedIsReplanned ==
  ASSUME NEW goal \in Goals, NEW config, NEW failure, NEW x \in PieceSet(goal, config, failure),
         x.tool = "http_get", x.args.target = "/malformed"
  PROVE  "replan" \in x.fallback /\ failure # "schema_error"
<1>1. /\ x = GetPiece(goal, failure, RequestTimeout(config, failure))
      /\ HttpUrl(goal) # "none"
  BY PieceFields DEF PieceSet, WorkSet, Given
<1>2. x.args.target = IF failure = "schema_error" /\ HttpUrl(goal) = "/malformed" THEN "/data"
                                                                    ELSE HttpUrl(goal)
  BY <1>1, PieceFields
<1>3. HttpUrl(goal) = "/malformed" /\ failure # "schema_error"
  BY <1>2
<1>4. Has(goal, {"malformed"})
  <2>1. CASE goal.url # "none"
    <3>1. goal.url = "/malformed"
      BY <1>3, <2>1 DEF HttpUrl
    <3>2. "malformed" \in WordsOfUrl("/malformed")
      BY DEF WordsOfUrl
    <3>3. "malformed" \in goal.words
      BY <3>1, <3>2 DEF Goals
    <3> QED
      BY <3>3 DEF Has
  <2>2. CASE goal.url = "none"
    BY <1>3, <2>2 DEF HttpUrl, MockUrlFor
  <2> QED
    BY <2>1, <2>2
<1> QED
  BY <1>1, <1>3, <1>4, PieceFields

(* The target of a request is the goal's, or /data in its place.           *)
LEMMA TargetsOfRequests ==
  ASSUME NEW goal, NEW config, NEW failure, NEW x \in PieceSet(goal, config, failure)
  PROVE  /\ x.tool \in HttpTools => x.args.target \in {HttpUrl(goal), "/data"}
         /\ x.tool = "http_post" => x.args.target = HttpUrl(goal) /\ Has(goal, {"post"})
         /\ x.tool = "http_get" => ~(HttpUrl(goal) = "/submit" /\ Has(goal, {"post"}))
<1> DEFINE t == RequestTimeout(config, failure)
<1>1. \/ x = PostPiece(goal, t) /\ Has(goal, {"post"})
      \/ x = GetPiece(goal, failure, t) /\ ~(HttpUrl(goal) = "/submit" /\ Has(goal, {"post"}))
      \/ x.tool \notin HttpTools
  BY PieceFields DEF PieceSet, WorkSet, Given, HttpTools
<1>2. CASE x = PostPiece(goal, t) /\ Has(goal, {"post"})
  BY <1>2, PieceFields
<1>3. CASE x = GetPiece(goal, failure, t) /\ ~(HttpUrl(goal) = "/submit" /\ Has(goal, {"post"}))
  BY <1>3, PieceFields
<1>4. CASE x.tool \notin HttpTools
  BY <1>4 DEF HttpTools
<1> QED
  BY <1>1, <1>2, <1>3, <1>4

-----------------------------------------------------------------------------
(* Plans. *)

(* A plan is its pieces, numbered. *)
LEMMA PlanMembers ==
  ASSUME NEW goal, NEW config, NEW failure, NEW plan, NEW pieces,
         plan = BuildPlan(goal, config, failure), pieces = Pieces(goal, config, failure)
  PROVE  /\ Len(plan) \in Nat /\ Len(plan) >= 1 /\ Len(plan) <= 17
         /\ plan # << >> /\ DOMAIN plan = 1..Len(plan) /\ Len(plan) = Len(pieces)
         /\ plan = [i \in 1..Len(pieces) |->
                      [id |-> StepId[i], tool |-> pieces[i].tool,
                       args |-> pieces[i].args, fallback |-> pieces[i].fallback]]
         /\ \A i \in 1..Len(plan) : pieces[i] \in PieceSet(goal, config, failure)
         /\ \A x \in PieceSet(goal, config, failure) :
              \E i \in 1..Len(plan) : pieces[i] = x
<1>1. /\ IsSequence(pieces) /\ Range(pieces) = PieceSet(goal, config, failure)
      /\ Len(pieces) >= 1 /\ Len(pieces) <= 17
  BY PiecesRange
<1>2. Len(pieces) \in Nat
  BY <1>1, LenProperties DEF IsSequence
<1>3. plan = [i \in 1..Len(pieces) |->
                [id |-> StepId[i], tool |-> pieces[i].tool, args |-> pieces[i].args,
                 fallback |-> pieces[i].fallback]]
  BY DEF BuildPlan, Numbered
<1>4. Len(plan) = Len(pieces) /\ DOMAIN plan = 1..Len(pieces)
  BY <1>2, <1>3
<1>5. plan # << >>
  <2>1. 1 \in DOMAIN plan
    BY <1>1, <1>2, <1>4
  <2> QED
    BY <2>1
<1>6. Range(pieces) = {pieces[i] : i \in 1..Len(pieces)}
  BY <1>1, RangeEquality DEF IsSequence
<1>7. \A i \in 1..Len(plan) : pieces[i] \in PieceSet(goal, config, failure)
  BY <1>1, <1>4, <1>6
<1>8. \A x \in PieceSet(goal, config, failure) : \E i \in 1..Len(plan) : pieces[i] = x
  BY <1>1, <1>4, <1>6
<1> QED
  BY <1>1, <1>2, <1>3, <1>4, <1>5, <1>7, <1>8

(* Every step is a piece, and every piece has its step. *)
LEMMA PlanSteps ==
  ASSUME NEW goal, NEW config, NEW failure, NEW plan, plan = BuildPlan(goal, config, failure)
  PROVE  /\ \A i \in 1..Len(plan) : \E x \in PieceSet(goal, config, failure) :
              /\ plan[i].tool = x.tool /\ plan[i].args = x.args
              /\ plan[i].fallback = x.fallback /\ plan[i].id = StepId[i]
         /\ \A x \in PieceSet(goal, config, failure) : \E i \in 1..Len(plan) :
              plan[i].tool = x.tool /\ plan[i].args = x.args
<1> DEFINE pieces == Pieces(goal, config, failure)
<1> HIDE DEF pieces
<1>1. /\ Len(plan) \in Nat /\ Len(plan) = Len(pieces)
      /\ plan = [i \in 1..Len(pieces) |->
                   [id |-> StepId[i], tool |-> pieces[i].tool,
                    args |-> pieces[i].args, fallback |-> pieces[i].fallback]]
      /\ \A i \in 1..Len(plan) : pieces[i] \in PieceSet(goal, config, failure)
      /\ \A x \in PieceSet(goal, config, failure) : \E i \in 1..Len(plan) : pieces[i] = x
  BY PlanMembers DEF pieces
<1>2. \A i \in 1..Len(plan) :
        /\ plan[i].tool = pieces[i].tool /\ plan[i].args = pieces[i].args
        /\ plan[i].fallback = pieces[i].fallback /\ plan[i].id = StepId[i]
  BY <1>1
<1> QED
  BY <1>1, <1>2

(* Validation accepts a plan when it accepts its pieces, and an answer to  *)
(* replanning when it accepted the plan.                                   *)
LEMMA AcceptedPieces ==
  ASSUME NEW goal, NEW config, Accepted(BuildPlan(goal, config, "none"), config)
  PROVE  \A failure : Accepted(BuildPlan(goal, config, failure), config)
<1>1. ASSUME NEW y \in PieceSet(goal, config, "none")
      PROVE  Acceptable(y, config)
  <2>1. PICK i \in 1..Len(BuildPlan(goal, config, "none")) :
          /\ BuildPlan(goal, config, "none")[i].tool = y.tool
          /\ BuildPlan(goal, config, "none")[i].args = y.args
    BY PlanSteps
  <2>3. Acceptable(BuildPlan(goal, config, "none")[i], config)
    BY DEF Accepted
  <2> QED
    BY <2>1, <2>3 DEF Acceptable, PolicyAllows, ArgsAreValid
<1>2. ASSUME NEW failure, NEW i \in 1..Len(BuildPlan(goal, config, failure))
      PROVE  Acceptable(BuildPlan(goal, config, failure)[i], config)
  <2>1. PICK x \in PieceSet(goal, config, failure) :
          /\ BuildPlan(goal, config, failure)[i].tool = x.tool
          /\ BuildPlan(goal, config, failure)[i].args = x.args
    BY PlanSteps
  <2>2. PICK y \in PieceSet(goal, config, "none") : Stands(x, y)
    BY PiecesStand
  <2>3. Acceptable(x, config)
    BY <1>1, <2>2, StandsAcceptable
  <2> QED
    BY <2>1, <2>3 DEF Acceptable, PolicyAllows, ArgsAreValid
<1> QED
  BY <1>2 DEF Accepted

(* The settings the executor takes from a configuration. *)
IsConfig(config) ==
  /\ config.timeout \in Nat /\ config.maxSteps \in Nat /\ config.maxRetries \in Nat
  /\ config.budget \in Nat /\ config.threshold \in Nat

IsPiece(p) ==
  /\ p.tool \in ToolNames /\ p.fallback \in SUBSET {"replan", "skip"}
  /\ p.args \in [target: CallTargets, timeout: Nat, strict: BOOLEAN, text: Nat, full: BOOLEAN]
  /\ p.args.text < 2

LEMMA PieceIsPiece ==
  ASSUME NEW tool \in ToolNames, NEW target \in CallTargets, NEW timeout \in Nat,
         NEW text \in {0, 1}, NEW full \in BOOLEAN, NEW fallback \in SUBSET {"replan", "skip"}
  PROVE  IsPiece(Piece(tool, target, timeout, text, full, fallback))
  BY DEF IsPiece, Piece

LEMMA PieceTypes ==
  ASSUME NEW goal \in Goals, NEW config, NEW failure, config.timeout \in Nat,
         NEW x \in PieceSet(goal, config, failure)
  PROVE  IsPiece(x)
<1> DEFINE t == RequestTimeout(config, failure)
<1>1. t \in Nat /\ 0 \in Nat
  BY DEF RequestTimeout
<1>2. goal.url \in Urls /\ goal.expr \in Expressions
  BY DEF Goals
<1>3. HttpUrl(goal) # "none" =>
        HttpUrl(goal) \in CallTargets /\ "/data" \in CallTargets
  BY <1>2 DEF HttpUrl, MockUrlFor, CallTargets, Urls
<1>4. Has(goal, {"post"}) => HttpUrl(goal) # "none"
  BY <1>2 DEF HttpUrl, MockUrlFor, Has, HttpWords
<1>5. /\ {"http_get", "http_post", "db_query", "file_write", "calc", "summarize",
          "non_existent_tool"} \subseteq ToolNames
      /\ {"SELECT", "DELETE", "__import__", "reports/output.txt", "../escape.txt",
          "note", "extra", "1 + 1", "bad shape", goal.expr} \subseteq CallTargets
  BY <1>2 DEF ToolNames, KnownTools, CallTargets, Urls
<1> HIDE DEF t
<1>6. HttpUrl(goal) # "none" => IsPiece(PostPiece(goal, t))
  BY <1>1, <1>3, <1>5, PieceIsPiece DEF PostPiece
<1>7. HttpUrl(goal) # "none" => IsPiece(GetPiece(goal, failure, t))
  BY <1>1, <1>3, <1>5, PieceIsPiece DEF GetPiece
<1>8. IsPiece(DbPiece(goal))
  BY <1>1, <1>5, PieceIsPiece DEF DbPiece
<1>9. IsPiece(CalcPiece(goal))
  BY <1>1, <1>5, PieceIsPiece DEF CalcPiece
<1>10. IsPiece(WritePiece(goal))
  BY <1>1, <1>5, PieceIsPiece DEF WritePiece
<1>11. IsPiece(SummarizePiece) /\ IsPiece(LongPlanPiece) /\ IsPiece(ExtraPiece)
  BY <1>1, <1>5, PieceIsPiece DEF SummarizePiece, LongPlanPiece, ExtraPiece
<1>12. /\ IsPiece(Piece("non_existent_tool", "note", 0, 1, FALSE, {}))
       /\ IsPiece(Piece("calc", "bad shape", 0, 1, FALSE, {}))
  BY <1>1, <1>5, PieceIsPiece
<1> QED
  BY <1>4, <1>6, <1>7, <1>8, <1>9, <1>10, <1>11, <1>12 DEF PieceSet, WorkSet, Given, t

-----------------------------------------------------------------------------
(* Plans are what the executor expects. *)

LEMMA PlanTypes ==
  ASSUME StepIds \subseteq Ids, ToolNames \subseteq Tools, CallTargets \subseteq Targets,
         NEW goal \in Goals, NEW config, IsConfig(config), NEW failure,
         NEW plan, plan = BuildPlan(goal, config, failure)
  PROVE  /\ plan \in Seq(Steps) /\ plan # << >>
         /\ \A i \in 1..Len(plan) : plan[i].args.text < 2
<1> DEFINE pieces == Pieces(goal, config, failure)
<1> HIDE DEF pieces
<1>1. /\ Len(plan) \in Nat /\ Len(plan) <= 17 /\ Len(plan) = Len(pieces) /\ plan # << >>
      /\ plan = [i \in 1..Len(pieces) |->
                   [id |-> StepId[i], tool |-> pieces[i].tool,
                    args |-> pieces[i].args, fallback |-> pieces[i].fallback]]
      /\ \A i \in 1..Len(plan) : pieces[i] \in PieceSet(goal, config, failure)
  BY PlanMembers DEF pieces
<1>2. \A i \in 1..17 : StepId[i] \in StepIds
  <2>1. Len(StepId) = 17
    BY DEF StepId
  <2> QED
    BY <2>1 DEF StepIds
<1>3. ASSUME NEW i \in 1..Len(pieces)
      PROVE  /\ [id |-> StepId[i], tool |-> pieces[i].tool,
                 args |-> pieces[i].args, fallback |-> pieces[i].fallback] \in Steps
             /\ pieces[i].args.text < 2
  <2>1. StepId[i] \in Ids
    <3>1. Len(pieces) \in Nat /\ Len(pieces) <= 17 /\ i \in 1..Len(pieces)
      BY <1>1, <1>3
    <3>2. i \in 1..17
      BY <3>1
    <3>3. StepId[i] \in StepIds
      BY <3>2, <1>2
    <3> QED
      BY <3>3
  <2>2. IsPiece(pieces[i])
    BY <1>1, PieceTypes DEF IsConfig
  <2>3. /\ pieces[i].tool \in Tools /\ pieces[i].fallback \in SUBSET {"replan", "skip"}
        /\ pieces[i].args.text < 2
    BY <2>2 DEF IsPiece
  <2>4. pieces[i].args \in Args
    BY <2>2 DEF IsPiece, Args
  <2> QED
    BY <2>1, <2>3, <2>4 DEF Steps
<1>4. plan \in [1..Len(plan) -> Steps]
  BY <1>1, <1>3
<1>5. plan \in Seq(Steps)
  BY <1>1, <1>4
<1>6. \A i \in 1..Len(plan) : plan[i].args.text < 2
  BY <1>1, <1>3
<1> QED
  BY <1>1, <1>5, <1>6

LEMMA ValidatedTypes ==
  ASSUME NEW plan \in Seq(Steps)
  PROVE  /\ Validated(plan) \in Seq(Steps) /\ Len(Validated(plan)) = Len(plan)
         /\ \A i \in 1..Len(plan) :
              /\ Validated(plan)[i].id = plan[i].id /\ Validated(plan)[i].tool = plan[i].tool
              /\ Validated(plan)[i].args.target = plan[i].args.target
              /\ Validated(plan)[i].args.text = plan[i].args.text
              /\ Validated(plan)[i].fallback = plan[i].fallback
<1>1. ASSUME NEW x \in Steps
      PROVE  /\ [x EXCEPT !.args.full = TRUE] \in Steps
             /\ [x EXCEPT !.args.full = TRUE].id = x.id
             /\ [x EXCEPT !.args.full = TRUE].tool = x.tool
             /\ [x EXCEPT !.args.full = TRUE].args.target = x.args.target
             /\ [x EXCEPT !.args.full = TRUE].args.text = x.args.text
             /\ [x EXCEPT !.args.full = TRUE].fallback = x.fallback
  BY DEF Steps, Args
<1>2. Len(plan) \in Nat /\ \A i \in 1..Len(plan) : plan[i] \in Steps
  BY LenProperties, ElementOfSeq
<1>3. Validated(plan) = [i \in 1..Len(plan) |-> [plan[i] EXCEPT !.args.full = TRUE]]
  BY DEF Validated
<1>4. Validated(plan) \in [1..Len(plan) -> Steps]
  BY <1>1, <1>2, <1>3
<1>5. Validated(plan) \in Seq(Steps) /\ Len(Validated(plan)) = Len(plan)
  BY <1>2, <1>4
<1>6. \A i \in 1..Len(plan) : Validated(plan)[i] = [plan[i] EXCEPT !.args.full = TRUE]
  BY <1>3
<1> QED
  BY <1>1, <1>2, <1>5, <1>6

LEMMA AnswerIsPlan ==
  ASSUME NEW goal, NEW config, NEW failure
  PROVE  ReplanAnswer(goal, config, failure, << >>) = BuildPlan(goal, config, failure)
<1>1. BuildPlan(goal, config, failure) # << >>
  BY PlanMembers
<1> QED
  BY <1>1 DEF ReplanAnswer

(* Whatever the goal and the configuration, the planner gives the executor *)
(* a run it is made for: plans and answers of steps, no answer empty, no   *)
(* text a dump, every step with one of the seventeen ids.  This is what    *)
(* the executor's theorems assume of Runs.                                 *)
THEOREM PlansAreRuns ==
  ASSUME StepIds \subseteq Ids, ToolNames \subseteq Tools, CallTargets \subseteq Targets,
         NEW goal \in Goals, NEW config, IsConfig(config), NEW mentioned \in SUBSET Criteria
  PROVE  IsRun(RunOf(goal, config, mentioned))
<1> DEFINE r == RunOf(goal, config, mentioned)
           plan(f) == BuildPlan(goal, config, f)
<1>1. \A f : /\ plan(f) \in Seq(Steps) /\ plan(f) # << >>
             /\ \A i \in 1..Len(plan(f)) : plan(f)[i].args.text < 2
  BY PlanTypes
<1>2. r.steps = Validated(plan("none")) /\ r.answers = [f \in FailureTypes |-> plan(f)]
  BY AnswerIsPlan DEF RunOf
<1>3. /\ r.maxSteps = config.maxSteps /\ r.maxRetries = config.maxRetries
      /\ r.maxCost = config.budget /\ r.costPerStep = 1 /\ r.threshold = config.threshold
      /\ r.mentioned = mentioned /\ r.criteria = SuccessCriteria(goal)
      /\ DOMAIN r = {"steps", "answers", "criteria", "mentioned", "maxSteps", "maxRetries",
                     "maxCost", "costPerStep", "threshold"}
  BY DEF RunOf
<1>4. SuccessCriteria(goal) \subseteq Criteria
  BY DEF SuccessCriteria, Criteria
<1>5. /\ r.steps \in Seq(Steps) /\ Len(r.steps) = Len(plan("none"))
      /\ \A i \in 1..Len(r.steps) : r.steps[i].args.text < 2
  <2>1. plan("none") \in Seq(Steps)
    BY <1>1
  <2> HIDE DEF plan
  <2> QED
    BY <1>1, <1>2, <2>1, ValidatedTypes
<1>6. r.answers \in [FailureTypes -> Seq(Steps)]
  BY <1>1, <1>2
<1>7. r \in RunRecords
  <2>1. r = [steps |-> r.steps, answers |-> r.answers, criteria |-> r.criteria,
             mentioned |-> r.mentioned, maxSteps |-> r.maxSteps, maxRetries |-> r.maxRetries,
             maxCost |-> r.maxCost, costPerStep |-> r.costPerStep, threshold |-> r.threshold]
    BY DEF RunOf
  <2> HIDE DEF r
  <2> QED
    BY <1>3, <1>4, <1>5, <1>6, <2>1 DEF RunRecords, IsConfig
<1> HIDE DEF r, plan
<1>8. \A f \in FailureTypes : r.answers[f] # << >>
        /\ \A i \in 1..Len(r.answers[f]) : r.answers[f][i].args.text < 2
  BY <1>1, <1>2
<1>9. IsRun(r)
  BY <1>5, <1>7, <1>8 DEF IsRun
<1> QED
  BY <1>9 DEF r

-----------------------------------------------------------------------------
(* The executor in the pipeline. *)

(* Before its plan is judged a run has done nothing, a rejected one never  *)
(* does, and an accepted one is a run of the executor.                     *)
Underway ==
  /\ job \in Jobs /\ run = JobRun(job)
  /\ pc \in {"start", "rejected"} => toolCalls = << >> /\ refinements = << >>
  /\ pc # "rejected" => Inv /\ Retried
  /\ pc \notin {"start", "rejected"} => PlanAccepted

(* The pipeline's steps by what they are to the executor. *)
LEMMA PipelineSteps ==
  ASSUME [PipelineNext]_pipelineVars
  PROVE  /\ job' = job
         /\ \/ RejectPlan /\ UNCHANGED hits
            \/ pc = "start" /\ PlanAccepted /\ Begin /\ UNCHANGED hits
            \/ pc \notin {"start", "rejected"} /\ CallServer /\ [Next]_vars
            \/ /\ pc \notin {"start", "rejected"} /\ [Next]_vars /\ ~CallTool /\ UNCHANGED hits
            \/ UNCHANGED <<vars, hits>>
<1>1. CASE BeginAccepted
  BY <1>1 DEF BeginAccepted, Begin
<1>2. CASE RejectPlan
  BY <1>2 DEF RejectPlan
<1>3. CASE CallServer
  BY <1>3 DEF CallServer, CallTool, Next
<1>4. CASE Proceed
  <2>1. pc \in {"head", "called", "saved"} /\ Next /\ UNCHANGED <<job, hits>>
    BY <1>4 DEF Proceed, Next, StopOnSuccess, StopOnMaxSteps, StopOnBudget, SaveOutcome,
       OnSuccess, StopNonProgress, StopMaxRetries, PatchAndRetry, ReplanRemaining, SkipStep,
       Abort, Decided, Chosen, Failed, PlanExhausted
  <2>2. ~CallTool
    BY <1>4 DEF Proceed, CallTool, StopOnSuccess, StopOnMaxSteps, StopOnBudget, SaveOutcome,
       OnSuccess, StopNonProgress, StopMaxRetries, PatchAndRetry, ReplanRemaining, SkipStep,
       Abort, Decided, Chosen, Failed, PlanExhausted, Finish
  <2> QED
    BY <2>1, <2>2
<1>5. CASE PipelineEnded \/ UNCHANGED pipelineVars
  BY <1>5 DEF PipelineEnded, pipelineVars
<1> QED
  BY <1>1, <1>2, <1>3, <1>4, <1>5 DEF PipelineNext

(* In an executor step nothing is started or rejected afterwards. *)
LEMMA NotRejected ==
  ASSUME [Next]_vars, pc # "rejected"
  PROVE  pc' # "rejected" /\ (pc' = "start" => pc = "start") /\ run' = run
  BY StepCases DEF Begin, CallTool, SaveOutcome, OnSuccess, PatchAndRetry, ReplanRemaining,
     SkipStep, Stops, GivesUp, Balks, Rests, recordVars, Decided, Chosen, Failed

(* A run begins. *)
Beginning == job \in Jobs /\ run = JobRun(job) /\ Unstarted

LEMMA UnderwayStart == Beginning => Underway
<1> SUFFICES ASSUME Beginning PROVE Underway
  OBVIOUS
<1>1. job \in Jobs /\ run = JobRun(job) /\ Unstarted
  BY DEF Beginning
<1>2. Init
  BY <1>1, JobsAssumption DEF Init
<1>3. Inv /\ Retried
  BY <1>2, LimitsInit, RetriedInit
<1> QED
  BY <1>1, <1>3 DEF Underway, Unstarted

LEMMA UnderwayInit == PipelineInit => Underway
  BY UnderwayStart DEF PipelineInit, Beginning

LEMMA UnderwayNext == Underway /\ [PipelineNext]_pipelineVars => Underway'
<1> SUFFICES ASSUME Underway, [PipelineNext]_pipelineVars PROVE Underway'
  OBVIOUS
<1>1. job' = job /\ job' \in Jobs
  BY PipelineSteps DEF Underway
<1>2. run' = run => JobRun(job)' = JobRun(job) /\ (PlanAccepted' <=> PlanAccepted)
  BY <1>1 DEF PlanAccepted
<1>3. CASE RejectPlan
  <2>1. /\ pc = "start" /\ pc' = "rejected" /\ UNCHANGED <<run, toolCalls, refinements>>
    BY <1>3 DEF RejectPlan, traceVars
  <2> QED
    BY <1>1, <2>1 DEF Underway
<1>4. CASE pc # "rejected" /\ [Next]_vars /\ (pc = "start" => PlanAccepted /\ Begin)
  <2>1. pc' \notin {"start", "rejected"} \/ (pc = "start" /\ UNCHANGED <<toolCalls, refinements>>)
    BY <1>4, NotRejected DEF Begin, traceVars
  <2>2. Inv' /\ Retried' /\ run' = run /\ pc' # "rejected"
    BY <1>4, LimitsNext, RetriedNext, NotRejected DEF Underway
  <2>3. PlanAccepted
    BY <1>4 DEF Underway
  <2> QED
    BY <1>1, <1>2, <2>1, <2>2, <2>3 DEF Underway
<1>5. CASE UNCHANGED <<vars, hits>>
  <2>1. UNCHANGED vars /\ run' = run /\ pc' = pc /\ UNCHANGED <<toolCalls, refinements>>
    BY <1>5 DEF vars, traceVars
  <2>2. pc # "rejected" => Inv' /\ Retried'
    BY <2>1, LimitsNext, RetriedNext DEF Underway
  <2> QED
    BY <1>1, <1>2, <2>1, <2>2 DEF Underway
<1>6. Begin => [Next]_vars
  BY DEF Next
<1>7. pc = "start" => pc # "rejected"
  OBVIOUS
<1> QED
  BY <1>3, <1>4, <1>5, <1>6, <1>7, PipelineSteps

-----------------------------------------------------------------------------
(* The pipeline implements the executor. *)

(* None of these looks at what is substituted.                            *)
LEMMA SameValues ==
  /\ \A x : Executes!WithObservations(x) = WithObservations(x)
  /\ \A x : Executes!ToolStatuses(x) = ToolStatuses(x)
  /\ \A x : Executes!FlagOf(x) = FlagOf(x)
  /\ \A x : Executes!AnnouncedBy(x) = AnnouncedBy(x)
  /\ \A x, f : Executes!PatchedArgs(x, f) = PatchedArgs(x, f)
  /\ \A x, f, a, m, r : Executes!Decide(x, f, a, m, r) = Decide(x, f, a, m, r)
  /\ \A d, k : Executes!CountOf(d, k) = CountOf(d, k) /\ Executes!Bump(d, k) = Bump(d, k)
  /\ Executes!NoCounts = NoCounts
  /\ \A s, f, a : Executes!Event(s, f, a) = Event(s, f, a)
  /\ Executes!Call = Call /\ Executes!Current = Current /\ Executes!Seen = Seen
  /\ Executes!FailureSignal = FailureSignal /\ Executes!Answer = Answer
  /\ Executes!Replanned = Replanned
  /\ Executes!More = More /\ Executes!CriteriaMet = CriteriaMet
  /\ Executes!StepsSpent = StepsSpent /\ Executes!BudgetSpent = BudgetSpent
  /\ Executes!RetriesSpent = RetriesSpent
  /\ \A a : Executes!FailedEvent(a) = FailedEvent(a)
<1>1. \A x : Executes!WithObservations(x) = WithObservations(x)
  BY DEF WithObservations, Executes!WithObservations
<1>2. \A x : Executes!ToolStatuses(x) = ToolStatuses(x)
  BY DEF ToolStatuses, Executes!ToolStatuses, HttpTools, Executes!HttpTools
<1>3. \A x : Executes!FlagOf(x) = FlagOf(x)
  BY DEF FlagOf, Executes!FlagOf, HttpTools, Executes!HttpTools
<1>4. \A x : Executes!AnnouncedBy(x) = AnnouncedBy(x)
  BY DEF AnnouncedBy, Executes!AnnouncedBy
<1>5. \A x, f : Executes!PatchedArgs(x, f) = PatchedArgs(x, f)
  BY DEF PatchedArgs, Executes!PatchedArgs, HttpTools, Executes!HttpTools, PrefersReplan,
     Executes!PrefersReplan, Doubled, Executes!Doubled
<1>6. \A x, f, a, m, r : Executes!Decide(x, f, a, m, r) = Decide(x, f, a, m, r)
  BY DEF Decide, Executes!Decide, ReplansEarly, Executes!ReplansEarly, ReplansLate,
     Executes!ReplansLate, PrefersReplan, Executes!PrefersReplan
<1>7. \A d, k : Executes!CountOf(d, k) = CountOf(d, k) /\ Executes!Bump(d, k) = Bump(d, k)
  BY DEF CountOf, Executes!CountOf, Bump, Executes!Bump
<1>8. Executes!NoCounts = NoCounts
  BY DEF NoCounts, Executes!NoCounts
<1>9. Executes!Call = Call /\ Executes!Current = Current
  BY DEF Call, Executes!Call, Current, Executes!Current
<1>10. \A s, f, a : Executes!Event(s, f, a) = Event(s, f, a)
  BY <1>9 DEF Event, Executes!Event
<1>11. Executes!Seen = Seen
  BY <1>7, <1>9 DEF Seen, Executes!Seen, CallSignature, Executes!CallSignature
<1>12. Executes!FailureSignal = FailureSignal
  BY <1>7, <1>9, <1>11 DEF FailureSignal, Executes!FailureSignal, EvaluateToolCall,
     Executes!EvaluateToolCall, DetectNonProgress, Executes!DetectNonProgress, Signal,
     Executes!Signal, CallSignature, Executes!CallSignature
<1>13. Executes!Answer = Answer /\ Executes!Replanned = Replanned
  BY <1>12 DEF Answer, Executes!Answer, Replanned, Executes!Replanned
<1>14. Executes!More = More /\ Executes!CriteriaMet = CriteriaMet
  BY DEF More, Executes!More, CriteriaMet, Executes!CriteriaMet
<1>15. Executes!StepsSpent = StepsSpent /\ Executes!BudgetSpent = BudgetSpent
       /\ Executes!RetriesSpent = RetriesSpent
  BY <1>9, <1>12 DEF StepsSpent, Executes!StepsSpent, BudgetSpent, Executes!BudgetSpent,
     RetriesSpent, Executes!RetriesSpent
<1>16. \A a : Executes!FailedEvent(a) = FailedEvent(a)
  BY <1>10, <1>12 DEF FailedEvent, Executes!FailedEvent
<1> QED
  BY <1>1, <1>2, <1>3, <1>4, <1>5, <1>6, <1>7, <1>8, <1>9, <1>10, <1>11, <1>12, <1>13, <1>14,
     <1>15, <1>16
(* Nor do the actions tell the difference while nothing is rejected.      *)
LEMMA SameSteps ==
  ASSUME Next, pc # "rejected", pc' # "rejected"
  PROVE  Executes!Next
<1>1. /\ Unless(pc, "start") = pc /\ Unless(pc, "start")' = pc'
      /\ Unless(status, "VALIDATED") = status /\ Unless(status, "VALIDATED")' = status'
      /\ Unless(stopReason, "none") = stopReason /\ Unless(stopReason, "none")' = stopReason'
  BY DEF Unless
<1>2. CASE Begin
  <2>1. Executes!Begin
    BY <1>1, <1>2, SameValues DEF Begin, Executes!Begin, stmVars, Executes!stmVars,
       traceVars, Executes!traceVars
  <2> QED
    BY <2>1 DEF Executes!Next
<1>3. CASE StopOnSuccess
  <2>1. Executes!StopOnSuccess
    BY <1>1, <1>3, SameValues DEF StopOnSuccess, Executes!StopOnSuccess, Finish,
       Executes!Finish, loopVars, Executes!loopVars, stmVars, Executes!stmVars, traceVars,
       Executes!traceVars
  <2> QED
    BY <2>1 DEF Executes!Next
<1>4. CASE StopOnMaxSteps
  <2>1. Executes!StopOnMaxSteps
    BY <1>1, <1>4, SameValues DEF StopOnMaxSteps, Executes!StopOnMaxSteps, Finish,
       Executes!Finish, loopVars, Executes!loopVars, stmVars, Executes!stmVars, traceVars,
       Executes!traceVars
  <2> QED
    BY <2>1 DEF Executes!Next
<1>5. CASE StopOnBudget
  <2>1. Executes!StopOnBudget
    BY <1>1, <1>5, SameValues DEF StopOnBudget, Executes!StopOnBudget, Finish,
       Executes!Finish, loopVars, Executes!loopVars, stmVars, Executes!stmVars, traceVars,
       Executes!traceVars
  <2> QED
    BY <2>1 DEF Executes!Next
<1>6. CASE CallTool
  <2>1. Executes!CallTool
    BY <1>1, <1>6, SameValues DEF CallTool, Executes!CallTool, stmVars, Executes!stmVars
  <2> QED
    BY <2>1 DEF Executes!Next
<1>7. CASE SaveOutcome
  <2>1. Executes!SaveOutcome
    BY <1>1, <1>7, SameValues DEF SaveOutcome, Executes!SaveOutcome, loopVars,
       Executes!loopVars, stmVars, Executes!stmVars
  <2> QED
    BY <2>1 DEF Executes!Next
<1>8. CASE SaveOutcomeRaises
  <2>1. Executes!SaveOutcomeRaises
    BY <1>1, <1>8, SameValues DEF SaveOutcomeRaises, Executes!SaveOutcomeRaises, loopVars,
       Executes!loopVars, stmVars, Executes!stmVars, traceVars, Executes!traceVars
  <2> QED
    BY <2>1 DEF Executes!Next
<1>9. CASE OnSuccess
  <2>1. Executes!OnSuccess
    BY <1>1, <1>9, SameValues DEF OnSuccess, Executes!OnSuccess
  <2> QED
    BY <2>1 DEF Executes!Next
<1>10. CASE StopNonProgress
  <2>1. Executes!StopNonProgress
    BY <1>1, <1>10, SameValues DEF StopNonProgress, Executes!StopNonProgress, Failed,
       Executes!Failed, Finish, Executes!Finish, loopVars, Executes!loopVars
  <2> QED
    BY <2>1 DEF Executes!Next
<1>11. CASE StopMaxRetries
  <2>1. Executes!StopMaxRetries
    BY <1>1, <1>11, SameValues DEF StopMaxRetries, Executes!StopMaxRetries, Failed,
       Executes!Failed, Finish, Executes!Finish, loopVars, Executes!loopVars
  <2> QED
    BY <2>1 DEF Executes!Next
<1>12. CASE PatchAndRetry
  <2>1. Executes!PatchAndRetry
    BY <1>1, <1>12, SameValues DEF PatchAndRetry, Executes!PatchAndRetry, Decided,
       Executes!Decided, Chosen, Executes!Chosen, Failed,
       Executes!Failed
  <2> QED
    BY <2>1 DEF Executes!Next
<1>13. CASE ReplanRemaining
  <2>1. Executes!ReplanRemaining
    BY <1>1, <1>13, SameValues DEF ReplanRemaining, Executes!ReplanRemaining, Decided,
       Executes!Decided, Chosen, Executes!Chosen, Failed,
       Executes!Failed
  <2> QED
    BY <2>1 DEF Executes!Next
<1>14. CASE SkipStep
  <2>1. Executes!SkipStep
    BY <1>1, <1>14, SameValues DEF SkipStep, Executes!SkipStep, Decided, Executes!Decided,
       Chosen, Executes!Chosen, Failed, Executes!Failed
  <2> QED
    BY <2>1 DEF Executes!Next
<1>15. CASE Abort
  <2>1. Executes!Abort
    BY <1>1, <1>15, SameValues DEF Abort, Executes!Abort, Decided, Executes!Decided,
       Chosen, Executes!Chosen, Failed, Executes!Failed, Finish, Executes!Finish, loopVars, Executes!loopVars
  <2> QED
    BY <2>1 DEF Executes!Next
<1>16. CASE PlanExhausted
  <2>1. Executes!PlanExhausted
    BY <1>1, <1>16, SameValues DEF PlanExhausted, Executes!PlanExhausted, Finish,
       Executes!Finish, loopVars, Executes!loopVars, stmVars, Executes!stmVars, traceVars,
       Executes!traceVars
  <2> QED
    BY <2>1 DEF Executes!Next
<1>17. CASE StepStartRaises
  <2>1. Executes!StepStartRaises
    BY <1>1, <1>17, SameValues DEF StepStartRaises, Executes!StepStartRaises, loopVars,
       Executes!loopVars, stmVars, Executes!stmVars, traceVars, Executes!traceVars
  <2> QED
    BY <2>1 DEF Executes!Next
<1>18. CASE ReplanRaises
  <2>1. Executes!ReplanRaises
    BY <1>1, <1>18, SameValues DEF ReplanRaises, Executes!ReplanRaises, Chosen,
       Executes!Chosen, Failed, Executes!Failed, loopVars, Executes!loopVars, traceVars,
       Executes!traceVars
  <2> QED
    BY <2>1 DEF Executes!Next
<1>19. CASE Ended
  <2>1. Executes!Ended
    BY <1>1, <1>19, SameValues DEF Ended, Executes!Ended, Raised, Executes!Raised, vars, Executes!vars, loopVars,
       Executes!loopVars, stmVars, Executes!stmVars, traceVars, Executes!traceVars
  <2> QED
    BY <2>1 DEF Executes!Next
<1> QED
  BY <1>2, <1>3, <1>4, <1>5, <1>6, <1>7, <1>8, <1>9, <1>10, <1>11, <1>12, <1>13, <1>14,
     <1>15, <1>16, <1>17, <1>18, <1>19 DEF Next

(* Before it is entered a run has no verdict, so that its rejection, which *)
(* gives it one, changes nothing the executor sees.                        *)
Unjudged == pc = "start" => status = "VALIDATED" /\ stopReason = "none"

LEMMA ExecutorStep ==
  Underway /\ Unjudged /\ [PipelineNext]_pipelineVars =>
    Unjudged' /\ [Executes!Next]_(Executes!vars)
<1> SUFFICES ASSUME Underway, Unjudged, [PipelineNext]_pipelineVars
             PROVE  Unjudged' /\ [Executes!Next]_(Executes!vars)
  OBVIOUS
<1>1. UNCHANGED vars => Unjudged' /\ UNCHANGED Executes!vars
  BY DEF vars, Executes!vars, Unless, Unjudged, loopVars, Executes!loopVars, stmVars,
     Executes!stmVars, traceVars, Executes!traceVars
<1>2. CASE RejectPlan
  <2>1. /\ pc = "start" /\ pc' = "rejected"
        /\ UNCHANGED <<run, loopVars, stmVars, traceVars, metrics>>
    BY <1>2 DEF RejectPlan
  <2> QED
    BY <2>1 DEF Unjudged, Unless, Executes!vars, loopVars, Executes!loopVars, stmVars,
       Executes!stmVars, traceVars, Executes!traceVars
<1>3. CASE Next /\ pc # "rejected"
  <2>1. pc' # "rejected"
    BY <1>3, NotRejected
  <2>2. Executes!Next
    BY <1>3, <2>1, SameSteps
  <2>3. pc' # "start"
    BY <1>3 DEF Next, Begin, StopOnSuccess, StopOnMaxSteps, StopOnBudget, CallTool, SaveOutcome,
       SaveOutcomeRaises, OnSuccess, StopNonProgress, StopMaxRetries, PatchAndRetry,
       ReplanRemaining, StepStartRaises, ReplanRaises, SkipStep, Abort, Decided, Chosen, Failed,
       PlanExhausted, Finish, Ended, Raised, vars
  <2> QED
    BY <2>1, <2>2, <2>3 DEF Unjudged
<1>4. pc = "start" /\ Begin => Next /\ pc # "rejected"
  BY DEF Next
<1> QED
  BY <1>1, <1>2, <1>3, <1>4, PipelineSteps

(* With the planner, the mock server and the tools around it the executor  *)
(* does what it may do by itself: the promises made of it for any run and  *)
(* any answers of the tools hold of every goal.                            *)
THEOREM ImplementsExecutor == PipelineSpec => Executes!Spec
<1>1. PipelineInit => Unjudged /\ Executes!Init
  <2> SUFFICES ASSUME PipelineInit PROVE Unjudged /\ Executes!Init
    OBVIOUS
  <2>1. run \in Runs /\ Unstarted
    BY JobsAssumption DEF PipelineInit
  <2>2. Executes!Unstarted
    BY <2>1, SameValues DEF Unstarted, Executes!Unstarted, Unless
  <2> QED
    BY <2>1, <2>2 DEF Executes!Init, Unjudged, Unstarted
<1> QED
  BY <1>1, UnderwayInit, UnderwayNext, ExecutorStep, PTL DEF PipelineSpec, Executes!Spec

-----------------------------------------------------------------------------
(* Where steps and calls come from. *)

Replans(s) == {i \in 1..Len(s) : s[i].action = "replan_remaining"}

(* The failure the remaining steps were planned after. *)
Era == IF Replans(refinements) = {} THEN "none" ELSE "schema_error"

(* What is asked of which tool, for a piece planned after a failure.       *)
Asks(x, failure) ==
  \E p \in PieceSet(job.goal, job.config, failure) :
    x.tool = p.tool /\ x.args.target = p.args.target

AsksWithFallback(x, failure) ==
  \E p \in PieceSet(job.goal, job.config, failure) :
    x.tool = p.tool /\ x.args.target = p.args.target /\ x.fallback = p.fallback

(* Retries patch and texts are filled in; the remaining steps still ask    *)
(* for what was planned, and so did every call.                            *)
Sourced ==
  /\ \A j \in (stepIndex + 1)..Len(steps) : AsksWithFallback(steps[j], Era)
  /\ \A i \in 1..Len(toolCalls) : \E failure \in {"none", "schema_error"} : Asks(toolCalls[i], failure)
  /\ pc \in {"called", "saved"} =>
       Call.id = Current.id /\ Call.tool = Current.tool /\ Call.args.target = Current.args.target

LEMMA SamePurpose ==
  ASSUME NEW x, NEW y, NEW failure, AsksWithFallback(x, failure),
         y.tool = x.tool, y.args.target = x.args.target, y.fallback = x.fallback
  PROVE  AsksWithFallback(y, failure)
  BY DEF AsksWithFallback

(* What a call may change of its step, and a retry. *)
LEMMA FilledIn ==
  ASSUME NEW step \in Steps
  PROVE  /\ WithObservations(step).id = step.id
         /\ WithObservations(step).tool = step.tool
         /\ WithObservations(step).args.target = step.args.target
         /\ WithObservations(step).fallback = step.fallback
  BY DEF WithObservations, Steps, Args

LEMMA Patched ==
  ASSUME NEW step \in Steps, NEW f
  PROVE  PatchedArgs(step, f).target = step.args.target
  BY DEF PatchedArgs, Steps, Args

LEMMA EraNext ==
  ASSUME Inv, [Next]_vars
  PROVE  /\ ReplanRemaining => Era' = "schema_error"
         /\ ~ReplanRemaining => Era' = Era /\ Replans(refinements') = Replans(refinements)
         /\ ReplanRemaining => Replans(refinements') = Replans(refinements) \cup {Len(refinements')}
<1>1. refinements \in Seq([action: {"patch_and_retry", "replan_remaining", "skip_step", "abort"},
                           failure: FailureTypes])
  BY DEF Inv, TypeInv, TypeOK
<1>2. ASSUME NEW action, Decided(action)
      PROVE  /\ action = "replan_remaining" =>
                  Replans(refinements') = Replans(refinements) \cup {Len(refinements')}
             /\ action # "replan_remaining" => Replans(refinements') = Replans(refinements)
  <2>1. refinements' = Append(refinements, [action |-> action, failure |-> FailureSignal.type])
    BY <1>2 DEF Decided
  <2>2. /\ Len(refinements) \in Nat /\ Len(refinements') = Len(refinements) + 1
        /\ \A i \in 1..Len(refinements) : refinements'[i] = refinements[i]
        /\ refinements'[Len(refinements) + 1].action = action
    BY <1>1, <2>1, Appended
  <2> QED
    BY <2>2 DEF Replans
<1>3. CASE ReplanRemaining
  <2>1. Decided("replan_remaining")
    BY <1>3 DEF ReplanRemaining
  <2>2. Replans(refinements') = Replans(refinements) \cup {Len(refinements')}
    BY <1>2, <2>1
  <2> QED
    BY <1>3, <2>2 DEF Era
<1>4. CASE ~ReplanRemaining
  <2>1. \/ refinements' = refinements
        \/ \E action : action # "replan_remaining" /\ Decided(action)
    BY <1>4, StepCases DEF Begin, CallTool, SaveOutcome, OnSuccess, PatchAndRetry, SkipStep,
       Stops, GivesUp, Balks, Rests, traceVars
  <2>2. Replans(refinements') = Replans(refinements)
    BY <1>2, <2>1
  <2> QED
    BY <1>4, <2>2 DEF Era
<1> QED
  BY <1>3, <1>4

(* The plan and the answer to a malformed response, in the run. *)
LEMMA RunSteps ==
  ASSUME Underway, Inv
  PROVE  /\ \A j \in 1..Len(run.steps) : AsksWithFallback(run.steps[j], "none")
         /\ \A j \in 1..Len(run.answers["schema_error"]) :
              AsksWithFallback(run.answers["schema_error"][j], "schema_error")
<1> DEFINE plan(f) == BuildPlan(job.goal, job.config, f)
<1>1. /\ run.steps = Validated(plan("none"))
      /\ run.answers["schema_error"] = plan("schema_error")
  BY AnswerIsPlan DEF Underway, JobRun, RunOf, FailureTypes
<1>2. ASSUME NEW f, NEW i \in 1..Len(plan(f))
      PROVE  AsksWithFallback(plan(f)[i], f)
  BY PlanSteps DEF AsksWithFallback
<1>3. plan("none") = [i \in 1..Len(plan("none")) |-> plan("none")[i]]
  BY PlanMembers
<1>4. ASSUME NEW j \in 1..Len(run.steps)
      PROVE  AsksWithFallback(run.steps[j], "none")
  <2> DEFINE p == plan("none")
  <2>1. Len(p) \in Nat
    BY PlanMembers
  <2> HIDE DEF p
  <2>2. run.steps = [i \in 1..Len(p) |-> [p[i] EXCEPT !.args.full = TRUE]]
    BY <1>1 DEF Validated, p
  <2>3. j \in 1..Len(p) /\ run.steps[j] = [p[j] EXCEPT !.args.full = TRUE]
    BY <2>1, <2>2
  <2>4. AsksWithFallback(p[j], "none")
    BY <1>2, <2>3 DEF p
  <2>5. /\ run.steps[j].tool = p[j].tool /\ run.steps[j].fallback = p[j].fallback
        /\ run.steps[j].args.target = p[j].args.target
    <3>1. run.steps \in Seq(Steps)
      BY DEF Inv, TypeInv, TypeOK, IsRun, RunRecords
    <3>2. run.steps[j] \in Steps
      BY <3>1, ElementOfSeq
    <3> QED
      BY <2>3, <3>2 DEF Steps, Args
  <2> QED
    BY <2>4, <2>5, SamePurpose
<1> QED
  BY <1>1, <1>2, <1>4

LEMMA SourcedNext ==
  Underway /\ Inv /\ Sourced /\ [Next]_vars /\ job' = job => Sourced'
<1> SUFFICES ASSUME Underway, Inv, Sourced, [Next]_vars, job' = job PROVE Sourced'
  OBVIOUS
<1>0. /\ TypeInv /\ steps \in Seq(Steps) /\ Len(steps) \in Nat /\ stepIndex \in Nat
      /\ toolCalls \in Seq(ToolCallRecords) /\ Len(toolCalls) \in Nat
      /\ \A j \in 1..Len(steps) : steps[j] \in Steps
  BY ElementOfSeq, LenProperties DEF Inv, TypeInv, TypeOK
<1>1. \A x, f : /\ Asks(x, f)' <=> Asks(x', f)
                /\ AsksWithFallback(x, f)' <=> AsksWithFallback(x', f)
  BY DEF Asks, AsksWithFallback
<1>2. ASSUME UNCHANGED <<steps, toolCalls>>, Era' = Era,
             stepIndex' \in {stepIndex, stepIndex + 1},
             pc' \in {"called", "saved"} => pc \in {"called", "saved"} /\ stepIndex' = stepIndex
      PROVE  Sourced'
  <2>1. \A j \in (stepIndex' + 1)..Len(steps') : AsksWithFallback(steps'[j], Era')
    BY <1>0, <1>2 DEF Sourced
  <2>2. Call' = Call /\ (stepIndex' = stepIndex => Current' = Current)
    BY <1>2 DEF Call, Current
  <2>3. \A i \in 1..Len(toolCalls') : \E f \in {"none", "schema_error"} : Asks(toolCalls'[i], f)
    BY <1>2 DEF Sourced
  <2>4. pc' \in {"called", "saved"} =>
          Call'.id = Current'.id /\ Call'.tool = Current'.tool
          /\ Call'.args.target = Current'.args.target
    BY <1>2, <2>2 DEF Sourced
  <2> QED
    BY <1>1, <2>1, <2>3, <2>4 DEF Sourced, Asks, AsksWithFallback
<1>3. CASE CallTool
  <2> DEFINE step == WithObservations(Current)
  <2>1. /\ pc' = "called" /\ stepIndex' = stepIndex /\ stepIndex + 1 \in 1..Len(steps)
        /\ steps' = [steps EXCEPT ![stepIndex + 1] = step]
    BY <1>0, <1>3 DEF CallTool, More
  <2>2. Current = steps[stepIndex + 1] /\ Current \in Steps /\ AsksWithFallback(Current, Era)
    BY <1>0, <2>1 DEF Current, Sourced
  <2>3. PICK call : /\ toolCalls' = Append(toolCalls, call)
                    /\ call.id = step.id /\ call.tool = step.tool /\ call.args = step.args
    BY <1>3 DEF CallTool
  <2>4. /\ step.id = Current.id /\ step.tool = Current.tool
        /\ step.args.target = Current.args.target /\ step.fallback = Current.fallback
        /\ step \in Steps
    BY <1>0, <2>2, FilledIn, WithObservationsType DEF TypeInv, TypeOK
  <2> HIDE DEF step
  <2>5. /\ Len(steps') = Len(steps) /\ steps'[stepIndex + 1] = step
        /\ \A j \in 1..Len(steps) : j # stepIndex + 1 => steps'[j] = steps[j]
    BY <1>0, <2>1, <2>4
  <2>6. Era' = Era
    BY <1>3, EraNext DEF CallTool, ReplanRemaining, Decided, Chosen, Failed
  <2>7. AsksWithFallback(step, Era) /\ Asks(call, Era)
    BY <2>2, <2>3, <2>4 DEF Asks, AsksWithFallback
  <2>8. \A j \in (stepIndex' + 1)..Len(steps') : AsksWithFallback(steps'[j], Era')
    BY <1>0, <2>1, <2>5, <2>6, <2>7 DEF Sourced
  <2>9. /\ Len(toolCalls') = Len(toolCalls) + 1 /\ toolCalls'[Len(toolCalls')] = call
        /\ \A i \in 1..Len(toolCalls) : toolCalls'[i] = toolCalls[i]
    BY <1>0, <2>3, Appended
  <2>10. \A i \in 1..Len(toolCalls') : \E f \in {"none", "schema_error"} : Asks(toolCalls'[i], f)
    BY <1>0, <2>7, <2>9 DEF Sourced, Era
  <2>11. Call' = call /\ Current' = step
    BY <2>1, <2>5, <2>9 DEF Call, Current
  <2> QED
    BY <1>1, <2>3, <2>8, <2>10, <2>11 DEF Sourced, Asks, AsksWithFallback
<1>4. CASE PatchAndRetry
  <2>1. /\ pc = "saved" /\ pc' = "head" /\ stepIndex' = stepIndex /\ toolCalls' = toolCalls
        /\ steps' = [steps EXCEPT ![stepIndex + 1].args =
                                      PatchedArgs(Current, FailureSignal.type)]
    BY <1>4, GoingOn DEF PatchAndRetry
  <2>2. Current \in Steps /\ stepIndex + 1 \in 1..Len(steps)
    BY <1>0, <2>1, HandledCall
  <2>3. Current = steps[stepIndex + 1] /\ AsksWithFallback(Current, Era)
    BY <1>0, <2>2 DEF Current, Sourced
  <2> DEFINE step == [Current EXCEPT !.args = PatchedArgs(Current, FailureSignal.type)]
  <2>4. /\ step.tool = Current.tool /\ step.fallback = Current.fallback
        /\ step.args.target = Current.args.target
    BY <2>2, Patched DEF Steps
  <2>5. AsksWithFallback(step, Era)
    <3> HIDE DEF step
    <3> QED
      BY <2>3, <2>4, SamePurpose
  <2>6. steps' = [steps EXCEPT ![stepIndex + 1] = step]
    BY <2>1, <2>3
  <2> HIDE DEF step
  <2>7. /\ Len(steps') = Len(steps) /\ steps'[stepIndex + 1] = step
        /\ \A j \in 1..Len(steps) : j # stepIndex + 1 => steps'[j] = steps[j]
    BY <1>0, <2>2, <2>6
  <2>8. Era' = Era
    <3>1. ~ReplanRemaining
      BY <1>4 DEF PatchAndRetry, ReplanRemaining, Decided
    <3> QED
      BY <3>1, EraNext
  <2>9. \A j \in (stepIndex' + 1)..Len(steps') : AsksWithFallback(steps'[j], Era')
    BY <1>0, <2>1, <2>5, <2>7, <2>8 DEF Sourced
  <2>10. \A i \in 1..Len(toolCalls') : \E f \in {"none", "schema_error"} : Asks(toolCalls'[i], f)
    BY <2>1 DEF Sourced
  <2> QED
    BY <1>1, <2>1, <2>9, <2>10 DEF Sourced, Asks, AsksWithFallback
<1>5. CASE ReplanRemaining
  <2> DEFINE past == SubSeq(steps, 1, stepIndex)
  <2>1. /\ pc = "saved" /\ pc' = "head" /\ stepIndex' = stepIndex /\ toolCalls' = toolCalls
        /\ steps' = past \o Answer
    BY <1>5, GoingOn DEF ReplanRemaining, Replanned
  <2>2. past \in Seq(Steps) /\ Len(past) = stepIndex /\ Answer \in Seq(Steps)
    BY <1>0, <2>1, PrefixType, HandlingTypes
  <2>3. Answer = run.answers["schema_error"]
    BY <1>5, ReplanIsEarly DEF ReplanRemaining, Answer
  <2> HIDE DEF past
  <2>4. /\ Len(Answer) \in Nat /\ Len(steps') = stepIndex + Len(Answer)
        /\ \A j \in (stepIndex + 1)..(stepIndex + Len(Answer)) : steps'[j] = Answer[j - stepIndex]
    BY <2>1, <2>2, Joined
  <2>5. \A j \in 1..Len(Answer) : AsksWithFallback(Answer[j], "schema_error")
    BY <2>3, RunSteps
  <2>6. \A j \in (stepIndex + 1)..(stepIndex + Len(Answer)) : j - stepIndex \in 1..Len(Answer)
    BY <1>0, <2>4
  <2>7. Era' = "schema_error"
    BY <1>5, EraNext
  <2>8. \A j \in (stepIndex' + 1)..Len(steps') : AsksWithFallback(steps'[j], Era')
    BY <2>1, <2>4, <2>5, <2>6, <2>7
  <2>9. \A i \in 1..Len(toolCalls') : \E f \in {"none", "schema_error"} : Asks(toolCalls'[i], f)
    BY <2>1 DEF Sourced
  <2> QED
    BY <1>1, <2>1, <2>8, <2>9 DEF Sourced, Asks, AsksWithFallback
<1>6. CASE Begin
  <2>1. /\ pc = "start" /\ pc' = "head" /\ stepIndex' = 0 /\ steps' = run.steps
        /\ toolCalls' = toolCalls /\ refinements' = refinements
    BY <1>0, <1>6 DEF Begin, traceVars, TypeInv, Handling
  <2>2. toolCalls = << >> /\ refinements = << >>
    BY <2>1 DEF Underway
  <2>3. Era' = "none"
    BY <2>1, <2>2 DEF Era, Replans
  <2>4. \A j \in (stepIndex' + 1)..Len(steps') : AsksWithFallback(steps'[j], Era')
    BY <2>1, <2>3, RunSteps
  <2>5. \A i \in 1..Len(toolCalls') : \E f \in {"none", "schema_error"} : Asks(toolCalls'[i], f)
    BY <2>1 DEF Sourced
  <2> QED
    BY <1>1, <2>1, <2>4, <2>5 DEF Sourced, Asks, AsksWithFallback
<1>7. CASE SaveOutcome \/ OnSuccess \/ SkipStep \/ Stops \/ GivesUp \/ Balks \/ Rests
  <2>1. /\ UNCHANGED <<steps, toolCalls>> /\ stepIndex' \in {stepIndex, stepIndex + 1}
        /\ pc' \in {"called", "saved"} => pc \in {"called", "saved"} /\ stepIndex' = stepIndex
    BY <1>7, GoingOn DEF SaveOutcome, OnSuccess, SkipStep, Stops, GivesUp, Balks, Rests,
       recordVars, loopVars, traceVars
  <2>2. Era' = Era
    <3>1. CASE SkipStep \/ GivesUp
      <4>1. ~ReplanRemaining
        BY <1>0, <3>1 DEF ReplanRemaining, SkipStep, GivesUp, Decided
      <4> QED
        BY <4>1, EraNext
    <3>2. CASE SaveOutcome \/ OnSuccess \/ Stops \/ Balks \/ Rests
      <4>1. UNCHANGED refinements
        BY <3>2 DEF SaveOutcome, OnSuccess, Stops, Balks, Rests, traceVars
      <4> QED
        BY <4>1 DEF Era
    <3> QED
      BY <1>7, <3>1, <3>2
  <2> QED
    BY <1>2, <2>1, <2>2
<1> QED
  BY <1>3, <1>4, <1>5, <1>6, <1>7, StepCases

LEMMA SourcedStart == Beginning => Sourced
<1> SUFFICES ASSUME Beginning PROVE Sourced
  OBVIOUS
<1>1. pc = "start" /\ Len(steps) = 0 /\ stepIndex = 0 /\ Len(toolCalls) = 0
  BY DEF Beginning, Unstarted
<1> QED
  BY <1>1 DEF Sourced

LEMMA SourcedInit == PipelineInit => Sourced
  BY SourcedStart DEF PipelineInit, Beginning

(* Rejection and stuttering leave everything it is about alone. *)
LEMMA SourcedStep ==
  Underway /\ Sourced /\ [PipelineNext]_pipelineVars => Sourced'
<1> SUFFICES ASSUME Underway, Sourced, [PipelineNext]_pipelineVars PROVE Sourced'
  OBVIOUS
<1>1. job' = job
  BY PipelineSteps
<1>2. CASE pc # "rejected" /\ [Next]_vars
  BY <1>1, <1>2, SourcedNext DEF Underway
<1>3. ASSUME UNCHANGED <<steps, stepIndex, toolCalls, refinements>>,
             pc' \in {"called", "saved"} => pc \in {"called", "saved"}
      PROVE  Sourced'
  <2>1. Era' = Era /\ Call' = Call /\ Current' = Current
    BY <1>3 DEF Era, Call, Current
  <2> QED
    BY <1>1, <1>3, <2>1 DEF Sourced, Asks, AsksWithFallback
<1>4. CASE RejectPlan \/ UNCHANGED <<vars, hits>>
  <2>1. /\ UNCHANGED <<steps, stepIndex, toolCalls, refinements>>
        /\ pc' \in {"called", "saved"} => pc \in {"called", "saved"}
    BY <1>4 DEF RejectPlan, vars, loopVars, traceVars
  <2> QED
    BY <1>3, <2>1
<1>5. Begin => [Next]_vars
  BY DEF Next
<1>6. pc = "start" => pc # "rejected"
  OBVIOUS
<1> QED
  BY <1>2, <1>4, <1>5, <1>6, PipelineSteps

LEMMA UnderwayAlways == PipelineSpec => [](Underway /\ Sourced)
  BY UnderwayInit, UnderwayNext, SourcedInit, SourcedStep, PTL DEF PipelineSpec

(* What was asked for a piece of an accepted plan, or of its answer, is    *)
(* acceptable.                                                             *)
LEMMA AskedIsAcceptable ==
  ASSUME PlanAccepted, NEW failure, NEW x, Asks(x, failure)
  PROVE  Acceptable(x, job.config)
<1>1. PICK p \in PieceSet(job.goal, job.config, failure) :
        x.tool = p.tool /\ x.args.target = p.args.target
  BY DEF Asks
<1>2. \A y \in PieceSet(job.goal, job.config, failure) :
        \E i \in 1..Len(BuildPlan(job.goal, job.config, failure)) :
        /\ BuildPlan(job.goal, job.config, failure)[i].tool = y.tool
        /\ BuildPlan(job.goal, job.config, failure)[i].args = y.args
  BY PlanSteps
<1>3. PICK i \in 1..Len(BuildPlan(job.goal, job.config, failure)) :
        /\ BuildPlan(job.goal, job.config, failure)[i].tool = p.tool
        /\ BuildPlan(job.goal, job.config, failure)[i].args = p.args
  BY <1>1, <1>2
<1>4. Acceptable(BuildPlan(job.goal, job.config, failure)[i], job.config)
  BY AcceptedPieces DEF PlanAccepted, Accepted
<1> QED
  BY <1>1, <1>3, <1>4 DEF Acceptable, PolicyAllows, ArgsAreValid

LEMMA CallsAcceptable ==
  ASSUME Underway, Sourced
  PROVE  CallsAreAcceptable
<1>1. CASE pc \in {"start", "rejected"}
  <2>1. Len(toolCalls) = 0
    BY <1>1 DEF Underway
  <2> QED
    BY <2>1 DEF CallsAreAcceptable
<1>2. CASE pc \notin {"start", "rejected"}
  BY <1>2, AskedIsAcceptable DEF Underway, Sourced, CallsAreAcceptable
<1> QED
  BY <1>1, <1>2

(* Replanned steps bypass validation, and no call is made that validation  *)
(* would have rejected: a plan made after a failure asks for what the      *)
(* accepted one asked for, or for the mock server's /data.                 *)
THEOREM CallsStayAcceptable == PipelineSpec => []CallsAreAcceptable
  BY UnderwayAlways, CallsAcceptable, PTL

-----------------------------------------------------------------------------
(* Replanning leads away from the malformed endpoint. *)

(* Nobody is asked but the mock server: the policy's defaults. *)
OnlyLocal == \A j \in Jobs : ~j.config.realHttp /\ "example.com" \notin j.config.hosts

LEMMA LocalTargets ==
  ASSUME OnlyLocal, job \in Jobs, NEW x, Acceptable(x, job.config), x.tool \in HttpTools
  PROVE  x.args.target # "http://example.com"
<1> SUFFICES ASSUME x.args.target = "http://example.com" PROVE FALSE
  OBVIOUS
<1>1. UrlAllowed(Asked(x.args.target).url, job.config)
  BY DEF Acceptable, PolicyAllows, PolicyLetsPass, HttpTools
<1>2. Asked(x.args.target).url.host = "example.com"
  BY DEF Asked, Urls
<1> QED
  BY <1>1, <1>2 DEF UrlAllowed, OnlyLocal

LEMMA MalformedOnly ==
  ASSUME NEW call, NEW o \in Outcomes(call), o.status = "schema_error",
         call.tool \in HttpTools => call.args.target # "http://example.com"
  PROVE  call.tool = "http_get" /\ call.args.target = "/malformed"
<1>1. "schema_error" \notin LocalStatuses(call)
  BY DEF LocalStatuses, CalcStatuses, SummarizeStatuses
<1>2. CASE call.tool \notin HttpTools
  BY <1>1, <1>2 DEF Outcomes
<1>3. CASE call.tool \in HttpTools
  <2> DEFINE reply == Reply(call.tool, call.args.target, hits)
  <2>1. o \in LossyExchange(call.tool, call.args, hits)
    BY <1>3 DEF Outcomes, LossyExchange
  <2>2. o.status = Received(call.args.strict, reply.body)
    BY <2>1 DEF LossyExchange, Exchange
  <2>3. reply.body = "text"
    BY <2>2 DEF Received
  <2>4. call.tool # "http_post" /\ call.args.target = "/malformed"
    BY <2>3 DEF Reply
  <2> QED
    BY <1>3, <2>4 DEF HttpTools
<1> QED
  BY <1>2, <1>3

(* The call that is made asks for what its step does. *)
LEMMA CallAsks ==
  ASSUME Inv, Sourced, CallTool
  PROVE  \E call :
           /\ toolCalls' = Append(toolCalls, call) /\ Asks(call, Era)
           /\ call.id = Current.id /\ call.tool = Current.tool
           /\ call.args.target = Current.args.target
<1>1. /\ steps \in Seq(Steps) /\ Len(steps) \in Nat /\ stepIndex \in Nat
      /\ observations \in Seq(Ids)
  BY LenProperties DEF Inv, TypeInv, TypeOK
<1>2. stepIndex + 1 \in 1..Len(steps)
  BY <1>1 DEF CallTool, More
<1>3. Current = steps[stepIndex + 1] /\ Current \in Steps /\ AsksWithFallback(Current, Era)
  BY <1>1, <1>2, ElementOfSeq DEF Current, Sourced
<1>4. PICK call :
        /\ toolCalls' = Append(toolCalls, call)
        /\ call.id = WithObservations(Current).id /\ call.tool = WithObservations(Current).tool
        /\ call.args = WithObservations(Current).args
  BY DEF CallTool
<1>5. call.id = Current.id /\ call.tool = Current.tool /\ call.args.target = Current.args.target
  BY <1>3, <1>4, FilledIn
<1>6. Asks(call, Era)
  BY <1>3, <1>5 DEF Asks, AsksWithFallback
<1> QED
  BY <1>4, <1>5, <1>6

LEMMA SchemaSignal ==
  ASSUME Call.status \in ToolCallStatuses, Call.status # "success",
         FailureSignal.type # "non_progress"
  PROVE  (FailureSignal.type = "schema_error") <=> (Call.status = "schema_error")
<1>1. ASSUME NEW s PROVE <<s>> # << >> /\ Head(<<s>>) = s
  OBVIOUS
<1> DEFINE found == EvaluateToolCall(Call.status, FALSE)
<1>2. \/ Call.status = "timeout" /\ found = <<Signal("timeout", TRUE)>>
      \/ Call.status = "schema_error" /\ found = <<Signal("schema_error", TRUE)>>
      \/ Call.status = "policy_blocked" /\ found = <<Signal("policy_violation", FALSE)>>
      \/ Call.status = "error" /\ found = <<Signal("tool_error", TRUE)>>
  BY DEF EvaluateToolCall, ToolCallStatuses
<1>3. FailureSignal = Head(found)
  <2>1. found # << >>
    BY <1>1, <1>2
  <2>2. Signal("non_progress", FALSE).type = "non_progress"
    BY DEF Signal
  <2> HIDE DEF found
  <2> QED
    BY <2>1, <2>2 DEF FailureSignal, found
<1> HIDE DEF found
<1> QED
  BY <1>1, <1>2, <1>3 DEF Signal

(* A malformed endpoint is not asked in a plan made after it failed, and a *)
(* step that asks it prefers to be replanned.                              *)
LEMMA MalformedStep ==
  ASSUME Underway, NEW x, NEW failure, AsksWithFallback(x, failure),
         x.tool = "http_get", x.args.target = "/malformed"
  PROVE  "replan" \in x.fallback /\ failure # "schema_error"
<1>1. job.goal \in Goals
  BY JobsAssumption DEF Underway
<1> QED
  BY <1>1, MalformedIsReplanned DEF AsksWithFallback

LEMMA MalformedCall ==
  ASSUME Underway, NEW x, Asks(x, "schema_error")
  PROVE  ~(x.tool = "http_get" /\ x.args.target = "/malformed")
<1>1. job.goal \in Goals
  BY JobsAssumption DEF Underway
<1> QED
  BY <1>1, MalformedIsReplanned DEF Asks

Malformed(call) == call.tool = "http_get" /\ call.args.target = "/malformed"

(* Only the malformed endpoint answers with no JSON; a call that got such  *)
(* an answer, once handled, has ended the run or had it replanned, and     *)
(* that once.                                                              *)
Away ==
  /\ \A i \in 1..Len(toolCalls) : toolCalls[i].status = "schema_error" => Malformed(toolCalls[i])
  /\ \A i, j \in Replans(refinements) : i = j
  /\ pc # "done" =>
       \A i \in 1..Handled : toolCalls[i].status = "schema_error" => Era = "schema_error"
  /\ \A i, j \in 1..Len(toolCalls) :
       i < j /\ toolCalls[i].status = "schema_error" => ~Malformed(toolCalls[j])

(* A malformed answer that does not end the run has it replanned, for the  *)
(* first time.                                                             *)
LEMMA MalformedDecision ==
  ASSUME Underway, Inv, Sourced, Away, NEW action, Decided(action),
         Call.status = "schema_error"
  PROVE  action = "replan_remaining" /\ Era = "none"
<1>1. /\ pc = "saved" /\ Call.status # "success" /\ FailureSignal.type # "non_progress"
      /\ Decide(Current, FailureSignal, Call.attempt, run.maxRetries, Answer) = action
  BY DEF Decided, Chosen, Failed
<1>2. Call.status \in ToolCallStatuses
  BY <1>1 DEF Inv, Limits
<1>3. FailureSignal.type = "schema_error"
  BY <1>1, <1>2, SchemaSignal
<1>4. Len(toolCalls) \in 1..Len(toolCalls) /\ stepIndex + 1 \in (stepIndex + 1)..Len(steps)
  BY <1>1, EmptySeq, LenProperties, HandledCall DEF Inv, TypeInv, TypeOK, Handling
<1>5. Malformed(Call) /\ Current.tool = "http_get" /\ Current.args.target = "/malformed"
  BY <1>1, <1>4 DEF Away, Sourced, Malformed, Call
<1>6. AsksWithFallback(Current, Era)
  BY <1>4 DEF Sourced, Current
<1>7. "replan" \in Current.fallback /\ Era # "schema_error"
  BY <1>5, <1>6, MalformedStep
<1>8. Answer # << >>
  BY <1>3 DEF Inv, TypeInv, TypeOK, IsRun, Answer, FailureTypes
<1> QED
  BY <1>1, <1>3, <1>7, <1>8 DEF Decide, ReplansEarly, PrefersReplan, Era

LEMMA AwayInit == PipelineInit => Away
<1> SUFFICES ASSUME PipelineInit PROVE Away
  OBVIOUS
<1>1. Len(toolCalls) = 0 /\ Len(refinements) = 0 /\ Handled = 0
  BY DEF PipelineInit, Unstarted, Handled, AllButLast
<1> QED
  BY <1>1 DEF Away, Replans

LEMMA AwayCall ==
  ASSUME OnlyLocal, Underway, Inv, Sourced, Away, PlanAccepted, CallServer
  PROVE  Away'
<1>0. /\ toolCalls \in Seq(ToolCallRecords) /\ Len(toolCalls) \in Nat
      /\ pc = "head" /\ pc' = "called"
  BY LenProperties DEF Inv, TypeInv, TypeOK, CallServer, CallTool
<1>1. PICK call : toolCalls' = Append(toolCalls, call) /\ Asks(call, Era)
  BY CallAsks DEF CallServer
<1>2. /\ Len(toolCalls') = Len(toolCalls) + 1 /\ toolCalls'[Len(toolCalls')] = call
      /\ \A i \in 1..Len(toolCalls) : toolCalls'[i] = toolCalls[i]
  BY <1>0, <1>1, Appended
<1>3. Acceptable(call, job.config)
  BY <1>1, AskedIsAcceptable
<1>4. call.tool \in HttpTools => call.args.target # "http://example.com"
  BY <1>3, LocalTargets DEF Underway
<1>5. call.status = "schema_error" => Malformed(call)
  <2>1. PICK o \in Outcomes(call) : call.status = o.status
    BY <1>2 DEF CallServer
  <2> QED
    BY <1>4, <2>1, MalformedOnly DEF Malformed
<1>6. Handled = Len(toolCalls) /\ Handled' = Len(toolCalls)
  BY <1>0, <1>2 DEF Handled, AllButLast
<1>7. Era' = Era /\ refinements' = refinements
  BY DEF CallServer, CallTool, Era
<1>8. \A i \in 1..Len(toolCalls) : toolCalls[i].status = "schema_error" => Era = "schema_error"
  BY <1>0, <1>6 DEF Away
<1>9. Era = "schema_error" => ~Malformed(call)
  BY <1>1, MalformedCall DEF Malformed
<1>10. \A i \in 1..Len(toolCalls') :
         toolCalls'[i].status = "schema_error" => Malformed(toolCalls'[i])
  BY <1>0, <1>2, <1>5 DEF Away
<1>11. \A i, j \in 1..Len(toolCalls') :
         i < j /\ toolCalls'[i].status = "schema_error" => ~Malformed(toolCalls'[j])
  <2> SUFFICES ASSUME NEW i \in 1..Len(toolCalls'), NEW j \in 1..Len(toolCalls'),
                      i < j, toolCalls'[i].status = "schema_error"
               PROVE  ~Malformed(toolCalls'[j])
    OBVIOUS
  <2>1. i \in 1..Len(toolCalls) /\ toolCalls[i].status = "schema_error"
    BY <1>0, <1>2
  <2>2. CASE j \in 1..Len(toolCalls)
    BY <1>2, <2>1, <2>2 DEF Away
  <2>3. CASE j = Len(toolCalls')
    BY <1>2, <1>8, <1>9, <2>1, <2>3
  <2> QED
    BY <1>0, <1>2, <2>2, <2>3
<1>12. \A i \in 1..Handled' : toolCalls'[i].status = "schema_error" => Era' = "schema_error"
  BY <1>2, <1>6, <1>7, <1>8
<1>13. \A i, j \in Replans(refinements') : i = j
  BY <1>7 DEF Away
<1> QED
  BY <1>10, <1>11, <1>12, <1>13 DEF Away, Malformed

LEMMA AwayNext ==
  ASSUME Underway, Inv, Sourced, Away, [Next]_vars, ~CallTool
  PROVE  Away'
<1>0. /\ TypeInv /\ toolCalls \in Seq(ToolCallRecords) /\ Len(toolCalls) \in Nat
  BY LenProperties DEF Inv, TypeInv, TypeOK
<1>1. ASSUME toolCalls' = toolCalls, \A i, j \in Replans(refinements') : i = j,
             pc' # "done" =>
               \A i \in 1..Handled' : toolCalls[i].status = "schema_error" => Era' = "schema_error"
      PROVE  Away'
  BY <1>1 DEF Away, Malformed
<1>2. CASE ReplanRemaining
  <2>1. Decided("replan_remaining") /\ toolCalls' = toolCalls /\ pc = "saved"
        /\ Call.status # "success" /\ FailureSignal.type # "non_progress"
    BY <1>2, GoingOn DEF ReplanRemaining
  <2>2. Call.status = "schema_error"
    BY <2>1, ReplanIsEarly, SchemaSignal DEF Inv, Limits
  <2>3. Replans(refinements) = {}
    BY <2>1, <2>2, MalformedDecision DEF Era
  <2>4. \A i, j \in Replans(refinements') : i = j
    BY <1>2, <2>3, EraNext
  <2> QED
    BY <1>1, <1>2, <2>1, <2>4, EraNext
<1>3. ASSUME ~ReplanRemaining, toolCalls' = toolCalls
      PROVE  \A i, j \in Replans(refinements') : i = j
  BY <1>3, EraNext DEF Away
<1>4. CASE PatchAndRetry \/ SkipStep
  <2>1. PICK action \in {"patch_and_retry", "skip_step"} : Decided(action)
    BY <1>4 DEF PatchAndRetry, SkipStep
  <2>2. Call.status # "schema_error"
    BY <2>1, MalformedDecision
  <2>3. ~ReplanRemaining /\ toolCalls' = toolCalls /\ pc = "saved" /\ pc' = "head"
    BY <1>0, <1>4, <2>1, GoingOn DEF ReplanRemaining, PatchAndRetry, SkipStep, Decided
  <2>4. Handled = Len(toolCalls) - 1 /\ Handled' = Len(toolCalls) /\ Era' = Era
    BY <2>3, EraNext DEF Handled, AllButLast
  <2>5. \A i \in 1..Handled' : toolCalls[i].status = "schema_error" => Era' = "schema_error"
    BY <1>0, <2>2, <2>3, <2>4 DEF Away, Call
  <2> QED
    BY <1>1, <1>3, <2>3, <2>5
<1>5. CASE OnSuccess
  <2>1. ~ReplanRemaining /\ toolCalls' = toolCalls /\ pc = "saved" /\ pc' = "head"
        /\ Call.status = "success"
    BY <1>5 DEF OnSuccess, ReplanRemaining, Decided, Chosen, Failed
  <2>2. Handled = Len(toolCalls) - 1 /\ Handled' = Len(toolCalls) /\ Era' = Era
    BY <2>1, EraNext DEF Handled, AllButLast
  <2>3. \A i \in 1..Handled' : toolCalls[i].status = "schema_error" => Era' = "schema_error"
    BY <1>0, <2>1, <2>2 DEF Away, Call
  <2> QED
    BY <1>1, <1>3, <2>1, <2>3
<1>6. CASE Stops \/ GivesUp
  <2>1. toolCalls' = toolCalls /\ pc' = "done" /\ ~ReplanRemaining
    BY <1>6 DEF Stops, GivesUp, recordVars, ReplanRemaining
  <2> QED
    BY <1>1, <1>3, <2>1
<1>7. CASE Begin \/ SaveOutcome \/ Balks \/ Rests
  <2>1. /\ toolCalls' = toolCalls /\ refinements' = refinements
        /\ pc = "done" => pc' = "done"
    BY <1>7 DEF Begin, SaveOutcome, Balks, Rests, recordVars, traceVars
  <2>2. Handled' = Handled
    BY <1>7 DEF Begin, SaveOutcome, Balks, Rests, recordVars, traceVars, Handled, AllButLast
  <2>3. Era' = Era
    BY <2>1 DEF Era
  <2> QED
    BY <1>1, <2>1, <2>2, <2>3 DEF Away
<1> QED
  BY <1>2, <1>4, <1>5, <1>6, <1>7, StepCases

(* Under the policy's defaults a run replans at most once, whatever the    *)
(* network loses and however it retries, and asks the malformed endpoint   *)
(* no more once that has answered.                                         *)
THEOREM ReplanningLeadsAway ==
  ASSUME OnlyLocal
  PROVE  PipelineSpec => []ReplanLeadsAway
<1>1. Underway /\ Sourced /\ Away /\ [PipelineNext]_pipelineVars => Away'
  <2> SUFFICES ASSUME Underway, Sourced, Away, [PipelineNext]_pipelineVars PROVE Away'
    OBVIOUS
  <2>1. CASE pc \notin {"start", "rejected"} /\ CallServer
    BY <2>1, AwayCall DEF Underway
  <2>2. CASE pc \notin {"start", "rejected"} /\ [Next]_vars /\ ~CallTool
    BY <2>2, AwayNext DEF Underway
  <2>3. CASE pc = "start" /\ Begin
    BY <2>3, AwayNext DEF Underway, Next, Begin, CallTool
  <2>4. CASE RejectPlan
    <3>1. /\ Len(toolCalls) = 0 /\ Len(refinements) = 0 /\ UNCHANGED <<toolCalls, refinements>>
          /\ pc' = "rejected"
      BY <2>4 DEF RejectPlan, Underway, traceVars
    <3>2. Handled' = 0
      BY <3>1 DEF Handled, AllButLast
    <3> QED
      BY <3>1, <3>2 DEF Away, Replans
  <2>5. CASE UNCHANGED <<vars, hits>>
    <3>1. UNCHANGED <<pc, toolCalls, refinements>>
      BY <2>5 DEF vars, traceVars
    <3> QED
      BY <3>1 DEF Away, Handled, AllButLast, Era
  <2> QED
    BY <2>1, <2>2, <2>3, <2>4, <2>5, PipelineSteps
<1>2. ASSUME Underway, Away
      PROVE  ReplanLeadsAway
  <2>1. Replans(refinements) = {} \/ \E k : Replans(refinements) = {k}
    BY <1>2 DEF Away
  <2>2. Cardinality(Replans(refinements)) <= 1
    <3>1. CASE Replans(refinements) = {}
      BY <3>1, FS_EmptySet
    <3>2. ASSUME NEW k, Replans(refinements) = {k}
          PROVE  Cardinality(Replans(refinements)) <= 1
      <4>1. Cardinality(Replans(refinements)) = 1
        BY <3>2, FS_Singleton
      <4> QED
        BY <4>1
    <3> QED
      BY <2>1, <3>1, <3>2
  <2> QED
    BY <1>2, <2>2 DEF ReplanLeadsAway, HowMany, Replans, Away, Malformed
<1> QED
  BY <1>1, <1>2, AwayInit, UnderwayAlways, PTL DEF PipelineSpec

-----------------------------------------------------------------------------
(* Submissions. *)

Sent(call) == IsPost(call) /\ call.args.target = "/submit"

SentIn(s) == {i \in 1..Len(s) : Sent(s[i])}
AcknowledgedIn(s) == {i \in 1..Len(s) : Sent(s[i]) /\ s[i].status = "success"}

LEMMA SentCount ==
  ASSUME NEW S, NEW s \in Seq(S), NEW e
  PROVE  /\ Cardinality(SentIn(s)) \in Nat /\ Cardinality(AcknowledgedIn(s)) \in Nat
         /\ Cardinality(SentIn(Append(s, e))) =
              Cardinality(SentIn(s)) + (IF Sent(e) THEN 1 ELSE 0)
         /\ Cardinality(AcknowledgedIn(Append(s, e))) =
              Cardinality(AcknowledgedIn(s)) + (IF Sent(e) /\ e.status = "success" THEN 1 ELSE 0)
<1>1. SentIn(s) \subseteq 1..Len(s) /\ AcknowledgedIn(s) \subseteq 1..Len(s) /\ Len(s) \in Nat
  BY DEF SentIn, AcknowledgedIn
<1>2. /\ Cardinality(SentIn(s)) \in Nat /\ Cardinality(AcknowledgedIn(s)) \in Nat
      /\ Cardinality(SentIn(s) \cup {Len(s) + 1}) = Cardinality(SentIn(s)) + 1
      /\ Cardinality(AcknowledgedIn(s) \cup {Len(s) + 1}) = Cardinality(AcknowledgedIn(s)) + 1
  BY <1>1, OneMore
<1>3. SentIn(Append(s, e)) = IF Sent(e) THEN SentIn(s) \cup {Len(s) + 1} ELSE SentIn(s)
  BY Appended DEF SentIn
<1>4. AcknowledgedIn(Append(s, e)) =
        IF Sent(e) /\ e.status = "success" THEN AcknowledgedIn(s) \cup {Len(s) + 1}
                                           ELSE AcknowledgedIn(s)
  BY Appended DEF AcknowledgedIn
<1>5. Cardinality(SentIn(Append(s, e))) = Cardinality(SentIn(s)) + (IF Sent(e) THEN 1 ELSE 0)
  BY <1>2, <1>3
<1>6. Cardinality(AcknowledgedIn(Append(s, e))) =
        Cardinality(AcknowledgedIn(s)) + (IF Sent(e) /\ e.status = "success" THEN 1 ELSE 0)
  BY <1>2, <1>4
<1> QED
  BY <1>2, <1>5, <1>6

(* What a request does to the counter of submissions: a submission may be  *)
(* counted whatever becomes of the answer, and was when it is acknowledged. *)
LEMMA OutcomeCounts ==
  ASSUME NEW call, NEW o \in Outcomes(call)
  PROVE  /\ ~Sent(call) => CountOf(o.hits, "/submit") = CountOf(hits, "/submit")
         /\ CountOf(o.hits, "/submit") \in {CountOf(hits, "/submit"), CountOf(hits, "/submit") + 1}
         /\ Sent(call) /\ o.status = "success" =>
              CountOf(o.hits, "/submit") = CountOf(hits, "/submit") + 1
<1> DEFINE reply == Reply(call.tool, call.args.target, hits)
<1>1. /\ Sent(call) => reply.hits = Bump(hits, "/submit")
      /\ ~Sent(call) => \/ reply.hits = hits
                        \/ \E t \in FlakyEndpoints : reply.hits = Bump(hits, t)
  BY DEF Reply, Sent, IsPost
<1>2. "/submit" \notin FlakyEndpoints
  BY DEF FlakyEndpoints
<1>3. /\ Sent(call) => CountOf(reply.hits, "/submit") = CountOf(hits, "/submit") + 1
      /\ ~Sent(call) => CountOf(reply.hits, "/submit") = CountOf(hits, "/submit")
  <2> HIDE DEF reply
  <2> QED
    BY <1>1, <1>2, BumpCounts
<1>4. o.hits \in {hits, reply.hits}
  BY DEF Outcomes, ForeignExchange, LossyExchange, Exchange
<1>5. Sent(call) /\ o.status = "success" => o.hits = reply.hits
  BY DEF Outcomes, LossyExchange, Exchange, Sent, IsPost, HttpTools
<1> HIDE DEF reply
<1> QED
  BY <1>3, <1>4, <1>5

(* The counter is what was sent, less what was lost on the way there.      *)
Counted ==
  /\ CountOf(hits, "/submit") \in Nat
  /\ CountOf(hits, "/submit") <= Cardinality(SentIn(toolCalls))
  /\ CountOf(hits, "/submit") >= Cardinality(AcknowledgedIn(toolCalls))

(* A goal that submits has a plan whose first step does, and asks the      *)
(* server for nothing else.                                                *)
Submits == HttpUrl(job.goal) = "/submit" /\ Has(job.goal, {"post"})

(* So no answer is malformed and the plan stays: only the first step       *)
(* submits, and every submission but the last was followed by a retry.     *)
FirstOnly ==
  /\ ~Submits => SentIn(toolCalls) = {}
  /\ Cardinality(SentIn(toolCalls)) <= AttemptLimit
  /\ Submits =>
       /\ \A j \in 1..Len(steps) : j > 1 => steps[j].tool # "http_post"
       /\ Len(steps) > 0 => steps[1].id = "s1"
       /\ \A i \in 1..Len(toolCalls) : toolCalls[i].status # "schema_error"
       /\ stepIndex = 0 /\ pc \in {"start", "head"} =>
            Cardinality(SentIn(toolCalls)) <= CountOf(retries, "s1")
       /\ stepIndex = 0 /\ pc \in {"called", "saved"} =>
            Cardinality(SentIn(toolCalls)) <= CountOf(retries, "s1") + 1

LEMMA SubmissionAsks ==
  ASSUME NEW x, NEW failure, Asks(x, failure)
  PROVE  /\ Sent(x) => Submits
         /\ Submits => x.tool # "http_get"
         /\ Submits /\ x.tool \in HttpTools => x.args.target # "http://example.com"
<1>1. PICK p \in PieceSet(job.goal, job.config, failure) :
        x.tool = p.tool /\ x.args.target = p.args.target
  BY DEF Asks
<1>2. /\ p.tool \in HttpTools => p.args.target \in {HttpUrl(job.goal), "/data"}
      /\ p.tool = "http_post" => p.args.target = HttpUrl(job.goal) /\ Has(job.goal, {"post"})
      /\ p.tool = "http_get" => ~(HttpUrl(job.goal) = "/submit" /\ Has(job.goal, {"post"}))
  BY TargetsOfRequests
<1> QED
  BY <1>1, <1>2 DEF Sent, IsPost, Submits, HttpTools

(* The steps of the plan a run of the pipeline begins with. *)
LEMMA FirstStep ==
  ASSUME Underway, Inv
  PROVE  /\ \A j \in 1..Len(run.steps) : j > 1 => run.steps[j].tool # "http_post"
         /\ Len(run.steps) > 0 => run.steps[1].id = "s1"
<1> DEFINE plan == BuildPlan(job.goal, job.config, "none")
           pieces == Pieces(job.goal, job.config, "none")
<1>1. /\ Len(plan) \in Nat /\ Len(plan) = Len(pieces)
      /\ plan = [i \in 1..Len(pieces) |->
                   [id |-> StepId[i], tool |-> pieces[i].tool,
                    args |-> pieces[i].args, fallback |-> pieces[i].fallback]]
  BY PlanMembers
<1>2. PostsFirst(pieces)
  BY PiecesRange
<1>3. run.steps = Validated(plan)
  BY DEF Underway, JobRun, RunOf
<1>4. run.steps \in Seq(Steps)
  BY DEF Inv, TypeInv, TypeOK, IsRun, RunRecords
<1> HIDE DEF plan, pieces
<1>5. run.steps = [i \in 1..Len(plan) |-> [plan[i] EXCEPT !.args.full = TRUE]]
  BY <1>3 DEF Validated
<1>6. Len(run.steps) = Len(plan)
  BY <1>1, <1>5
<1>7. ASSUME NEW j \in 1..Len(run.steps)
      PROVE  run.steps[j].id = StepId[j] /\ run.steps[j].tool = pieces[j].tool
  <2>1. run.steps[j] \in Steps /\ run.steps[j] = [plan[j] EXCEPT !.args.full = TRUE]
    BY <1>4, <1>5, <1>6, ElementOfSeq
  <2>2. plan[j].id = StepId[j] /\ plan[j].tool = pieces[j].tool
    BY <1>1, <1>6
  <2>3. run.steps[j].id = plan[j].id /\ run.steps[j].tool = plan[j].tool
    BY <2>1 DEF Steps
  <2> QED
    BY <2>2, <2>3
<1>8. \A j \in 1..Len(run.steps) : j > 1 => run.steps[j].tool # "http_post"
  BY <1>1, <1>2, <1>6, <1>7 DEF PostsFirst
<1>9. Len(run.steps) > 0 => run.steps[1].id = "s1"
  BY <1>1, <1>6, <1>7 DEF StepId
<1> QED
  BY <1>8, <1>9

LEMMA CountedCall ==
  ASSUME Inv, Counted, CallServer
  PROVE  Counted'
<1>1. toolCalls \in Seq(ToolCallRecords) /\ Len(toolCalls) \in Nat
  BY LenProperties DEF Inv, TypeInv, TypeOK
<1>2. PICK call : toolCalls' = Append(toolCalls, call)
  BY DEF CallServer, CallTool
<1>3. toolCalls'[Len(toolCalls')] = call
  BY <1>1, <1>2, Appended
<1>4. PICK o \in Outcomes(call) : call.status = o.status /\ hits' = o.hits
  BY <1>3 DEF CallServer
<1>5. /\ ~Sent(call) => CountOf(hits', "/submit") = CountOf(hits, "/submit")
      /\ CountOf(hits', "/submit") \in {CountOf(hits, "/submit"), CountOf(hits, "/submit") + 1}
      /\ Sent(call) /\ call.status = "success" =>
           CountOf(hits', "/submit") = CountOf(hits, "/submit") + 1
  BY <1>4, OutcomeCounts
<1>6. /\ Cardinality(SentIn(toolCalls)) \in Nat /\ Cardinality(AcknowledgedIn(toolCalls)) \in Nat
      /\ Cardinality(SentIn(toolCalls')) =
           Cardinality(SentIn(toolCalls)) + (IF Sent(call) THEN 1 ELSE 0)
      /\ Cardinality(AcknowledgedIn(toolCalls')) =
           Cardinality(AcknowledgedIn(toolCalls))
             + (IF Sent(call) /\ call.status = "success" THEN 1 ELSE 0)
  BY <1>1, <1>2, SentCount
<1> QED
  BY <1>5, <1>6 DEF Counted

(* The step lists of the executor's own steps, but for a replan.           *)
LEMMA FirstStepNext ==
  ASSUME Underway, Inv, [Next]_vars, ~ReplanRemaining,
         \A j \in 1..Len(steps) : j > 1 => steps[j].tool # "http_post",
         Len(steps) > 0 => steps[1].id = "s1"
  PROVE  /\ \A j \in 1..Len(steps') : j > 1 => steps'[j].tool # "http_post"
         /\ Len(steps') > 0 => steps'[1].id = "s1"
<1>0. /\ steps \in Seq(Steps) /\ Len(steps) \in Nat /\ stepIndex \in Nat
      /\ observations \in Seq(Ids)
  BY LenProperties DEF Inv, TypeInv, TypeOK
<1>1. ASSUME NEW step \in Steps, stepIndex + 1 \in 1..Len(steps),
             steps' = [steps EXCEPT ![stepIndex + 1] = step],
             step.id = Current.id, step.tool = Current.tool
      PROVE  /\ \A j \in 1..Len(steps') : j > 1 => steps'[j].tool # "http_post"
             /\ Len(steps') > 0 => steps'[1].id = "s1"
  <2>1. /\ Len(steps') = Len(steps)
        /\ \A j \in 1..Len(steps) : steps'[j] = IF j = stepIndex + 1 THEN step ELSE steps[j]
    BY <1>0, <1>1, ExceptSeq
  <2>2. \A j \in 1..Len(steps) : steps'[j].id = steps[j].id /\ steps'[j].tool = steps[j].tool
    BY <1>1, <2>1 DEF Current
  <2> QED
    BY <1>0, <2>1, <2>2
<1>2. CASE CallTool
  <2>1. stepIndex + 1 \in 1..Len(steps)
    BY <1>0, <1>2 DEF CallTool, More
  <2>2. Current \in Steps
    BY <1>0, <2>1, ElementOfSeq DEF Current
  <2>3. WithObservations(Current) \in Steps
    BY <1>0, <2>2, WithObservationsType
  <2> QED
    BY <1>1, <1>2, <2>1, <2>2, <2>3, FilledIn DEF CallTool
<1>3. CASE PatchAndRetry
  <2>1. Current \in Steps /\ stepIndex + 1 \in 1..Len(steps)
    BY <1>3, GoingOn, HandledCall DEF Inv
  <2>2. PatchedArgs(Current, FailureSignal.type) \in Args
    BY <2>1, PatchedArgsType
  <2> DEFINE step == [Current EXCEPT !.args = PatchedArgs(Current, FailureSignal.type)]
  <2>3. step \in Steps /\ step.id = Current.id /\ step.tool = Current.tool
    BY <2>1, <2>2 DEF Steps
  <2>4. steps' = [steps EXCEPT ![stepIndex + 1] = step]
    BY <1>3 DEF PatchAndRetry, Current
  <2> HIDE DEF step
  <2> QED
    BY <1>1, <2>1, <2>3, <2>4
<1>4. CASE Begin
  BY <1>4, FirstStep DEF Begin
<1>5. CASE SaveOutcome \/ OnSuccess \/ SkipStep \/ Stops \/ GivesUp \/ Balks \/ Rests
  <2>1. steps' = steps
    BY <1>5 DEF SaveOutcome, OnSuccess, SkipStep, Stops, GivesUp, Balks, Rests, loopVars
  <2> QED
    BY <2>1
<1> QED
  BY <1>2, <1>3, <1>4, <1>5, StepCases

LEMMA FirstOnlyCall ==
  ASSUME Underway, Inv, Retried, Sourced, FirstOnly, CallServer, [Next]_vars, job' = job
  PROVE  FirstOnly'
<1>0. /\ toolCalls \in Seq(ToolCallRecords) /\ Len(toolCalls) \in Nat
      /\ steps \in Seq(Steps) /\ Len(steps) \in Nat /\ stepIndex \in Nat
      /\ pc = "head" /\ pc' = "called" /\ stepIndex' = stepIndex
      /\ retries' = retries /\ run' = run /\ stepIndex + 1 \in 1..Len(steps)
  BY LenProperties DEF Inv, TypeInv, TypeOK, CallServer, CallTool, More, stmVars
<1>1. PICK call : /\ toolCalls' = Append(toolCalls, call) /\ Asks(call, Era)
                  /\ call.tool = Current.tool
  BY CallAsks DEF CallServer
<1>2. /\ Len(toolCalls') = Len(toolCalls) + 1 /\ toolCalls'[Len(toolCalls')] = call
      /\ \A i \in 1..Len(toolCalls) : toolCalls'[i] = toolCalls[i]
  BY <1>0, <1>1, Appended
<1>3. /\ Sent(call) => Submits
      /\ Submits => call.tool # "http_get"
      /\ Submits /\ call.tool \in HttpTools => call.args.target # "http://example.com"
  BY <1>1, SubmissionAsks
<1>4. /\ Cardinality(SentIn(toolCalls)) \in Nat
      /\ Cardinality(SentIn(toolCalls')) =
           Cardinality(SentIn(toolCalls)) + (IF Sent(call) THEN 1 ELSE 0)
  BY <1>0, <1>1, SentCount
<1>5. Submits' = Submits /\ AttemptLimit' = AttemptLimit
  BY <1>0 DEF Submits, AttemptLimit
<1>6. ~Submits => SentIn(toolCalls') = {}
  <2>1. ~Sent(call) => SentIn(toolCalls') = SentIn(toolCalls)
    BY <1>0, <1>2 DEF SentIn
  <2> QED
    BY <1>3, <2>1 DEF FirstOnly
<1>7. Submits => call.status # "schema_error"
  <2>1. PICK o \in Outcomes(call) : call.status = o.status
    BY <1>2 DEF CallServer
  <2> QED
    BY <1>3, <2>1, MalformedOnly
<1>8. ~ReplanRemaining
  BY <1>0 DEF ReplanRemaining, Decided, Chosen, Failed
<1>9. Submits =>
        /\ \A j \in 1..Len(steps') : j > 1 => steps'[j].tool # "http_post"
        /\ Len(steps') > 0 => steps'[1].id = "s1"
  BY <1>8, FirstStepNext DEF FirstOnly
<1>10. Submits => \A i \in 1..Len(toolCalls') : toolCalls'[i].status # "schema_error"
  BY <1>0, <1>2, <1>7 DEF FirstOnly
<1>11. Sent(call) => stepIndex = 0
  <2>1. Sent(call) => Submits /\ steps[stepIndex + 1].tool = "http_post"
    BY <1>1, <1>3 DEF Sent, IsPost, Current
  <2>2. Submits => ~(stepIndex + 1 > 1 /\ steps[stepIndex + 1].tool = "http_post")
    BY <1>0 DEF FirstOnly
  <2> QED
    BY <1>0, <2>1, <2>2
<1>12. Sent(call) => "s1" \in Ids
  <2>1. steps[1] \in Steps
    BY <1>0, ElementOfSeq
  <2>2. steps[1].id \in Ids
    BY <2>1 DEF Steps
  <2> QED
    BY <1>0, <1>3, <2>2 DEF FirstOnly
<1>13. /\ CountOf(retries, "s1") \in Nat /\ AttemptLimit \in Nat
       /\ "s1" \in Ids => CountOf(retries, "s1") < AttemptLimit
  <2>1. CountOf(retries, "s1") \in Nat
    BY DEF Inv, TypeInv, TypeOK, IsCounter, CountOf
  <2>2. AttemptLimit \in Nat
    BY LimitsType DEF Inv, AttemptLimit
  <2> QED
    BY <2>1, <2>2 DEF Retried
<1>14. Sent(call) => Cardinality(SentIn(toolCalls)) <= CountOf(retries, "s1")
  BY <1>0, <1>3, <1>11 DEF FirstOnly
<1>15. Cardinality(SentIn(toolCalls')) <= AttemptLimit
  <2>1. Cardinality(SentIn(toolCalls)) <= AttemptLimit
    BY DEF FirstOnly
  <2> QED
    BY <1>4, <1>12, <1>13, <1>14, <2>1
<1>16. Submits /\ stepIndex = 0 => Cardinality(SentIn(toolCalls)) <= CountOf(retries, "s1")
  BY <1>0 DEF FirstOnly
<1>17. Submits /\ stepIndex' = 0 => Cardinality(SentIn(toolCalls')) <= CountOf(retries', "s1") + 1
  BY <1>0, <1>4, <1>13, <1>16
<1> QED
  BY <1>0, <1>5, <1>6, <1>9, <1>10, <1>15, <1>17 DEF FirstOnly

LEMMA FirstOnlyNext ==
  ASSUME Underway, Inv, Retried, Sourced, FirstOnly, [Next]_vars, ~CallTool, job' = job
  PROVE  FirstOnly'
<1>0. /\ TypeInv /\ toolCalls \in Seq(ToolCallRecords) /\ Len(toolCalls) \in Nat
      /\ stepIndex \in Nat /\ Len(steps) \in Nat
      /\ CountOf(retries, "s1") \in Nat /\ Cardinality(SentIn(toolCalls)) \in Nat
  <2>1. toolCalls \in Seq(ToolCallRecords) /\ steps \in Seq(Steps)
    BY DEF Inv, TypeInv, TypeOK
  <2>2. CountOf(retries, "s1") \in Nat
    BY DEF Inv, TypeInv, TypeOK, IsCounter, CountOf
  <2> QED
    BY <2>1, <2>2, SentCount, LenProperties DEF Inv, TypeInv, TypeOK
<1>1. toolCalls' = toolCalls /\ run' = run
  BY StepCases, GoingOn DEF Begin, SaveOutcome, OnSuccess, Stops, GivesUp, Balks, Rests,
     recordVars, traceVars
<1>2. Submits' = Submits /\ AttemptLimit' = AttemptLimit
  BY <1>1 DEF Submits, AttemptLimit
<1>3. ReplanRemaining => ~Submits
  <2> SUFFICES ASSUME ReplanRemaining, Submits PROVE FALSE
    OBVIOUS
  <2>1. /\ pc = "saved" /\ Decided("replan_remaining")
        /\ Call.status # "success" /\ FailureSignal.type # "non_progress"
    BY GoingOn DEF ReplanRemaining
  <2>2. Call.status = "schema_error"
    BY <2>1, ReplanIsEarly, SchemaSignal DEF Inv, Limits
  <2>3. Len(toolCalls) \in 1..Len(toolCalls)
    BY <1>0, <2>1, EmptySeq, LenProperties DEF TypeInv, Handling
  <2> QED
    BY <2>2, <2>3 DEF FirstOnly, Call
<1>4. Submits =>
        /\ \A j \in 1..Len(steps') : j > 1 => steps'[j].tool # "http_post"
        /\ Len(steps') > 0 => steps'[1].id = "s1"
  BY <1>3, FirstStepNext DEF FirstOnly
<1> DEFINE n == Cardinality(SentIn(toolCalls))
<1>5. Submits =>
        /\ stepIndex' = 0 /\ pc' \in {"start", "head"} => n <= CountOf(retries', "s1")
        /\ stepIndex' = 0 /\ pc' \in {"called", "saved"} => n <= CountOf(retries', "s1") + 1
  <2> SUFFICES ASSUME Submits, stepIndex' = 0
               PROVE  /\ pc' \in {"start", "head"} => n <= CountOf(retries', "s1")
                      /\ pc' \in {"called", "saved"} => n <= CountOf(retries', "s1") + 1
    OBVIOUS
  <2>0. /\ stepIndex = 0 /\ pc \in {"start", "head"} => n <= CountOf(retries, "s1")
        /\ stepIndex = 0 /\ pc \in {"called", "saved"} => n <= CountOf(retries, "s1") + 1
    BY DEF FirstOnly
  <2> HIDE DEF n
  <2>1. CASE PatchAndRetry
    <3>1. pc = "saved" /\ pc' = "head" /\ stepIndex = 0 /\ retries' = Bump(retries, Call.id)
      BY <2>1, GoingOn DEF PatchAndRetry
    <3>2. stepIndex + 1 \in 1..Len(steps)
      BY <1>0, <3>1, HandledCall
    <3>3. Call.id = "s1"
      BY <1>0, <3>1, <3>2 DEF Sourced, Current, FirstOnly
    <3>4. CountOf(retries', "s1") = CountOf(retries, "s1") + 1
      BY <3>1, <3>3, BumpCounts
    <3> QED
      BY <2>0, <3>1, <3>4
  <2>2. CASE ReplanRemaining
    BY <1>3, <2>2
  <2>3. CASE OnSuccess \/ SkipStep
    BY <1>0, <2>3 DEF OnSuccess, SkipStep
  <2>4. CASE Begin
    <3>1. pc = "start" /\ pc' = "head" /\ stepIndex' = stepIndex /\ retries' = retries
      BY <2>4 DEF Begin, stmVars
    <3> QED
      BY <2>0, <3>1
  <2>5. CASE SaveOutcome \/ Rests
    <3>1. /\ stepIndex' = stepIndex /\ retries' = retries
          /\ \/ pc' = pc
             \/ pc = "called" /\ pc' = "saved"
             \/ pc' \in {"unlogged", "unsaved"}
      BY <2>5 DEF SaveOutcome, Rests, recordVars, loopVars, stmVars
    <3> QED
      BY <2>0, <3>1
  <2>6. CASE Stops \/ GivesUp \/ Balks
    BY <2>6 DEF Stops, GivesUp, Balks
  <2> QED
    BY <2>1, <2>2, <2>3, <2>4, <2>5, <2>6, StepCases
<1> QED
  BY <1>1, <1>2, <1>4, <1>5 DEF FirstOnly

LEMMA SubmissionsInit ==
  ASSUME \A h \in HitsBefore : CountOf(h, "/submit") = 0, PipelineInit
  PROVE  Counted /\ FirstOnly
<1>1. /\ Len(toolCalls) = 0 /\ Len(steps) = 0 /\ CountOf(hits, "/submit") = 0
      /\ retries = NoCounts /\ CountOf(retries, "s1") = 0
  BY DEF PipelineInit, Unstarted, CountOf, NoCounts
<1>2. SentIn(toolCalls) = {} /\ AcknowledgedIn(toolCalls) = {}
  BY <1>1 DEF SentIn, AcknowledgedIn
<1>3. Cardinality(SentIn(toolCalls)) = 0 /\ Cardinality(AcknowledgedIn(toolCalls)) = 0
  BY <1>2, FS_EmptySet
<1>4. AttemptLimit \in Nat
  <2>1. Inv
    BY UnderwayInit DEF Underway, PipelineInit, Unstarted
  <2> QED
    BY <2>1, LimitsType DEF Inv, AttemptLimit
<1> QED
  BY <1>1, <1>2, <1>3, <1>4 DEF Counted, FirstOnly

LEMMA SubmissionsNext ==
  Underway /\ Sourced /\ Counted /\ FirstOnly /\ [PipelineNext]_pipelineVars
    => Counted' /\ FirstOnly'
<1> SUFFICES ASSUME Underway, Sourced, Counted, FirstOnly, [PipelineNext]_pipelineVars
             PROVE  Counted' /\ FirstOnly'
  OBVIOUS
<1>1. job' = job
  BY PipelineSteps
<1>2. CASE pc \notin {"start", "rejected"} /\ CallServer /\ [Next]_vars
  BY <1>1, <1>2, CountedCall, FirstOnlyCall DEF Underway
<1>3. CASE pc # "rejected" /\ [Next]_vars /\ ~CallTool /\ UNCHANGED hits
  <2>1. FirstOnly'
    BY <1>1, <1>3, FirstOnlyNext DEF Underway
  <2>2. toolCalls' = toolCalls
    BY <1>3, StepCases, GoingOn DEF Begin, SaveOutcome, OnSuccess, Stops, GivesUp, Balks, Rests,
       recordVars, traceVars
  <2> QED
    BY <1>3, <2>1, <2>2 DEF Counted
<1>4. CASE RejectPlan /\ UNCHANGED hits
  <2>1. UNCHANGED <<run, steps, stepIndex, toolCalls, retries>> /\ pc' = "rejected"
    BY <1>4 DEF RejectPlan, loopVars, stmVars, traceVars
  <2> QED
    BY <1>1, <1>4, <2>1 DEF Counted, FirstOnly, Submits, AttemptLimit
<1>5. CASE UNCHANGED <<vars, hits>>
  <2>1. UNCHANGED <<run, pc, steps, stepIndex, toolCalls, retries>>
    BY <1>5 DEF vars, loopVars, stmVars, traceVars
  <2> QED
    BY <1>1, <1>5, <2>1 DEF Counted, FirstOnly, Submits, AttemptLimit
<1>6. Begin => [Next]_vars /\ ~CallTool
  BY DEF Next, Begin, CallTool
<1>7. pc = "start" \/ pc \notin {"start", "rejected"} => pc # "rejected"
  OBVIOUS
<1> QED
  BY <1>2, <1>3, <1>4, <1>5, <1>6, <1>7, PipelineSteps

(* A server that counted no submission before counts each that was         *)
(* acknowledged and none that was not sent, and no more than a step may    *)
(* be tried: retries and lost answers repeat a submission within the limit *)
(* and no plan made again does.                                            *)
THEOREM SubmissionsAreBounded ==
  ASSUME \A h \in HitsBefore : CountOf(h, "/submit") = 0
  PROVE  PipelineSpec => []SubmissionsBounded
<1>1. ASSUME Underway, Counted, FirstOnly
      PROVE  SubmissionsBounded
  <2>1. /\ CountOf(hits, "/submit") \in Nat
        /\ CountOf(hits, "/submit") <= Cardinality(SentIn(toolCalls))
        /\ CountOf(hits, "/submit") >= Cardinality(AcknowledgedIn(toolCalls))
        /\ Cardinality(SentIn(toolCalls)) <= AttemptLimit
    BY <1>1 DEF Counted, FirstOnly
  <2>2. run.maxRetries \in Nat /\ Cardinality(SentIn(toolCalls)) \in Nat
    <3>1. IsRun(run)
      BY <1>1, JobsAssumption, RunsAssumption DEF Underway
    <3>2. toolCalls = << >> \/ toolCalls \in Seq(ToolCallRecords)
      BY <1>1 DEF Underway, Inv, TypeInv, TypeOK
    <3>3. toolCalls \in Seq(ToolCallRecords)
      BY <3>2, EmptySeq
    <3> QED
      BY <3>1, <3>3, SentCount DEF IsRun, RunRecords
  <2>3. CountOf(hits, "/submit") <= AttemptLimit
    <3>1. AttemptLimit \in Nat
      BY <2>2 DEF AttemptLimit
    <3> QED
      BY <2>1, <2>2, <3>1
  <2> QED
    BY <2>1, <2>3 DEF SubmissionsBounded, Calls, HowMany, SentIn, AcknowledgedIn, Sent,
       AttemptLimit
<1> QED
  BY <1>1, SubmissionsInit, SubmissionsNext, UnderwayAlways, PTL DEF PipelineSpec

-----------------------------------------------------------------------------
(* A run is determined by its job, as long as no counter of a flaky        *)
(* endpoint runs out: the executor as a function from a state to the next. *)

(* The state of a run, as far as anything it decides depends on it. *)
Now ==
  [pc |-> pc, status |-> status, reason |-> stopReason, steps |-> steps,
   stepIndex |-> stepIndex, completed |-> completed, cost |-> cost, retries |-> retries,
   signatures |-> signatures, observations |-> observations, achieved |-> achieved,
   announced |-> announced, calls |-> toolCalls, events |-> stepEvents]

(* That state before the run begins. *)
Unbegun ==
  [pc |-> "start", status |-> "VALIDATED", reason |-> "none", steps |-> << >>,
   stepIndex |-> 0, completed |-> 0, cost |-> 0, retries |-> NoCounts,
   signatures |-> NoCounts, observations |-> << >>, achieved |-> {},
   announced |-> {}, calls |-> << >>, events |-> << >>]

(* The operators of the executor in state x of run r. *)
At(x, r) == INSTANCE Executor WITH
  run <- r, pc <- x.pc, status <- x.status, stopReason <- x.reason, steps <- x.steps,
  stepIndex <- x.stepIndex, completed <- x.completed, cost <- x.cost,
  retries <- x.retries, signatures <- x.signatures, observations <- x.observations,
  achieved <- x.achieved, announced <- x.announced, toolCalls <- x.calls,
  stepEvents <- x.events, refinements <- << >>, outcomes <- << >>, metrics <- << >>

(* What a step's call is answered with: by a flaky endpoint what it        *)
(* answers first.                                                          *)
Answered(step) ==
  CASE step.tool \in HttpTools ->
         IF MayAnswer(step.tool, step.args)
         THEN Received(step.args.strict, Reply(step.tool, step.args.target, NoCounts).body)
         ELSE "timeout"
    [] step.tool = "calc" ->
         CHOOSE st \in CalcStatuses(Asked(step.args.target).expression) : TRUE
    [] step.tool = "file_write" ->
         IF Escapes(Workspace, Asked(step.args.target).path) THEN "policy_blocked" ELSE "success"
    [] OTHER -> "success"

(* What the loop makes of state x: an end, a call, a success, a failure. *)
Judged(x, st, why) == [x EXCEPT !.pc = "done", !.status = st, !.reason = why]

Called(x, r) ==
  LET step == At(x, r)!WithObservations(At(x, r)!Current)
  IN  [x EXCEPT !.pc = "called", !.status = "EXECUTING",
                !.steps = [x.steps EXCEPT ![x.stepIndex + 1] = step],
                !.cost = x.cost + r.costPerStep,
                !.calls = Append(x.calls,
                  [id |-> step.id, tool |-> step.tool, args |-> step.args,
                   attempt |-> CountOf(x.retries, step.id) + 1, status |-> Answered(step)])]

AfterHead(x, r) ==
  IF ~At(x, r)!More
  THEN IF x.status = "REFINING" THEN Judged(x, "FAILED", "failed")
       ELSE Judged(x, "COMPLETED",
                   IF At(x, r)!CriteriaMet THEN "success_criteria_met" ELSE "none")
  ELSE IF At(x, r)!CriteriaMet THEN Judged(x, "STOPPED", "success_criteria_met")
  ELSE IF At(x, r)!StepsSpent THEN Judged(x, "STOPPED", "max_steps")
  ELSE IF At(x, r)!BudgetSpent THEN Judged(x, "STOPPED", "budget_guard")
  ELSE Called(x, r)

AfterSuccess(x, r) ==
  LET call == At(x, r)!Call
  IN  [x EXCEPT !.pc = "head",
                !.observations = Append(x.observations, call.id),
                !.achieved = x.achieved \cup FlagOf(call.tool),
                !.events = Append(x.events, At(x, r)!Event("SUCCESS", "none", "none")),
                !.completed = x.completed + 1, !.stepIndex = x.stepIndex + 1]

AfterFailure(x, r) ==
  LET signal == At(x, r)!FailureSignal
      answer == At(x, r)!Answer
      action == Decide(At(x, r)!Current, signal, At(x, r)!Call.attempt, r.maxRetries, answer)
      told(a) == Append(x.events, At(x, r)!FailedEvent(a))
      y == [x EXCEPT !.signatures = At(x, r)!Seen]
  IN  IF signal.type = "non_progress"
      THEN [Judged(y, "STOPPED", "non_progress") EXCEPT !.events = told("none")]
      ELSE IF At(x, r)!RetriesSpent
      THEN [Judged(y, "STOPPED", "max_retries") EXCEPT !.events = told("none")]
      ELSE CASE action = "patch_and_retry" ->
                  [y EXCEPT !.pc = "head", !.status = "REFINING",
                            !.steps = [x.steps EXCEPT ![x.stepIndex + 1].args =
                                         PatchedArgs(At(x, r)!Current, signal.type)],
                            !.retries = Bump(x.retries, At(x, r)!Call.id),
                            !.announced = {}, !.events = told(action)]
             [] action = "replan_remaining" ->
                  [y EXCEPT !.pc = "head", !.status = "REFINING",
                            !.steps = At(x, r)!Replanned,
                            !.announced = AnnouncedBy(answer), !.events = told(action)]
             [] action = "skip_step" ->
                  [y EXCEPT !.pc = "head", !.stepIndex = x.stepIndex + 1, !.announced = {},
                            !.events = x.events \o
                               <<At(x, r)!FailedEvent("skip_step"),
                                 At(x, r)!Event("SKIPPED", "none", "none")>>]
             [] OTHER ->
                  [(IF signal.type = "policy_violation"
                    THEN Judged(y, "STOPPED", "policy_blocked") ELSE Judged(y, "FAILED", "failed"))
                   EXCEPT !.announced = {}, !.events = told("abort")]

(* The state after x in the run for job j. *)
After(x, j) ==
  LET r == JobRun(j)
  IN  CASE x.pc = "start" ->
             IF Accepted(BuildPlan(j.goal, j.config, "none"), j.config)
             THEN [x EXCEPT !.pc = "head", !.status = "EXECUTING", !.steps = r.steps]
             ELSE [x EXCEPT !.pc = "rejected", !.status = "FAILED", !.reason = "validation_failed"]
        [] x.pc = "head"   -> AfterHead(x, r)
        [] x.pc = "called" -> [x EXCEPT !.pc = "saved"]
        [] x.pc = "saved"  -> IF At(x, r)!Call.status = "success"
                              THEN AfterSuccess(x, r) ELSE AfterFailure(x, r)
        [] OTHER -> x

(* In its current state they are the executor's own. *)
LEMMA AtNow ==
  /\ \A y : At(Now, run)!WithObservations(y) = WithObservations(y)
  /\ \A s, f, a : At(Now, run)!Event(s, f, a) = Event(s, f, a)
  /\ At(Now, run)!Call = Call /\ At(Now, run)!Current = Current /\ At(Now, run)!Seen = Seen
  /\ At(Now, run)!FailureSignal = FailureSignal /\ At(Now, run)!Answer = Answer
  /\ At(Now, run)!Replanned = Replanned
  /\ At(Now, run)!More = More /\ At(Now, run)!CriteriaMet = CriteriaMet
  /\ At(Now, run)!StepsSpent = StepsSpent /\ At(Now, run)!BudgetSpent = BudgetSpent
  /\ At(Now, run)!RetriesSpent = RetriesSpent
  /\ \A a : At(Now, run)!FailedEvent(a) = FailedEvent(a)
<1>1. \A y : At(Now, run)!WithObservations(y) = WithObservations(y)
  BY DEF Now, WithObservations, At!WithObservations
<1>2. \A x, r, d, k : At(x, r)!CountOf(d, k) = CountOf(d, k) /\ At(x, r)!Bump(d, k) = Bump(d, k)
  BY DEF CountOf, At!CountOf, Bump, At!Bump
<1>3. At(Now, run)!Call = Call /\ At(Now, run)!Current = Current
  BY DEF Now, Call, At!Call, Current, At!Current
<1>4. \A s, f, a : At(Now, run)!Event(s, f, a) = Event(s, f, a)
  BY <1>3 DEF Event, At!Event
<1>5. At(Now, run)!CallSignature = CallSignature
  BY <1>3 DEF CallSignature, At!CallSignature
<1>6. At(Now, run)!Seen = Seen
  <2>1. At(Now, run)!Seen = Bump(signatures, CallSignature)
    BY <1>2, <1>5 DEF At!Seen, Now
  <2> QED
    BY <2>1 DEF Seen
<1>7. At(Now, run)!FailureSignal = FailureSignal
  <2>1. \A x, r, s, m : At(x, r)!EvaluateToolCall(s, m) = EvaluateToolCall(s, m)
    BY DEF EvaluateToolCall, At!EvaluateToolCall, Signal, At!Signal
  <2>2. \A x, r, c, t : At(x, r)!DetectNonProgress(c, t) = DetectNonProgress(c, t)
    BY DEF DetectNonProgress, At!DetectNonProgress
  <2>3. \A x, r, f, b : At(x, r)!Signal(f, b) = Signal(f, b)
    BY DEF Signal, At!Signal
  <2> QED
    BY <1>2, <1>3, <1>5, <1>6, <2>1, <2>2, <2>3 DEF FailureSignal, At!FailureSignal
<1>8. At(Now, run)!Answer = Answer /\ At(Now, run)!Replanned = Replanned
  BY <1>7 DEF Answer, At!Answer, Replanned, At!Replanned, Now
<1>9. At(Now, run)!More = More /\ At(Now, run)!CriteriaMet = CriteriaMet
  BY DEF More, At!More, CriteriaMet, At!CriteriaMet, Now
<1>10. At(Now, run)!StepsSpent = StepsSpent /\ At(Now, run)!BudgetSpent = BudgetSpent
       /\ At(Now, run)!RetriesSpent = RetriesSpent
  BY <1>3, <1>7 DEF StepsSpent, At!StepsSpent, BudgetSpent, At!BudgetSpent,
     RetriesSpent, At!RetriesSpent, Now
<1>11. \A a : At(Now, run)!FailedEvent(a) = FailedEvent(a)
  BY <1>4, <1>7 DEF FailedEvent, At!FailedEvent
<1> QED
  BY <1>1, <1>3, <1>4, <1>6, <1>7, <1>8, <1>9, <1>10, <1>11

(* States are the same when their fields are. *)
Fields ==
  {"pc", "status", "reason", "steps", "stepIndex", "completed", "cost", "retries",
   "signatures", "observations", "achieved", "announced", "calls", "events"}

IsState(x) == x = [q \in Fields |-> x[q]]

LEMMA Alike ==
  ASSUME NEW x, NEW y, IsState(x), IsState(y), \A q \in Fields : x[q] = y[q]
  PROVE  x = y
  BY DEF IsState

LEMMA NowIsState == IsState(Now) /\ IsState(Now')
  BY DEF IsState, Now, Fields

LEMMA AfterNow ==
  ASSUME run = JobRun(job)
  PROVE  /\ pc = "start" => After(Now, job) =
              IF PlanAccepted
              THEN [Now EXCEPT !.pc = "head", !.status = "EXECUTING", !.steps = run.steps]
              ELSE [Now EXCEPT !.pc = "rejected", !.status = "FAILED",
                               !.reason = "validation_failed"]
         /\ pc = "head" => After(Now, job) = AfterHead(Now, run)
         /\ pc = "called" => After(Now, job) = [Now EXCEPT !.pc = "saved"]
         /\ pc = "saved" => After(Now, job) =
              IF Call.status = "success" THEN AfterSuccess(Now, run) ELSE AfterFailure(Now, run)
         /\ pc \in {"done", "rejected"} => After(Now, job) = Now
<1>1. Now.pc = pc
  BY DEF Now
<1> QED
  BY <1>1, AtNow DEF After, PlanAccepted

(* Each action takes the current state to the one after it. *)
LEMMA StartIsReplayed ==
  ASSUME run = JobRun(job), BeginAccepted \/ RejectPlan
  PROVE  Now' = After(Now, job)
<1>1. CASE BeginAccepted
  BY <1>1, AfterNow DEF BeginAccepted, Begin, Now, stmVars, traceVars
<1>2. CASE RejectPlan
  BY <1>2, AfterNow DEF RejectPlan, Now, loopVars, stmVars, traceVars
<1> QED
  BY <1>1, <1>2

LEMMA FinishIsJudged ==
  ASSUME NEW st, NEW why, Finish(st, why), UNCHANGED <<loopVars, stmVars, traceVars>>
  PROVE  Now' = Judged(Now, st, why)
<1>1. IsState(Judged(Now, st, why))
  BY NowIsState DEF IsState, Judged
<1>2. /\ Judged(Now, st, why).pc = "done" /\ Judged(Now, st, why).status = st
      /\ Judged(Now, st, why).reason = why
      /\ \A q \in Fields \ {"pc", "status", "reason"} : Judged(Now, st, why)[q] = Now[q]
  BY NowIsState DEF Judged, IsState, Fields
<1>3. /\ Now'.pc = "done" /\ Now'.status = st /\ Now'.reason = why
      /\ \A q \in Fields \ {"pc", "status", "reason"} : Now'[q] = Now[q]
  BY DEF Finish, Now, Fields, loopVars, stmVars, traceVars
<1>4. \A q \in Fields : Now'[q] = Judged(Now, st, why)[q]
  BY <1>2, <1>3 DEF Fields
<1> QED
  BY <1>1, <1>4, NowIsState, Alike

LEMMA StopIsReplayed ==
  ASSUME run = JobRun(job),
         StopOnSuccess \/ StopOnMaxSteps \/ StopOnBudget \/ PlanExhausted
  PROVE  Now' = After(Now, job)
<1>1. After(Now, job) = AfterHead(Now, run)
  BY AfterNow DEF StopOnSuccess, StopOnMaxSteps, StopOnBudget, PlanExhausted
<1>2. \A st, why : Finish(st, why) /\ UNCHANGED <<loopVars, stmVars, traceVars>> =>
                    Now' = Judged(Now, st, why)
  BY FinishIsJudged
<1>3. Now.status = status
  BY DEF Now
<1> HIDE DEF Now
<1>4. CASE StopOnSuccess
  BY <1>1, <1>2, <1>4, AtNow DEF StopOnSuccess, AfterHead
<1>5. CASE StopOnMaxSteps
  BY <1>1, <1>2, <1>5, AtNow DEF StopOnMaxSteps, AfterHead
<1>6. CASE StopOnBudget
  BY <1>1, <1>2, <1>6, AtNow DEF StopOnBudget, AfterHead
<1>7. CASE PlanExhausted
  BY <1>1, <1>2, <1>3, <1>7, AtNow DEF PlanExhausted, AfterHead
<1> QED
  BY <1>4, <1>5, <1>6, <1>7

LEMMA CallIsReplayed ==
  ASSUME run = JobRun(job), CallTool, toolCalls \in Seq(ToolCallRecords),
         toolCalls'[Len(toolCalls')].status = Answered(WithObservations(Current))
  PROVE  Now' = After(Now, job)
<1> DEFINE step == WithObservations(Current)
           record(st) == [id |-> step.id, tool |-> step.tool, args |-> step.args,
                          attempt |-> CountOf(retries, step.id) + 1, status |-> st]
<1>1. After(Now, job) = AfterHead(Now, run) /\ AfterHead(Now, run) = Called(Now, run)
  BY AfterNow, AtNow DEF CallTool, AfterHead
<1>2. PICK outcome : toolCalls' = Append(toolCalls, record(outcome))
  BY DEF CallTool
<1>3. toolCalls'[Len(toolCalls')] = record(outcome)
  BY <1>2
<1>4. outcome = Answered(step)
  BY <1>3
<1>5. IsState(Called(Now, run))
  BY NowIsState DEF IsState, Called
<1>6. /\ Called(Now, run).pc = "called" /\ Called(Now, run).status = "EXECUTING"
      /\ Called(Now, run).steps = [Now.steps EXCEPT ![Now.stepIndex + 1] = step]
      /\ Called(Now, run).cost = Now.cost + run.costPerStep
      /\ Called(Now, run).calls = Append(Now.calls,
           [id |-> step.id, tool |-> step.tool, args |-> step.args,
            attempt |-> CountOf(Now.retries, step.id) + 1, status |-> Answered(step)])
      /\ \A q \in Fields \ {"pc", "status", "steps", "cost", "calls"} :
           Called(Now, run)[q] = Now[q]
  BY NowIsState, AtNow DEF Called, IsState, Fields
<1>7. /\ Now'.pc = "called" /\ Now'.status = "EXECUTING"
      /\ Now'.steps = [Now.steps EXCEPT ![Now.stepIndex + 1] = step]
      /\ Now'.cost = Now.cost + run.costPerStep
      /\ Now'.calls = Append(Now.calls, record(Answered(step)))
      /\ \A q \in Fields \ {"pc", "status", "steps", "cost", "calls"} : Now'[q] = Now[q]
  BY <1>2, <1>4 DEF CallTool, Now, Fields, stmVars
<1>8. Now.retries = retries
  BY DEF Now
<1> HIDE DEF step
<1>9. \A q \in Fields : Now'[q] = Called(Now, run)[q]
  BY <1>6, <1>7, <1>8 DEF Fields
<1>10. Now' = Called(Now, run)
  BY <1>5, <1>9, NowIsState, Alike
<1> QED
  BY <1>1, <1>10

LEMMA SaveIsReplayed ==
  ASSUME run = JobRun(job), SaveOutcome
  PROVE  Now' = After(Now, job)
  BY AfterNow DEF SaveOutcome, Now, loopVars, stmVars

LEMMA SuccessIsReplayed ==
  ASSUME run = JobRun(job), OnSuccess
  PROVE  Now' = After(Now, job)
<1> DEFINE next == AfterSuccess(Now, run)
           changed == {"pc", "observations", "achieved", "events", "completed", "stepIndex"}
<1>1. After(Now, job) = next
  BY AfterNow DEF OnSuccess
<1>2. IsState(next)
  BY NowIsState DEF IsState, AfterSuccess
<1>3. /\ next.pc = "head" /\ next.observations = Append(Now.observations, Call.id)
      /\ next.achieved = Now.achieved \cup FlagOf(Call.tool)
      /\ next.events = Append(Now.events, Event("SUCCESS", "none", "none"))
      /\ next.completed = Now.completed + 1 /\ next.stepIndex = Now.stepIndex + 1
      /\ \A q \in Fields \ changed : next[q] = Now[q]
  BY NowIsState, AtNow DEF AfterSuccess, IsState, Fields
<1>4. /\ Now'.pc = "head" /\ Now'.observations = Append(Now.observations, Call.id)
      /\ Now'.achieved = Now.achieved \cup FlagOf(Call.tool)
      /\ Now'.events = Append(Now.events, Event("SUCCESS", "none", "none"))
      /\ Now'.completed = Now.completed + 1 /\ Now'.stepIndex = Now.stepIndex + 1
      /\ \A q \in Fields \ changed : Now'[q] = Now[q]
  BY DEF OnSuccess, Now, Fields
<1> HIDE DEF next
<1>5. \A q \in Fields : Now'[q] = next[q]
  BY <1>3, <1>4 DEF Fields
<1>6. Now' = next
  BY <1>2, <1>5, NowIsState, Alike
<1> QED
  BY <1>1, <1>6

LEMMA NonProgressIsReplayed ==
  ASSUME run = JobRun(job), StopNonProgress
  PROVE  Now' = After(Now, job)
<1> DEFINE next == AfterFailure(Now, run)
           changed == {"pc", "status", "reason", "signatures", "events"}
<1>1. After(Now, job) = next
  BY AfterNow DEF StopNonProgress, Failed
<1>2. FailureSignal.type = "non_progress"
  BY DEF StopNonProgress
<1>3. IsState(next)
  BY <1>2, NowIsState, AtNow DEF IsState, AfterFailure, Judged
<1>4. /\ next.pc = "done"
      /\ next.status = "STOPPED"
      /\ next.reason = "non_progress"
      /\ next.signatures = Seen
      /\ next.events = Append(Now.events, FailedEvent("none"))
      /\ \A q \in Fields \ changed : next[q] = Now[q]
  BY <1>2, NowIsState, AtNow DEF AfterFailure, Judged, IsState, Fields
<1>5. /\ Now'.pc = "done"
      /\ Now'.status = "STOPPED"
      /\ Now'.reason = "non_progress"
      /\ Now'.signatures = Seen
      /\ Now'.events = Append(Now.events, FailedEvent("none"))
      /\ \A q \in Fields \ changed : Now'[q] = Now[q]
  BY <1>2 DEF StopNonProgress, Failed, Finish, loopVars, Now, Fields
<1> HIDE DEF next
<1>6. \A q \in Fields : Now'[q] = next[q]
  BY <1>4, <1>5 DEF Fields
<1>7. Now' = next
  BY <1>3, <1>6, NowIsState, Alike
<1> QED
  BY <1>1, <1>7

LEMMA MaxRetriesIsReplayed ==
  ASSUME run = JobRun(job), StopMaxRetries
  PROVE  Now' = After(Now, job)
<1> DEFINE next == AfterFailure(Now, run)
           changed == {"pc", "status", "reason", "signatures", "events"}
<1>1. After(Now, job) = next
  BY AfterNow DEF StopMaxRetries, Failed
<1>2. FailureSignal.type # "non_progress" /\ RetriesSpent
  BY DEF StopMaxRetries
<1>3. IsState(next)
  BY <1>2, NowIsState, AtNow DEF IsState, AfterFailure, Judged
<1>4. /\ next.pc = "done"
      /\ next.status = "STOPPED"
      /\ next.reason = "max_retries"
      /\ next.signatures = Seen
      /\ next.events = Append(Now.events, FailedEvent("none"))
      /\ \A q \in Fields \ changed : next[q] = Now[q]
  BY <1>2, NowIsState, AtNow DEF AfterFailure, Judged, IsState, Fields
<1>5. /\ Now'.pc = "done"
      /\ Now'.status = "STOPPED"
      /\ Now'.reason = "max_retries"
      /\ Now'.signatures = Seen
      /\ Now'.events = Append(Now.events, FailedEvent("none"))
      /\ \A q \in Fields \ changed : Now'[q] = Now[q]
  BY <1>2 DEF StopMaxRetries, Failed, Finish, loopVars, Now, Fields
<1> HIDE DEF next
<1>6. \A q \in Fields : Now'[q] = next[q]
  BY <1>4, <1>5 DEF Fields
<1>7. Now' = next
  BY <1>3, <1>6, NowIsState, Alike
<1> QED
  BY <1>1, <1>7

LEMMA RetryIsReplayed ==
  ASSUME run = JobRun(job), PatchAndRetry
  PROVE  Now' = After(Now, job)
<1> DEFINE next == AfterFailure(Now, run)
           changed == {"pc", "status", "steps", "retries", "announced", "signatures", "events"}
<1>1. After(Now, job) = next
  BY AfterNow DEF PatchAndRetry, Decided, Chosen, Failed
<1>2. /\ FailureSignal.type # "non_progress" /\ ~RetriesSpent
      /\ Decide(Current, FailureSignal, Call.attempt, run.maxRetries, Answer) = "patch_and_retry"
  BY DEF PatchAndRetry, Decided, Chosen
<1>3. IsState(next)
  BY <1>2, NowIsState, AtNow DEF IsState, AfterFailure, Judged
<1>4. /\ next.pc = "head"
      /\ next.status = "REFINING"
      /\ next.steps = [Now.steps EXCEPT ![Now.stepIndex + 1].args =
                        PatchedArgs(Current, FailureSignal.type)]
      /\ next.retries = Bump(Now.retries, Call.id)
      /\ next.announced = {}
      /\ next.signatures = Seen
      /\ next.events = Append(Now.events, FailedEvent("patch_and_retry"))
      /\ \A q \in Fields \ changed : next[q] = Now[q]
  BY <1>2, NowIsState, AtNow DEF AfterFailure, Judged, IsState, Fields
<1>5. /\ Now'.pc = "head"
      /\ Now'.status = "REFINING"
      /\ Now'.steps = [Now.steps EXCEPT ![Now.stepIndex + 1].args =
                        PatchedArgs(Current, FailureSignal.type)]
      /\ Now'.retries = Bump(Now.retries, Call.id)
      /\ Now'.announced = {}
      /\ Now'.signatures = Seen
      /\ Now'.events = Append(Now.events, FailedEvent("patch_and_retry"))
      /\ \A q \in Fields \ changed : Now'[q] = Now[q]
  BY <1>2 DEF PatchAndRetry, Decided, Chosen, Failed, Now, Fields
<1> HIDE DEF next
<1>6. \A q \in Fields : Now'[q] = next[q]
  BY <1>4, <1>5 DEF Fields
<1>7. Now' = next
  BY <1>3, <1>6, NowIsState, Alike
<1> QED
  BY <1>1, <1>7

LEMMA ReplanIsReplayed ==
  ASSUME run = JobRun(job), ReplanRemaining
  PROVE  Now' = After(Now, job)
<1> DEFINE next == AfterFailure(Now, run)
           changed == {"pc", "status", "steps", "announced", "signatures", "events"}
<1>1. After(Now, job) = next
  BY AfterNow DEF ReplanRemaining, Decided, Chosen, Failed
<1>2. /\ FailureSignal.type # "non_progress" /\ ~RetriesSpent
      /\ Decide(Current, FailureSignal, Call.attempt, run.maxRetries, Answer) = "replan_remaining"
  BY DEF ReplanRemaining, Decided, Chosen
<1>3. IsState(next)
  BY <1>2, NowIsState, AtNow DEF IsState, AfterFailure, Judged
<1>4. /\ next.pc = "head"
      /\ next.status = "REFINING"
      /\ next.steps = Replanned
      /\ next.announced = AnnouncedBy(Answer)
      /\ next.signatures = Seen
      /\ next.events = Append(Now.events, FailedEvent("replan_remaining"))
      /\ \A q \in Fields \ changed : next[q] = Now[q]
  BY <1>2, NowIsState, AtNow DEF AfterFailure, Judged, IsState, Fields
<1>5. /\ Now'.pc = "head"
      /\ Now'.status = "REFINING"
      /\ Now'.steps = Replanned
      /\ Now'.announced = AnnouncedBy(Answer)
      /\ Now'.signatures = Seen
      /\ Now'.events = Append(Now.events, FailedEvent("replan_remaining"))
      /\ \A q \in Fields \ changed : Now'[q] = Now[q]
  BY <1>2 DEF ReplanRemaining, Decided, Chosen, Failed, Now, Fields
<1> HIDE DEF next
<1>6. \A q \in Fields : Now'[q] = next[q]
  BY <1>4, <1>5 DEF Fields
<1>7. Now' = next
  BY <1>3, <1>6, NowIsState, Alike
<1> QED
  BY <1>1, <1>7

LEMMA SkipIsReplayed ==
  ASSUME run = JobRun(job), SkipStep
  PROVE  Now' = After(Now, job)
<1> DEFINE next == AfterFailure(Now, run)
           changed == {"pc", "stepIndex", "announced", "signatures", "events"}
<1>1. After(Now, job) = next
  BY AfterNow DEF SkipStep, Decided, Chosen, Failed
<1>2. /\ FailureSignal.type # "non_progress" /\ ~RetriesSpent
      /\ Decide(Current, FailureSignal, Call.attempt, run.maxRetries, Answer) = "skip_step"
  BY DEF SkipStep, Decided, Chosen
<1>3. IsState(next)
  BY <1>2, NowIsState, AtNow DEF IsState, AfterFailure, Judged
<1>4. /\ next.pc = "head"
      /\ next.stepIndex = Now.stepIndex + 1
      /\ next.announced = {}
      /\ next.signatures = Seen
      /\ next.events = Now.events \o
           <<FailedEvent("skip_step"), Event("SKIPPED", "none", "none")>>
      /\ \A q \in Fields \ changed : next[q] = Now[q]
  BY <1>2, NowIsState, AtNow DEF AfterFailure, Judged, IsState, Fields
<1>5. /\ Now'.pc = "head"
      /\ Now'.stepIndex = Now.stepIndex + 1
      /\ Now'.announced = {}
      /\ Now'.signatures = Seen
      /\ Now'.events = Now.events \o
           <<FailedEvent("skip_step"), Event("SKIPPED", "none", "none")>>
      /\ \A q \in Fields \ changed : Now'[q] = Now[q]
  BY <1>2 DEF SkipStep, Decided, Chosen, Failed, Now, Fields
<1> HIDE DEF next
<1>6. \A q \in Fields : Now'[q] = next[q]
  BY <1>4, <1>5 DEF Fields
<1>7. Now' = next
  BY <1>3, <1>6, NowIsState, Alike
<1> QED
  BY <1>1, <1>7

LEMMA AbortIsReplayed ==
  ASSUME run = JobRun(job), Abort
  PROVE  Now' = After(Now, job)
<1> DEFINE next == AfterFailure(Now, run)
           changed == {"pc", "status", "reason", "announced", "signatures", "events"}
<1>1. After(Now, job) = next
  BY AfterNow DEF Abort, Decided, Chosen, Failed
<1>2. /\ FailureSignal.type # "non_progress" /\ ~RetriesSpent
      /\ Decide(Current, FailureSignal, Call.attempt, run.maxRetries, Answer) = "abort"
  BY DEF Abort, Decided, Chosen
<1>3. IsState(next)
  BY <1>2, NowIsState, AtNow DEF IsState, AfterFailure, Judged
<1>4. /\ next.pc = "done"
      /\ next.status = IF FailureSignal.type = "policy_violation" THEN "STOPPED" ELSE "FAILED"
      /\ next.reason = IF FailureSignal.type = "policy_violation" THEN "policy_blocked" ELSE "failed"
      /\ next.announced = {}
      /\ next.signatures = Seen
      /\ next.events = Append(Now.events, FailedEvent("abort"))
      /\ \A q \in Fields \ changed : next[q] = Now[q]
  BY <1>2, NowIsState, AtNow DEF AfterFailure, Judged, IsState, Fields
<1>5. /\ Now'.pc = "done"
      /\ Now'.status = IF FailureSignal.type = "policy_violation" THEN "STOPPED" ELSE "FAILED"
      /\ Now'.reason = IF FailureSignal.type = "policy_violation" THEN "policy_blocked" ELSE "failed"
      /\ Now'.announced = {}
      /\ Now'.signatures = Seen
      /\ Now'.events = Append(Now.events, FailedEvent("abort"))
      /\ \A q \in Fields \ changed : Now'[q] = Now[q]
  BY <1>2 DEF Abort, Decided, Chosen, Failed, Finish, loopVars, Now, Fields
<1> HIDE DEF next
<1>6. \A q \in Fields : Now'[q] = next[q]
  BY <1>4, <1>5 DEF Fields
<1>7. Now' = next
  BY <1>3, <1>6, NowIsState, Alike
<1> QED
  BY <1>1, <1>7

-----------------------------------------------------------------------------
(* What the planner's expressions evaluate to is definite. *)
ValueSets(tree) == CHOOSE value : value = [p \in DOMAIN tree |-> Evaluated(tree, value, p)]

LEMMA ValuesOfRoot ==
  ASSUME NEW tree
  PROVE  ValuesOf(tree) = ValueSets(tree)[1]
  BY DEF ValuesOf, ValueSets

LEMMA OneNode ==
  ASSUME NEW node, node \notin Numbers \cup {"+", "/", "**", "neg"}
  PROVE  ValuesOf(<<node>>) = {"blocked"}
<1> DEFINE tree  == <<node>>
           value == [p \in 1..1 |-> {"blocked"}]
<1>1. DOMAIN tree = 1..1 /\ tree[1] = node
  OBVIOUS
<1>2. \A f, p : p \in 1..1 => Evaluated(tree, f, p) = {"blocked"}
  BY <1>1 DEF Evaluated
<1>3. value = [p \in DOMAIN tree |-> Evaluated(tree, value, p)]
  BY <1>1, <1>2
<1> HIDE DEF tree, value
<1>4. ValueSets(tree) = [p \in DOMAIN tree |-> Evaluated(tree, ValueSets(tree), p)]
  BY <1>3 DEF ValueSets
<1>5. ValueSets(tree)[1] = {"blocked"}
  BY <1>1, <1>2, <1>4
<1> QED
  BY <1>5, ValuesOfRoot DEF tree

LEMMA TwoOperands ==
  ASSUME NEW op \in {"+", "/"}, NEW l \in Numbers, NEW r \in Numbers
  PROVE  ValuesOf(<<op, l, r>>) = Combine(op, l, r)
<1> DEFINE tree  == <<op, l, r>>
           value == [p \in 1..3 |-> CASE p = 1 -> Results(op, {l}, {r})
                                      [] p = 2 -> {l} [] OTHER -> {r}]
<1>1. DOMAIN tree = 1..3 /\ tree[1] = op /\ tree[2] = l /\ tree[3] = r
  OBVIOUS
<1>2. l \notin Failures /\ r \notin Failures /\ op \notin Numbers
  BY DEF Numbers, Failures
<1> HIDE DEF tree
<1>3. ASSUME NEW f
      PROVE  /\ Evaluated(tree, f, 2) = {l} /\ Evaluated(tree, f, 3) = {r}
             /\ f[2] = {l} /\ f[3] = {r} => Evaluated(tree, f, 1) = Results(op, {l}, {r})
  <2>1. Evaluated(tree, f, 2) = {l} /\ Evaluated(tree, f, 3) = {r}
    <3>1. tree[2] \in Numbers /\ tree[3] \in Numbers
      BY <1>1
    <3>2. /\ tree[2] # "neg" /\ tree[2] \notin {"+", "/", "**"}
          /\ tree[3] # "neg" /\ tree[3] \notin {"+", "/", "**"}
      BY <3>1 DEF Numbers
    <3> QED
      BY <1>1, <3>1, <3>2 DEF Evaluated
  <2>2. ASSUME f[2] = {l}, f[3] = {r}
        PROVE  Evaluated(tree, f, 1) = Results(op, {l}, {r})
    <3>1. Evaluated(tree, f, 1) =
            (f[2] \cap Failures) \cup
            (IF f[2] \subseteq Failures THEN {} ELSE f[3] \cap Failures)
            \cup Results(op, f[2], f[3])
      BY <1>1, <1>2 DEF Evaluated
    <3>2. f[2] \cap Failures = {} /\ f[3] \cap Failures = {}
      BY <1>2, <2>2
    <3> QED
      BY <2>2, <3>1, <3>2
  <2> QED
    BY <2>1, <2>2
<1>4. value[1] = Results(op, {l}, {r}) /\ value[2] = {l} /\ value[3] = {r} /\ DOMAIN value = 1..3
  OBVIOUS
<1>5. value = [p \in DOMAIN tree |-> Evaluated(tree, value, p)]
  <2>1. value = [p \in 1..3 |-> value[p]]
    OBVIOUS
  <2> HIDE DEF value
  <2>2. \A p \in 1..3 : value[p] = Evaluated(tree, value, p)
    <3>1. \A p \in 1..3 : p = 1 \/ p = 2 \/ p = 3
      OBVIOUS
    <3> QED
      BY <1>3, <1>4, <3>1
  <2> QED
    BY <1>1, <2>1, <2>2
<1> HIDE DEF value
<1>6. ValueSets(tree) = [p \in DOMAIN tree |-> Evaluated(tree, ValueSets(tree), p)]
  BY <1>5 DEF ValueSets
<1>7. ValueSets(tree)[2] = {l} /\ ValueSets(tree)[3] = {r}
  BY <1>1, <1>3, <1>6
<1>8. ValueSets(tree)[1] = Results(op, {l}, {r})
  <2> DEFINE V == ValueSets(tree)
  <2>1. V[2] = {l} /\ V[3] = {r} => Evaluated(tree, V, 1) = Results(op, {l}, {r})
    BY <1>3
  <2>2. V[1] = Evaluated(tree, V, 1)
    BY <1>1, <1>6
  <2> QED
    BY <1>7, <2>1, <2>2
<1>9. Results(op, {l}, {r}) = Combine(op, l, r)
  <2>1. {l} \ Failures = {l} /\ {r} \ Failures = {r}
    BY <1>2
  <2> QED
    BY <2>1 DEF Results
<1> QED
  BY <1>8, <1>9, ValuesOfRoot DEF tree

(* What the planner gives the calculator. *)
CalcTargets == Expressions \cup {"1 + 1", "__import__", "bad shape"}

LEMMA CalcIsDefinite ==
  ASSUME NEW target \in CalcTargets
  PROVE  \E st \in {"success", "policy_blocked", "error"} :
           CalcStatuses(Asked(target).expression) = {st}
<1>1. Asked(target).expression \in
        {<<"+", "some", "some">>, <<"/", "some", "zero">>, <<"text">>, <<"name">>, NoTree}
  BY DEF CalcTargets, Expressions, Asked, Urls
<1>2. CalcStatuses(NoTree) = {"error"}
  BY DEF CalcStatuses
<1>3. \A node : <<node>> # NoTree
  BY DEF NoTree
<1>4. \A op, l, r : <<op, l, r>> # NoTree
  BY DEF NoTree
<1>5. CalcStatuses(<<"text">>) = {"policy_blocked"} /\ CalcStatuses(<<"name">>) = {"policy_blocked"}
  <2>1. ValuesOf(<<"text">>) = {"blocked"} /\ ValuesOf(<<"name">>) = {"blocked"}
    BY OneNode DEF Numbers
  <2> QED
    BY <1>3, <2>1 DEF CalcStatuses, Numbers
<1>6. CalcStatuses(<<"+", "some", "some">>) = {"success"}
  <2>1. ValuesOf(<<"+", "some", "some">>) = Numbers
    BY TwoOperands DEF Combine, Numbers
  <2> QED
    BY <1>4, <2>1 DEF CalcStatuses, Numbers
<1>7. CalcStatuses(<<"/", "some", "zero">>) = {"error"}
  <2>1. ValuesOf(<<"/", "some", "zero">>) = {"raised"}
    BY TwoOperands DEF Combine, Numbers
  <2> QED
    BY <1>4, <2>1 DEF CalcStatuses, Numbers
<1> QED
  BY <1>1, <1>2, <1>5, <1>6, <1>7

-----------------------------------------------------------------------------
(* Timeouts that are never met to the tenth of a second.                   *)
Patience == {t \in Nat : \A e \in SlowEndpoints : t # Delay(e)}

(* The configurations allow no others. *)
Untied == MaxTimeout \in Patience /\ \A j \in Jobs : j.config.timeout \in Patience

(* None is in the plan. *)
Patient(s) == \A i \in 1..Len(s) : s[i].args.timeout \in Patience

LEMMA PatienceIs == Patience = Nat \ {9, 15}
<1>1. Delay("/slow") = 15 /\ Delay("/slow?900") = 9
  BY DEF Delay
<1> QED
  BY <1>1 DEF Patience, SlowEndpoints

LEMMA PieceTimeouts ==
  ASSUME NEW goal, NEW config, NEW failure, NEW x \in PieceSet(goal, config, failure),
         config.timeout \in Patience
  PROVE  x.args.timeout \in Patience
<1>1. 0 \in Patience /\ 35 \in Patience
  BY PatienceIs
<1>2. RequestTimeout(config, failure) \in Patience
  BY <1>1 DEF RequestTimeout
<1> DEFINE t == RequestTimeout(config, failure)
<1>3. x.args.timeout \in {0, t}
  <2>1. x \in {PostPiece(goal, t), GetPiece(goal, failure, t), DbPiece(goal), CalcPiece(goal),
               WritePiece(goal), SummarizePiece, LongPlanPiece, ExtraPiece,
               Piece("non_existent_tool", "note", 0, 1, FALSE, {}),
               Piece("calc", "bad shape", 0, 1, FALSE, {})}
    BY DEF PieceSet, WorkSet, Given
  <2>2. /\ PostPiece(goal, t).args.timeout = t /\ GetPiece(goal, failure, t).args.timeout = t
        /\ DbPiece(goal).args.timeout = 0 /\ CalcPiece(goal).args.timeout = 0
        /\ WritePiece(goal).args.timeout = 0 /\ SummarizePiece.args.timeout = 0
        /\ LongPlanPiece.args.timeout = 0 /\ ExtraPiece.args.timeout = 0
        /\ Piece("non_existent_tool", "note", 0, 1, FALSE, {}).args.timeout = 0
        /\ Piece("calc", "bad shape", 0, 1, FALSE, {}).args.timeout = 0
    BY DEF Piece, PostPiece, GetPiece, DbPiece, CalcPiece, WritePiece, SummarizePiece,
       LongPlanPiece, ExtraPiece
  <2> HIDE DEF t
  <2> QED
    BY <2>1, <2>2
<1> QED
  BY <1>1, <1>2, <1>3

LEMMA PlanIsPatient ==
  ASSUME NEW goal, NEW config, NEW failure, config.timeout \in Patience
  PROVE  Patient(BuildPlan(goal, config, failure))
<1>1. \A i \in 1..Len(BuildPlan(goal, config, failure)) :
        \E x \in PieceSet(goal, config, failure) : BuildPlan(goal, config, failure)[i].args = x.args
  BY PlanSteps
<1> QED
  BY <1>1, PieceTimeouts DEF Patient

LEMMA RunIsPatient ==
  ASSUME Untied, NEW j \in Jobs
  PROVE  /\ Patient(JobRun(j).steps)
         /\ \A f \in FailureTypes : Patient(JobRun(j).answers[f])
<1> DEFINE p == BuildPlan(j.goal, j.config, "none")
<1>1. j.config.timeout \in Patience
  BY DEF Untied
<1>2. ASSUME NEW f \in FailureTypes
      PROVE  Patient(JobRun(j).answers[f])
  <2>1. JobRun(j).answers[f] = BuildPlan(j.goal, j.config, f)
    BY AnswerIsPlan DEF JobRun, RunOf
  <2> QED
    BY <1>1, <2>1, PlanIsPatient
<1>3. Patient(JobRun(j).steps)
  <2>1. Patient(p) /\ Len(p) \in Nat
    BY <1>1, PlanIsPatient, PlanMembers
  <2>2. JobRun(j).steps = Validated(p)
    BY DEF JobRun, RunOf
  <2>3. JobRun(j).steps \in Seq(Steps)
    BY JobsAssumption, RunsAssumption DEF IsRun, RunRecords
  <2> HIDE DEF p
  <2>4. JobRun(j).steps = [i \in 1..Len(p) |-> [p[i] EXCEPT !.args.full = TRUE]]
    BY <2>2 DEF Validated
  <2>5. ASSUME NEW i \in 1..Len(JobRun(j).steps)
        PROVE  JobRun(j).steps[i].args.timeout \in Patience
    <3>1. i \in 1..Len(p) /\ JobRun(j).steps[i] = [p[i] EXCEPT !.args.full = TRUE]
      BY <2>1, <2>4
    <3>2. JobRun(j).steps[i] \in Steps
      BY <2>3, ElementOfSeq
    <3>3. JobRun(j).steps[i].args.timeout = p[i].args.timeout
      BY <3>1, <3>2 DEF Steps, Args
    <3> QED
      BY <2>1, <3>1, <3>3 DEF Patient
  <2> QED
    BY <2>5 DEF Patient
<1> QED
  BY <1>2, <1>3

LEMMA PatchIsPatient ==
  ASSUME Untied, NEW step \in Steps, NEW f, step.args.timeout \in Patience
  PROVE  PatchedArgs(step, f).timeout \in Patience
<1>1. PatchedArgs(step, f).timeout \in {step.args.timeout, Doubled(step.args.timeout)}
  BY DEF PatchedArgs, Steps, Args
<1>2. Doubled(step.args.timeout) \in Patience
  BY PatienceIs DEF Doubled, Untied
<1> QED
  BY <1>1, <1>2

LEMMA PatientInit == Unstarted => Patient(steps)
  BY DEF Unstarted, Patient

LEMMA PatientNext ==
  ASSUME Untied, Underway, Inv, Patient(steps), [Next]_vars
  PROVE  Patient(steps)'
<1>0. /\ steps \in Seq(Steps) /\ Len(steps) \in Nat /\ stepIndex \in Nat /\ TypeInv
      /\ \A j \in 1..Len(steps) : steps[j] \in Steps
  BY ElementOfSeq, LenProperties DEF Inv, TypeInv, TypeOK
<1>1. CASE CallTool
  <2> DEFINE step == WithObservations(Current)
  <2>1. /\ stepIndex + 1 \in 1..Len(steps)
        /\ steps' = [steps EXCEPT ![stepIndex + 1] = step]
    BY <1>0, <1>1 DEF CallTool, More
  <2>2. Current = steps[stepIndex + 1] /\ Current \in Steps
    BY <1>0, <2>1 DEF Current
  <2>3. step.args.timeout = Current.args.timeout
    BY <2>2 DEF WithObservations, Steps, Args
  <2> HIDE DEF step
  <2> QED
    BY <1>0, <2>1, <2>2, <2>3 DEF Patient
<1>2. CASE PatchAndRetry
  <2>1. steps' = [steps EXCEPT ![stepIndex + 1].args =
                                   PatchedArgs(Current, FailureSignal.type)]
    BY <1>2 DEF PatchAndRetry
  <2>2. Current \in Steps /\ stepIndex + 1 \in 1..Len(steps)
    BY <1>0, <1>2, GoingOn, HandledCall
  <2>3. Current = steps[stepIndex + 1]
    BY DEF Current
  <2>4. PatchedArgs(Current, FailureSignal.type).timeout \in Patience
    BY <2>2, <2>3, PatchIsPatient DEF Patient
  <2>5. /\ Len(steps') = Len(steps)
        /\ steps'[stepIndex + 1].args = PatchedArgs(Current, FailureSignal.type)
        /\ \A j \in 1..Len(steps) : j # stepIndex + 1 => steps'[j] = steps[j]
    BY <1>0, <2>1, <2>2, <2>3 DEF Steps
  <2> QED
    BY <2>4, <2>5 DEF Patient
<1>3. CASE ReplanRemaining
  <2> DEFINE past == SubSeq(steps, 1, stepIndex)
  <2>1. steps' = past \o Answer /\ pc = "saved"
    BY <1>3, GoingOn DEF ReplanRemaining, Replanned
  <2>2. /\ past \in Seq(Steps) /\ Len(past) = stepIndex /\ Answer \in Seq(Steps)
        /\ stepIndex + 1 \in 1..Len(steps)
    BY <1>0, <2>1, PrefixType, HandlingTypes, HandledCall
  <2>3. \A j \in 1..stepIndex : past[j] = steps[j]
    BY <1>0, <2>2
  <2>4. Patient(Answer)
    <3>1. Answer = run.answers["schema_error"]
      BY <1>3, ReplanIsEarly DEF ReplanRemaining, Answer
    <3> QED
      BY <3>1, RunIsPatient DEF Underway, FailureTypes
  <2> HIDE DEF past
  <2>5. /\ Len(Answer) \in Nat /\ Len(steps') = stepIndex + Len(Answer)
        /\ \A j \in 1..stepIndex : steps'[j] = past[j]
        /\ \A j \in (stepIndex + 1)..(stepIndex + Len(Answer)) : steps'[j] = Answer[j - stepIndex]
    BY <2>1, <2>2, Joined
  <2>6. ASSUME NEW j \in 1..Len(steps')
        PROVE  steps'[j].args.timeout \in Patience
    <3>1. CASE j <= stepIndex
      BY <1>0, <2>2, <2>3, <2>5, <3>1 DEF Patient
    <3>2. CASE j > stepIndex
      <4>1. j - stepIndex \in 1..Len(Answer) /\ steps'[j] = Answer[j - stepIndex]
        BY <1>0, <2>5, <3>2
      <4> QED
        BY <2>4, <4>1 DEF Patient
    <3> QED
      BY <1>0, <2>5, <3>1, <3>2
  <2> QED
    BY <2>6 DEF Patient
<1>4. CASE Begin
  BY <1>4, RunIsPatient DEF Begin, Underway, Patient
<1>5. CASE SaveOutcome \/ OnSuccess \/ SkipStep \/ Stops \/ GivesUp \/ Balks \/ Rests
  <2>1. UNCHANGED steps
    BY <1>5 DEF SaveOutcome, OnSuccess, SkipStep, Stops, GivesUp, Balks, Rests, recordVars, loopVars
  <2> QED
    BY <2>1 DEF Patient
<1> QED
  BY <1>1, <1>2, <1>3, <1>4, <1>5, StepCases

-----------------------------------------------------------------------------
(* The endpoint the goal is about was asked too often to go on failing.    *)
Spent ==
  LET url == HttpUrl(job.goal)
  IN  url \in FlakyEndpoints /\ CountOf(hits, url) > FailFirst(url)

(* Nothing is lost on the way, and no remote model is asked. *)
Steady(j) == ~j.lossy /\ j.provider = "heuristic"

LEMMA CalcPieceTargets ==
  ASSUME NEW goal \in Goals, NEW config, NEW failure, NEW x \in PieceSet(goal, config, failure),
         x.tool = "calc"
  PROVE  x.args.target \in CalcTargets
<1> DEFINE t == RequestTimeout(config, failure)
<1>1. \/ x \in {CalcPiece(goal), LongPlanPiece, Piece("calc", "bad shape", 0, 1, FALSE, {})}
      \/ x.tool # "calc"
  BY PieceFields DEF PieceSet, WorkSet, Given
<1>2. goal.expr \in Expressions
  BY DEF Goals
<1>3. /\ CalcPiece(goal).args.target \in {goal.expr, "__import__"}
      /\ LongPlanPiece.args.target = "1 + 1"
      /\ Piece("calc", "bad shape", 0, 1, FALSE, {}).args.target = "bad shape"
  BY DEF Piece, CalcPiece, LongPlanPiece
<1> QED
  BY <1>1, <1>2, <1>3 DEF CalcTargets

LEMMA LocalIsDefinite ==
  ASSUME Steady(job), NEW call, call.tool \notin HttpTools,
         call.tool = "calc" => call.args.target \in CalcTargets
  PROVE  LocalStatuses(call) = {Answered(call)}
<1>1. CASE call.tool = "calc"
  <2>1. PICK st : CalcStatuses(Asked(call.args.target).expression) = {st}
    BY <1>1, CalcIsDefinite
  <2>2. Answered(call) = st
    BY <1>1, <2>1 DEF Answered
  <2> QED
    BY <1>1, <2>1, <2>2 DEF LocalStatuses
<1>2. CASE call.tool = "file_write"
  BY <1>2 DEF LocalStatuses, Answered
<1>3. CASE call.tool = "summarize"
  BY <1>3 DEF LocalStatuses, Answered, SummarizeStatuses, Steady
<1>4. CASE call.tool \notin {"calc", "file_write", "summarize"}
  BY <1>4 DEF LocalStatuses, Answered
<1> QED
  BY <1>1, <1>2, <1>3, <1>4

(* What a flaky endpoint answers while it has failures left, it answered   *)
(* first.                                                                  *)
LEMMA ReplyIsFirst ==
  ASSUME NEW tool, NEW target, NEW h,
         target \in FlakyEndpoints => /\ CountOf(h, target) \in Nat
                                      /\ CountOf(h, target) + 1 <= FailFirst(target)
  PROVE  Reply(tool, target, h).body = Reply(tool, target, NoCounts).body
<1>1. \A d : Bump(d, target)[target] = CountOf(d, target) + 1
  BY DEF Bump
<1>2. CountOf(NoCounts, target) = 0 /\ 0 + 1 <= FailFirst(target)
  BY DEF CountOf, NoCounts, FailFirst
<1>3. CASE tool # "http_post" /\ target \in FlakyEndpoints
  BY <1>1, <1>2, <1>3 DEF Reply
<1>4. CASE ~(tool # "http_post" /\ target \in FlakyEndpoints)
  BY <1>4 DEF Reply
<1> QED
  BY <1>3, <1>4

LEMMA ExchangeIsDefinite ==
  ASSUME NEW tool, NEW args, NEW h, args.timeout \in Patience, NEW o \in Exchange(tool, args, h)
  PROVE  /\ o.status = IF MayAnswer(tool, args)
                       THEN Received(args.strict, Reply(tool, args.target, h).body) ELSE "timeout"
         /\ o.hits = Reply(tool, args.target, h).hits
<1>1. MayTimeOut(tool, args) <=> ~MayAnswer(tool, args)
  <2>1. args.target \in SlowEndpoints => args.timeout # Delay(args.target)
    BY DEF Patience
  <2>2. args.timeout \in Nat /\ Delay(args.target) \in Nat
    BY DEF Patience, Delay
  <2> QED
    BY <2>1, <2>2 DEF MayTimeOut, MayAnswer
<1> QED
  BY <1>1 DEF Exchange

(* A call has the answer that the replay gives it. *)
LEMMA AnswerIsDefinite ==
  ASSUME OnlyLocal, Underway, Inv, Sourced, Patient(steps), Steady(job),
         IsCounter(hits, Urls), CallServer, ~Spent'
  PROVE  toolCalls'[Len(toolCalls')].status = Answered(WithObservations(Current))
<1> DEFINE step == WithObservations(Current)
<1>0. /\ toolCalls \in Seq(ToolCallRecords) /\ Len(toolCalls) \in Nat
      /\ steps \in Seq(Steps) /\ Len(steps) \in Nat /\ stepIndex \in Nat
      /\ CallTool /\ pc = "head" /\ job' = job
  BY LenProperties DEF Inv, TypeInv, TypeOK, CallServer, CallTool
<1>1. PICK outcome : toolCalls' = Append(toolCalls,
             [id |-> step.id, tool |-> step.tool, args |-> step.args,
              attempt |-> CountOf(retries, step.id) + 1, status |-> outcome])
  BY <1>0 DEF CallTool
<1> DEFINE call == [id |-> step.id, tool |-> step.tool, args |-> step.args,
                    attempt |-> CountOf(retries, step.id) + 1, status |-> outcome]
<1>2. toolCalls'[Len(toolCalls')] = call
  BY <1>0, <1>1
<1>3. call.tool = step.tool /\ call.args = step.args /\ call.status = outcome
  OBVIOUS
<1>4. Asks(call, Era)
  <2>1. PICK c : toolCalls' = Append(toolCalls, c) /\ Asks(c, Era)
    BY <1>0, CallAsks
  <2>2. toolCalls'[Len(toolCalls')] = c
    BY <1>0, <2>1
  <2> QED
    BY <1>2, <2>1, <2>2
<1>5. call.args.timeout \in Patience
  <2>1. stepIndex + 1 \in 1..Len(steps)
    BY <1>0 DEF CallTool, More
  <2>2. Current \in Steps /\ Current.args.timeout \in Patience
    BY <1>0, <2>1, ElementOfSeq DEF Current, Patient
  <2>3. step.args.timeout = Current.args.timeout
    BY <2>2 DEF WithObservations, Steps, Args
  <2> QED
    BY <1>3, <2>2, <2>3
<1> HIDE DEF call
<1>6. PICK o \in Outcomes(call) : call.status = o.status /\ hits' = o.hits
  BY <1>2 DEF CallServer
<1>7. PICK p \in PieceSet(job.goal, job.config, Era) :
        call.tool = p.tool /\ call.args.target = p.args.target
  BY <1>4 DEF Asks
<1>8. job \in Jobs /\ job.goal \in Goals /\ PlanAccepted
  BY <1>0, JobsAssumption DEF Underway
<1>9. Answered(call) = Answered(step)
  BY <1>3 DEF Answered
<1>10. CASE call.tool \notin HttpTools
  <2>1. call.tool = "calc" => call.args.target \in CalcTargets
    BY <1>7, <1>8, CalcPieceTargets
  <2>2. LocalStatuses(call) = {Answered(call)}
    BY <1>10, <2>1, LocalIsDefinite
  <2>3. o.status = Answered(call)
    BY <1>6, <1>10, <2>2 DEF Outcomes
  <2> QED
    BY <1>2, <1>6, <1>9, <2>3
<1>11. CASE call.tool \in HttpTools
  <2> DEFINE target == call.args.target
  <2>1. target # "http://example.com"
    BY <1>4, <1>8, <1>11, AskedIsAcceptable, LocalTargets
  <2>2. o \in Exchange(call.tool, call.args, hits)
    BY <1>6, <1>11, <2>1 DEF Outcomes, Steady
  <2>3. /\ o.status = IF MayAnswer(call.tool, call.args)
                      THEN Received(call.args.strict, Reply(call.tool, target, hits).body)
                      ELSE "timeout"
        /\ hits' = Reply(call.tool, target, hits).hits
    BY <1>5, <1>6, <2>2, ExchangeIsDefinite
  <2>4. target \in {HttpUrl(job.goal), "/data"}
    BY <1>7, <1>11, TargetsOfRequests
  <2>5. Reply(call.tool, target, hits).body = Reply(call.tool, target, NoCounts).body
    <3>1. CASE call.tool = "http_post"
      BY <3>1 DEF Reply
    <3>2. CASE call.tool # "http_post" /\ target \in FlakyEndpoints
      <4>1. target = HttpUrl(job.goal)
        BY <2>4, <3>2 DEF FlakyEndpoints
      <4>2. CountOf(hits, target) \in Nat /\ FailFirst(target) \in Nat
        BY DEF IsCounter, CountOf, FailFirst
      <4>3. hits' = Bump(hits, target)
        BY <2>3, <3>2 DEF Reply
      <4>4. CountOf(hits', target) = CountOf(hits, target) + 1
        BY <4>3 DEF Bump, CountOf
      <4>5. ~(CountOf(hits', target) > FailFirst(target))
        BY <1>0, <3>2, <4>1 DEF Spent
      <4> QED
        BY <4>2, <4>4, <4>5, ReplyIsFirst
    <3>3. CASE target \notin FlakyEndpoints
      BY <3>3, ReplyIsFirst
    <3> QED
      BY <3>1, <3>2, <3>3
  <2>6. o.status = Answered(call)
    <3>1. Answered(call) =
            IF MayAnswer(call.tool, call.args)
            THEN Received(call.args.strict, Reply(call.tool, target, NoCounts).body)
            ELSE "timeout"
      BY <1>11 DEF Answered, HttpTools
    <3> QED
      BY <2>3, <2>5, <3>1
  <2> QED
    BY <1>2, <1>6, <1>9, <2>6
<1> QED
  BY <1>10, <1>11

-----------------------------------------------------------------------------
(* The server's counters only grow. *)
LEMMA OutcomeHits ==
  ASSUME IsCounter(hits, Urls), NEW call, NEW o \in Outcomes(call)
  PROVE  IsCounter(o.hits, Urls) /\ \A k : CountOf(o.hits, k) >= CountOf(hits, k)
<1> DEFINE reply == Reply(call.tool, call.args.target, hits)
<1>1. \/ reply.hits = hits
      \/ \E t \in Urls : reply.hits = Bump(hits, t)
  BY DEF Reply, FlakyEndpoints, Urls
<1>2. o.hits \in {hits, reply.hits}
  BY DEF Outcomes, ForeignExchange, LossyExchange, Exchange
<1> HIDE DEF reply
<1>3. \A k : CountOf(hits, k) \in Nat
  BY DEF IsCounter, CountOf
<1>4. ASSUME NEW t \in Urls
      PROVE  IsCounter(Bump(hits, t), Urls) /\ \A k : CountOf(Bump(hits, t), k) >= CountOf(hits, k)
  <2>1. IsCounter(Bump(hits, t), Urls)
    BY BumpType
  <2> QED
    BY <1>3, <2>1, BumpCounts
<1> QED
  BY <1>1, <1>2, <1>3, <1>4

LEMMA HitsNext ==
  ASSUME IsCounter(hits, Urls), [PipelineNext]_pipelineVars
  PROVE  /\ IsCounter(hits, Urls)' /\ (Spent => Spent')
         /\ \A k : CountOf(hits, k)' >= CountOf(hits, k)
<1>1. job' = job
  BY PipelineSteps
<1>2. IsCounter(hits', Urls) /\ \A k : CountOf(hits', k) >= CountOf(hits, k)
  <2>1. CASE CallServer
    <3>1. PICK call : \E o \in Outcomes(call) : hits' = o.hits
      BY <2>1 DEF CallServer
    <3> QED
      BY <3>1, OutcomeHits
  <2>2. CASE UNCHANGED hits
    <3>1. \A k : CountOf(hits, k) \in Nat
      BY DEF IsCounter, CountOf
    <3> QED
      BY <2>2, <3>1
  <2> QED
    BY <2>1, <2>2, PipelineSteps DEF pipelineVars
<1>3. \A u : CountOf(hits, u) \in Nat /\ CountOf(hits', u) \in Nat /\ FailFirst(u) \in Nat
  BY <1>2 DEF IsCounter, CountOf, FailFirst
<1>4. \A k : CountOf(hits, k)' = CountOf(hits', k)
  BY DEF CountOf
<1> QED
  BY <1>1, <1>2, <1>3, <1>4 DEF Spent, IsCounter

(* A step of the pipeline is the replay's step: as long as the counter of  *)
(* the endpoint is not spent, the next state is a function of this one.    *)
LEMMA StepIsReplayed ==
  ASSUME OnlyLocal, Underway, Sourced, Patient(steps), Steady(job),
         IsCounter(hits, Urls), [PipelineNext]_pipelineVars, ~Spent'
  PROVE  Now' \in {Now, After(Now, job)}
<1>1. run = JobRun(job)
  BY DEF Underway
<1>2. CASE BeginAccepted \/ RejectPlan
  BY <1>1, <1>2, StartIsReplayed
<1>3. CASE CallServer
  <2>1. pc = "head" /\ CallTool
    BY <1>3 DEF CallServer, CallTool
  <2>2. Inv /\ toolCalls \in Seq(ToolCallRecords)
    BY <2>1 DEF Underway, Inv, TypeInv, TypeOK
  <2>3. toolCalls'[Len(toolCalls')].status = Answered(WithObservations(Current))
    BY <1>3, <2>2, AnswerIsDefinite
  <2> QED
    BY <1>1, <2>1, <2>2, <2>3, CallIsReplayed
<1>4. CASE Proceed
  BY <1>1, <1>4, StopIsReplayed, SaveIsReplayed, SuccessIsReplayed, NonProgressIsReplayed,
     MaxRetriesIsReplayed, RetryIsReplayed, ReplanIsReplayed, SkipIsReplayed, AbortIsReplayed
     DEF Proceed
<1>5. CASE PipelineEnded \/ UNCHANGED pipelineVars
  BY <1>5 DEF PipelineEnded, pipelineVars, vars, loopVars, stmVars, traceVars, Now
<1> QED
  BY <1>2, <1>3, <1>4, <1>5 DEF PipelineNext

-----------------------------------------------------------------------------

(* The first k + 1 states of the run for a job. *)
Path(f, k, j) ==
  /\ DOMAIN f = 0..k /\ f[0] = Unbegun
  /\ \A i \in 1..k : f[i] = After(f[i - 1], j)

(* The replay of job j comes by x. *)
Reached(x, j) == \E k \in Nat : \E f : Path(f, k, j) /\ f[k] = x

IsOver(x) == x.pc \in {"done", "rejected"}

LEMMA AfterOver ==
  ASSUME NEW x, NEW j, IsOver(x)
  PROVE  After(x, j) = x
  BY DEF After, IsOver

LEMMA ReachedFirst ==
  ASSUME NEW j
  PROVE  Reached(Unbegun, j)
<1> DEFINE f == [i \in 0..0 |-> Unbegun]
<1>1. Path(f, 0, j) /\ f[0] = Unbegun
  BY DEF Path
<1> QED
  BY <1>1 DEF Reached

LEMMA ReachedNext ==
  ASSUME NEW j, NEW x, Reached(x, j)
  PROVE  Reached(After(x, j), j)
<1>0. PICK k \in Nat : \E f : Path(f, k, j) /\ f[k] = x
  BY DEF Reached
<1>1. PICK f : Path(f, k, j) /\ f[k] = x
  BY <1>0
<1> DEFINE g == [i \in 0..(k + 1) |-> IF i <= k THEN f[i] ELSE After(x, j)]
<1>2. Path(g, k + 1, j) /\ g[k + 1] = After(x, j)
  <2>1. DOMAIN g = 0..(k + 1) /\ g[0] = Unbegun /\ g[k + 1] = After(x, j)
    BY <1>1 DEF Path
  <2>2. ASSUME NEW i \in 1..(k + 1)
        PROVE  g[i] = After(g[i - 1], j)
    <3>1. g[i - 1] = f[i - 1]
      OBVIOUS
    <3>2. CASE i <= k
      BY <1>1, <3>1, <3>2 DEF Path
    <3>3. CASE i = k + 1
      BY <1>1, <3>1, <3>3
    <3> QED
      BY <3>2, <3>3
  <2> HIDE DEF g
  <2> QED
    BY <2>1, <2>2 DEF Path
<1> QED
  BY <1>2 DEF Reached

(* A set of natural numbers has a least one. *)
Below == {p \in Nat \X Nat : p[1] < p[2]}

LEMMA LeastNatural ==
  ASSUME NEW T, T \subseteq Nat, T # {}
  PROVE  \E x \in T : \A y \in T : x <= y
<1>1. IsWellFoundedOn(Below, Nat)
  BY NatLessThanWellFounded DEF OpToRel, Below
<1>2. PICK x \in T : \A y \in T : <<y, x>> \notin Below
  BY <1>1, WFMin
<1>3. ASSUME NEW y \in T PROVE x <= y
  <2>1. x \in Nat /\ y \in Nat /\ <<y, x>> \in Nat \X Nat
    OBVIOUS
  <2>2. <<y, x>>[1] = y /\ <<y, x>>[2] = x
    OBVIOUS
  <2>3. ~(y < x)
    BY <1>2, <2>1, <2>2 DEF Below
  <2> QED
    BY <2>1, <2>3
<1> QED
  BY <1>3

(* A job has one end. *)
LEMMA OneEnd ==
  ASSUME NEW j, NEW x, NEW y, Reached(x, j), Reached(y, j), IsOver(x), IsOver(y)
  PROVE  x = y
<1>1. ASSUME NEW k \in Nat, NEW l \in Nat, NEW f, NEW g, k <= l,
             Path(f, k, j), Path(g, l, j), IsOver(f[k])
      PROVE  g[l] = f[k]
  <2> DEFINE h == [i \in 0..l |-> IF i <= k THEN f[i] ELSE f[k]]
             Apart == {i \in 0..l : g[i] # h[i]}
  <2>1. h[0] = Unbegun /\ \A i \in 1..l : h[i] = After(h[i - 1], j)
    <3>1. h[0] = Unbegun
      BY <1>1 DEF Path
    <3>2. ASSUME NEW i \in 1..l
          PROVE  h[i] = After(h[i - 1], j)
      <4>1. CASE i <= k
        BY <1>1, <4>1 DEF Path
      <4>2. CASE i > k
        <5>1. h[i] = f[k] /\ h[i - 1] = f[k]
          BY <1>1, <4>2
        <5> QED
          BY <1>1, <5>1, AfterOver
      <4> QED
        BY <1>1, <4>1, <4>2
    <3> QED
      BY <3>1, <3>2
  <2>2. h[l] = f[k]
    BY <1>1
  <2> HIDE DEF h
  <2>3. ASSUME Apart # {} PROVE FALSE
    <3>0. Apart \subseteq Nat
      OBVIOUS
    <3> HIDE DEF Apart
    <3>1. PICK i \in Apart : \A m \in Apart : i <= m
      BY <2>3, <3>0, LeastNatural
    <3> USE DEF Apart
    <3>2. i \in 1..l
      BY <1>1, <2>1 DEF Path
    <3>3. g[i - 1] = h[i - 1]
      BY <3>1, <3>2
    <3>4. g[i] = h[i]
      BY <1>1, <2>1, <3>2, <3>3 DEF Path
    <3> QED
      BY <3>4
  <2> QED
    BY <1>1, <2>2, <2>3
<1>2. PICK k \in Nat : \E f : Path(f, k, j) /\ f[k] = x
  BY DEF Reached
<1>3. PICK f : Path(f, k, j) /\ f[k] = x
  BY <1>2
<1>4. PICK l \in Nat : \E g : Path(g, l, j) /\ g[l] = y
  BY DEF Reached
<1>5. PICK g : Path(g, l, j) /\ g[l] = y
  BY <1>4
<1>6. CASE k <= l
  BY <1>1, <1>3, <1>5, <1>6
<1>7. CASE l <= k
  BY <1>1, <1>3, <1>5, <1>7
<1> QED
  BY <1>6, <1>7

-----------------------------------------------------------------------------

(* Where the run for a job ends. *)
EndOf(j) == CHOOSE x : Reached(x, j) /\ IsOver(x)

(* The run has come by no state the replay of its job does not come by.   *)
Replayed ==
  /\ Patient(steps) /\ IsCounter(hits, Urls)
  /\ Steady(job) /\ ~Spent => Reached(Now, job)

LEMMA NowUnbegun ==
  ASSUME Unstarted
  PROVE  Now = Unbegun
  BY DEF Unstarted, Now, Unbegun

LEMMA ReplayedNext ==
  ASSUME OnlyLocal, Untied, Underway, Sourced, Replayed, [PipelineNext]_pipelineVars
  PROVE  Replayed'
<1>1. job' = job
  BY PipelineSteps
<1>2. IsCounter(hits, Urls)' /\ (Spent => Spent')
  BY HitsNext DEF Replayed
<1>3. Patient(steps)'
  <2>1. CASE pc # "rejected" /\ [Next]_vars
    BY <2>1, PatientNext DEF Underway, Replayed
  <2>2. CASE RejectPlan \/ UNCHANGED <<vars, hits>>
    <3>1. steps' = steps
      BY <2>2 DEF RejectPlan, vars, loopVars
    <3> QED
      BY <3>1 DEF Replayed, Patient
  <2>3. Begin => [Next]_vars
    BY DEF Next
  <2>4. pc = "start" => pc # "rejected"
    OBVIOUS
  <2> QED
    BY <2>1, <2>2, <2>3, <2>4, PipelineSteps
<1>4. ASSUME Steady(job)', ~Spent'
      PROVE  Reached(Now', job)
  <2>1. Steady(job) /\ ~Spent
    BY <1>1, <1>2, <1>4
  <2>2. Reached(Now, job)
    BY <2>1 DEF Replayed
  <2>3. Now' \in {Now, After(Now, job)}
    BY <1>4, <2>1, StepIsReplayed DEF Replayed
  <2> QED
    BY <2>2, <2>3, ReachedNext
<1> QED
  BY <1>1, <1>2, <1>3, <1>4 DEF Replayed

LEMMA ReplayedStart == Beginning /\ IsCounter(hits, Urls) => Replayed
  BY PatientInit, NowUnbegun, ReachedFirst DEF Replayed, Beginning

LEMMA ReplayedInit == PipelineInit => Replayed
  BY ReplayedStart, HitsAssumption DEF PipelineInit, Beginning

(* A run that is over is where every run for its job ends. *)
EndsAlike == Over /\ Steady(job) /\ ~Spent => Now = EndOf(job)

LEMMA EndIsReached ==
  ASSUME Replayed
  PROVE  EndsAlike
<1> SUFFICES ASSUME Over, Steady(job), ~Spent PROVE Now = EndOf(job)
  BY DEF EndsAlike
<1>1. Reached(Now, job) /\ IsOver(Now)
  BY DEF Replayed, IsOver, Over, Now
<1>2. Reached(EndOf(job), job) /\ IsOver(EndOf(job))
  BY <1>1 DEF EndOf
<1> QED
  BY <1>1, <1>2, OneEnd

(* A job has one end: without a lossy network, a remote model or a foreign *)
(* server, whatever else ran before, the plan, the calls and their         *)
(* answers, the events, the memories, the verdict and its reason are a     *)
(* function of the goal and the configuration, as long as the flaky        *)
(* endpoint in question has failures left or none was asked for, and no    *)
(* timeout is a slow endpoint's delay to the tenth of a second.            *)
THEOREM RunsAreReplayed ==
  ASSUME OnlyLocal, Untied
  PROVE  PipelineSpec => []EndsAlike
<1>1. Underway /\ Sourced /\ Replayed /\ [PipelineNext]_pipelineVars => Replayed'
  BY ReplayedNext
<1>2. Replayed => EndsAlike
  BY EndIsReached
<1> QED
  BY <1>1, <1>2, ReplayedInit, UnderwayAlways, PTL DEF PipelineSpec

-----------------------------------------------------------------------------
(* No call is left without an answer. *)

(* The tool that is about to be called can end with something, and only    *)
(* with what the executor expects of it.                                   *)
AnswersExpected ==
  pc = "head" /\ More =>
    LET step == WithObservations(Current)
    IN  \A call : call.tool = step.tool /\ call.args = step.args =>
          /\ Outcomes(call) # {}
          /\ \A o \in Outcomes(call) : o.status \in ToolStatuses(step)

HttpStatuses(args) ==
  {"success", "timeout", "error"} \cup (IF args.strict THEN {"schema_error"} ELSE {})

LEMMA ExchangeStatuses ==
  ASSUME NEW tool, NEW args, NEW h, args.timeout \in Nat
  PROVE  /\ Exchange(tool, args, h) # {}
         /\ \A o \in Exchange(tool, args, h) : o.status \in HttpStatuses(args)
<1>1. MayTimeOut(tool, args) \/ MayAnswer(tool, args)
  <2>1. Delay(args.target) \in Nat
    BY DEF Delay
  <2> QED
    BY <2>1 DEF MayTimeOut, MayAnswer
<1>2. /\ \A body : Received(args.strict, body) \in HttpStatuses(args)
      /\ "timeout" \in HttpStatuses(args)
  BY DEF Received, HttpStatuses
<1>3. Exchange(tool, args, h) # {}
  BY <1>1 DEF Exchange
<1>4. ASSUME NEW o \in Exchange(tool, args, h)
      PROVE  o.status \in HttpStatuses(args)
  <2>1. o.status \in {Received(args.strict, Reply(tool, args.target, h).body), "timeout"}
    BY DEF Exchange
  <2> QED
    BY <1>2, <2>1
<1> QED
  BY <1>3, <1>4

LEMMA CallIsAnswered ==
  ASSUME Underway, Inv, Sourced, pc = "head", More, NEW call,
         call.tool = WithObservations(Current).tool, call.args = WithObservations(Current).args
  PROVE  /\ Outcomes(call) # {}
         /\ \A o \in Outcomes(call) : o.status \in ToolStatuses(WithObservations(Current))
<1> DEFINE step == WithObservations(Current)
<1>1. /\ steps \in Seq(Steps) /\ Len(steps) \in Nat /\ stepIndex \in Nat
  BY LenProperties DEF Inv, TypeInv, TypeOK
<1>2. stepIndex + 1 \in 1..Len(steps)
  BY <1>1 DEF More
<1>3. Current = steps[stepIndex + 1] /\ Current \in Steps /\ AsksWithFallback(Current, Era)
  BY <1>1, <1>2, ElementOfSeq DEF Current, Sourced
<1>4. /\ call.tool = Current.tool /\ call.args.target = Current.args.target
      /\ call.args.timeout \in Nat
  BY <1>3 DEF WithObservations, Steps, Args
<1>5. PICK p \in PieceSet(job.goal, job.config, Era) :
        call.tool = p.tool /\ call.args.target = p.args.target
  BY <1>3, <1>4 DEF AsksWithFallback
<1>6. job.goal \in Goals
  BY JobsAssumption DEF Underway
<1>7. ToolStatuses(step) = ToolStatuses(call)
  BY DEF ToolStatuses
<1> HIDE DEF step
<1>8. CASE call.tool \in HttpTools
  <2> DEFINE answers == Exchange(call.tool, call.args, hits)
  <2>1. answers # {} /\ \A o \in answers : o.status \in HttpStatuses(call.args)
    BY <1>4, ExchangeStatuses
  <2>2. ForeignExchange(call.args, hits) =
          {[status |-> st, hits |-> hits] : st \in HttpStatuses(call.args)}
    BY DEF ForeignExchange, HttpStatuses
  <2>3. {"timeout", "error"} \subseteq HttpStatuses(call.args)
    BY DEF HttpStatuses
  <2>4. \/ Outcomes(call) = ForeignExchange(call.args, hits)
        \/ Outcomes(call) = LossyExchange(call.tool, call.args, hits)
        \/ Outcomes(call) = answers
    BY <1>8 DEF Outcomes
  <2>5. \A o \in LossyExchange(call.tool, call.args, hits) :
          o \in answers \/ o.status \in {"timeout", "error"}
    BY DEF LossyExchange
  <2>6. answers \subseteq LossyExchange(call.tool, call.args, hits)
    BY DEF LossyExchange
  <2> HIDE DEF answers
  <2>7. Outcomes(call) # {}
    BY <2>1, <2>2, <2>3, <2>4, <2>6
  <2>8. \A o \in Outcomes(call) : o.status \in HttpStatuses(call.args)
    BY <2>1, <2>2, <2>3, <2>4, <2>5
  <2>9. ToolStatuses(call) = HttpStatuses(call.args)
    BY <1>8 DEF ToolStatuses, HttpStatuses, HttpTools
  <2> QED
    BY <1>7, <2>7, <2>8, <2>9 DEF step
<1>9. CASE call.tool \notin HttpTools
  <2>1. Outcomes(call) = {[status |-> st, hits |-> hits] : st \in LocalStatuses(call)}
    BY <1>9 DEF Outcomes
  <2>2. LocalStatuses(call) # {} /\ LocalStatuses(call) \subseteq ToolStatuses(call)
    <3>1. CASE call.tool = "calc"
      <4>1. call.args.target \in CalcTargets
        BY <1>5, <1>6, <3>1, CalcPieceTargets
      <4>2. PICK st \in {"success", "policy_blocked", "error"} :
              CalcStatuses(Asked(call.args.target).expression) = {st}
        BY <4>1, CalcIsDefinite
      <4> QED
        BY <1>9, <3>1, <4>2 DEF LocalStatuses, ToolStatuses
    <3>2. CASE call.tool = "file_write"
      BY <1>9, <3>2 DEF LocalStatuses, ToolStatuses
    <3>3. CASE call.tool = "summarize"
      BY <1>9, <3>3 DEF LocalStatuses, ToolStatuses, SummarizeStatuses
    <3>4. CASE call.tool \notin {"calc", "file_write", "summarize"}
      BY <1>9, <3>4 DEF LocalStatuses, ToolStatuses
    <3> QED
      BY <3>1, <3>2, <3>3, <3>4
  <2>3. Outcomes(call) # {}
    BY <2>1, <2>2
  <2>4. \A o \in Outcomes(call) : o.status \in ToolStatuses(call)
    BY <2>1, <2>2
  <2> QED
    BY <1>7, <2>3, <2>4 DEF step
<1> QED
  BY <1>8, <1>9

(* Whatever is asked of a tool in a run of the pipeline, over whatever     *)
(* network and with whatever language model, it ends with a status, and    *)
(* with one that the executor knows how to handle: a call can always be    *)
(* made when the guards of the loop let it through.                        *)
THEOREM CallsAreAnswered == PipelineSpec => []AnswersExpected
<1>1. Underway /\ Sourced => AnswersExpected
  <2> SUFFICES ASSUME Underway, Sourced, pc = "head", More, NEW call,
                      call.tool = WithObservations(Current).tool,
                      call.args = WithObservations(Current).args
               PROVE  /\ Outcomes(call) # {}
                      /\ \A o \in Outcomes(call) :
                           o.status \in ToolStatuses(WithObservations(Current))
    BY DEF AnswersExpected
  <2> QED
    BY CallIsAnswered DEF Underway
<1> QED
  BY <1>1, UnderwayAlways, PTL
=============================================================================
