------------------------- MODULE QueryAnalysisProofs ------------------------
(***************************************************************************)
(* Proofs about QueryAnalysis, for any error output, any code and any      *)
(* limit on lines: cleaning a cleaned text changes no category, and what   *)
(* _extract_spec_clauses takes for specification.                          *)
(***************************************************************************)
EXTENDS QueryAnalysis, DataLemmas, TLAPS

(* error_cleaner.py *)

\* strip() of the joined lines changes the indentation of the first line and
\* nothing else (clean_error_text).
LEMMA JoinedFacts ==
    ASSUME NEW ls \in Seq(ErrorLine)
    PROVE  /\ Joined(ls) \in Seq(ErrorLine) /\ Len(Joined(ls)) = Len(ls)
           /\ \A k \in 1..Len(ls) : /\ Joined(ls)[k].form = ls[k].form /\ Joined(ls)[k].says = ls[k].says
                                    /\ k # 1 => Joined(ls)[k] = ls[k]
                                    /\ k = 1 => ~Joined(ls)[k].indented
                                    /\ IsFocused(Joined(ls)[k]) = IsFocused(ls[k])
           /\ (ls # <<>> => ~ls[1].indented) => Joined(ls) = ls
<1>1. PICK n \in Nat : n = Len(ls)
  BY LenProperties
<1>2. DOMAIN ls = 1..n /\ ls \in [1..n -> ErrorLine]
  BY <1>1, LenProperties, ElementOfSeq
<1>3. Joined(ls) = [k \in 1..n |-> IF k = 1 THEN [ls[k] EXCEPT !.indented = FALSE] ELSE ls[k]]
  BY <1>2 DEF Joined
<1>4. \A k \in 1..n : /\ ls[k] \in ErrorLine /\ [ls[k] EXCEPT !.indented = FALSE] \in ErrorLine
                      /\ [ls[k] EXCEPT !.indented = FALSE].form = ls[k].form
                      /\ [ls[k] EXCEPT !.indented = FALSE].says = ls[k].says
                      /\ [ls[k] EXCEPT !.indented = FALSE].indented = FALSE
                      /\ ~ls[k].indented => [ls[k] EXCEPT !.indented = FALSE] = ls[k]
  <2> SUFFICES ASSUME NEW k \in 1..n
               PROVE  /\ ls[k] \in ErrorLine /\ [ls[k] EXCEPT !.indented = FALSE] \in ErrorLine
                      /\ [ls[k] EXCEPT !.indented = FALSE].form = ls[k].form
                      /\ [ls[k] EXCEPT !.indented = FALSE].says = ls[k].says
                      /\ [ls[k] EXCEPT !.indented = FALSE].indented = FALSE
                      /\ ~ls[k].indented => [ls[k] EXCEPT !.indented = FALSE] = ls[k]
    OBVIOUS
  <2>1. ls[k] \in ErrorLine
    BY <1>2
  <2> QED
    BY <2>1 DEF ErrorLine
<1>5. Joined(ls) \in [1..n -> ErrorLine]
  BY <1>3, <1>4
<1>6. Joined(ls) \in Seq(ErrorLine) /\ Len(Joined(ls)) = n
  BY <1>5, FunctionIsSeq
<1>7. ASSUME NEW k \in 1..n
      PROVE  /\ Joined(ls)[k].form = ls[k].form /\ Joined(ls)[k].says = ls[k].says
             /\ k # 1 => Joined(ls)[k] = ls[k]
             /\ k = 1 => ~Joined(ls)[k].indented
  BY <1>3, <1>4
<1>8. \A k \in 1..n : IsFocused(Joined(ls)[k]) = IsFocused(ls[k])
  BY <1>7 DEF IsFocused
<1>9. ASSUME ls # <<>> => ~ls[1].indented PROVE Joined(ls) = ls
  <2>1. \A k \in 1..n : Joined(ls)[k] = ls[k]
    <3> SUFFICES ASSUME NEW k \in 1..n PROVE Joined(ls)[k] = ls[k]
      OBVIOUS
    <3>1. ls # <<>>
      BY <1>1, EmptySeq
    <3> QED
      BY <1>3, <1>4, <1>9, <3>1
  <2> QED
    BY <1>2, <1>5, <2>1
<1> QED
  BY <1>1, <1>6, <1>7, <1>8, <1>9

\* If all lines that are not noise are in focus, or none is, and they are few
\* enough, then all of them are left.
LEMMA CleanUniform ==
    ASSUME NEW ls, NEW kept \in Seq(ErrorLine), StripNoiseLines(ls) = kept, Len(kept) <= MaxLines,
           \/ \A k \in 1..Len(kept) : IsFocused(kept[k])
           \/ \A k \in 1..Len(kept) : ~IsFocused(kept[k])
    PROVE  CleanErrorText(ls) = Joined(kept)
<1> DEFINE focused == Picked(kept, {k \in DOMAIN kept : IsFocused(kept[k])})
           chosen == IF focused = <<>> THEN kept ELSE focused
<1>1. Len(kept) \in Nat /\ DOMAIN kept = 1..Len(kept)
  BY LenProperties
<1>2. chosen = kept
  <2>1. CASE \A k \in 1..Len(kept) : IsFocused(kept[k])
    <3>1. {k \in DOMAIN kept : IsFocused(kept[k])} = 1..Len(kept)
      BY <1>1, <2>1
    <3> QED
      BY <3>1, PickedAll
  <2>2. CASE \A k \in 1..Len(kept) : ~IsFocused(kept[k])
    <3>1. {k \in DOMAIN kept : IsFocused(kept[k])} = {}
      BY <1>1, <2>2
    <3> QED
      BY <3>1, PickedNone
  <2> QED
    BY <2>1, <2>2
<1>3. CleanErrorText(ls) =
        Joined(SubSeq(chosen, 1, IF Len(chosen) < MaxLines THEN Len(chosen) ELSE MaxLines))
  BY DEF CleanErrorText
<1> HIDE DEF chosen
<1>4. (IF Len(kept) < MaxLines THEN Len(kept) ELSE MaxLines) = Len(kept)
  <2>1. MaxLines \in Nat
    BY AnalysisAssumption
  <2>2. \A a, b \in Nat : a <= b => (IF a < b THEN a ELSE b) = a
    OBVIOUS
  <2> QED
    BY <1>1, <2>1, <2>2
<1>5. SubSeq(kept, 1, Len(kept)) = kept
  BY SubSeqFull
<1> QED
  BY <1>2, <1>3, <1>4, <1>5

\* What clean_error_text leaves is a text of few lines, none of them noise,
\* all of them in focus or none.
LEMMA CleanedFacts ==
    ASSUME NEW ls \in Seq(ErrorLine)
    PROVE  \E c \in Seq(ErrorLine) :
             /\ CleanErrorText(ls) = Joined(c) /\ Len(c) <= MaxLines
             /\ \A k \in 1..Len(c) : ~IsNoise(c[k])
             /\ (\A k \in 1..Len(c) : IsFocused(c[k])) \/ (\A k \in 1..Len(c) : ~IsFocused(c[k]))
<1> DEFINE kept == StripNoiseLines(ls)
           F == {k \in DOMAIN kept : IsFocused(kept[k])}
           focused == Picked(kept, F)
           chosen == IF focused = <<>> THEN kept ELSE focused
           m == IF Len(chosen) < MaxLines THEN Len(chosen) ELSE MaxLines
<1>1. kept \in Seq(ErrorLine) /\ \A k \in 1..Len(kept) : ~IsNoise(kept[k])
  <2> DEFINE S == {k \in DOMAIN ls : ~IsNoise(ls[k])}
  <2>1. S \in SUBSET (1..Len(ls)) /\ kept = Picked(ls, S)
    BY LenProperties DEF StripNoiseLines
  <2>2. \A k \in S : ~IsNoise(ls[k])
    OBVIOUS
  <2> HIDE DEF S, kept
  <2>3. kept \in Seq(ErrorLine) /\ \A k \in DOMAIN kept : \E j \in S : kept[k] = ls[j]
    BY <2>1, PickedFacts
  <2>4. DOMAIN kept = 1..Len(kept)
    BY <2>3, LenProperties
  <2> QED
    BY <2>2, <2>3, <2>4
<1>2. F \in SUBSET (1..Len(kept)) /\ \A k \in F : IsFocused(kept[k])
  BY <1>1, LenProperties
<1>3. CleanErrorText(ls) = Joined(SubSeq(chosen, 1, m))
  BY DEF CleanErrorText
<1> HIDE DEF kept
<1>4. focused \in Seq(ErrorLine) /\ \A k \in DOMAIN focused : \E j \in F : focused[k] = kept[j]
  <2> HIDE DEF F
  <2> QED
    BY <1>1, <1>2, PickedFacts
<1>5. DOMAIN focused = 1..Len(focused) /\ DOMAIN kept = 1..Len(kept)
  BY <1>1, <1>4, LenProperties
<1>6. /\ chosen \in Seq(ErrorLine) /\ \A k \in 1..Len(chosen) : ~IsNoise(chosen[k])
      /\ (\A k \in 1..Len(chosen) : IsFocused(chosen[k])) \/ (\A k \in 1..Len(chosen) : ~IsFocused(chosen[k]))
  <2>1. CASE focused = <<>>
    <3>1. F = {}
      <4>1. Len(Ascending(F)) = 0 /\ Len(kept) \in Nat
        BY <1>1, <1>2, <2>1, PickedFacts, LenProperties, EmptySeq
      <4>2. Ascending(F) \in Seq(F)
        BY <1>2, <4>1, AscendingFacts
      <4>3. Ascending(F) = <<>>
        BY <4>1, <4>2, EmptySeq
      <4> QED
        BY <1>2, <4>1, <4>3, AscendingFacts
    <3> QED
      BY <1>1, <1>5, <2>1, <3>1
  <2>2. CASE focused # <<>>
    <3> HIDE DEF F, focused
    <3> QED
      BY <1>1, <1>2, <1>4, <1>5, <2>2
  <2> QED
    BY <2>1, <2>2
<1> HIDE DEF chosen
<1>7. m \in 0..Len(chosen) /\ m <= MaxLines /\ Len(chosen) \in Nat
  BY <1>6, LenProperties, AnalysisAssumption
<1> DEFINE c == SubSeq(chosen, 1, m)
<1>8. c \in Seq(ErrorLine) /\ Len(c) = m /\ \A k \in 1..m : c[k] = chosen[k]
  <2>1. c = [k \in 1..m |-> chosen[k]]
    BY <1>6, <1>7
  <2>2. \A k \in 1..m : chosen[k] \in ErrorLine
    BY <1>6, <1>7, ElementOfSeq
  <2>3. c \in [1..m -> ErrorLine]
    BY <2>1, <2>2
  <2>4. m \in Nat
    BY <1>7
  <2>5. c \in Seq(ErrorLine) /\ Len(c) = m
    <3> HIDE DEF c, m
    <3> QED
      BY <2>3, <2>4, FunctionIsSeq
  <2>6. \A k \in 1..m : c[k] = chosen[k]
    BY <2>1
  <2> QED
    BY <2>5, <2>6
<1>9. 1..m \subseteq 1..Len(chosen)
  BY <1>7
<1> HIDE DEF m, c
<1>10. /\ \A k \in 1..Len(c) : ~IsNoise(c[k])
       /\ (\A k \in 1..Len(c) : IsFocused(c[k])) \/ (\A k \in 1..Len(c) : ~IsFocused(c[k]))
  BY <1>6, <1>8, <1>9
<1>11. CleanErrorText(ls) = Joined(c)
  BY <1>3 DEF c
<1> QED
  BY <1>7, <1>8, <1>10, <1>11

\* Cleaning what was cleaned takes at most a location that has come first.
LEMMA CleanTwice ==
    ASSUME NEW ls \in Seq(ErrorLine), NEW c \in Seq(ErrorLine), c = CleanErrorText(ls)
    PROVE  \/ CleanErrorText(c) = c
           \/ /\ c # <<>> /\ c[1].form = "location" /\ Tail(c) \in Seq(ErrorLine)
              /\ CleanErrorText(c) = Joined(Tail(c))
<1>1. PICK d \in Seq(ErrorLine) :
             /\ c = Joined(d) /\ Len(d) <= MaxLines
             /\ \A k \in 1..Len(d) : ~IsNoise(d[k])
             /\ (\A k \in 1..Len(d) : IsFocused(d[k])) \/ (\A k \in 1..Len(d) : ~IsFocused(d[k]))
  BY CleanedFacts
<1>2. PICK n \in Nat : n = Len(d)
  BY LenProperties
<1>3. Len(c) = n /\ DOMAIN c = 1..n
  BY <1>1, <1>2, JoinedFacts, LenProperties
<1>4. \A k \in 1..n : /\ c[k].form = d[k].form
                      /\ k # 1 => c[k] = d[k]
                      /\ k = 1 => ~c[k].indented
                      /\ IsFocused(c[k]) = IsFocused(d[k])
  BY <1>1, <1>2, JoinedFacts
<1>5. (\A k \in 1..n : IsFocused(c[k])) \/ (\A k \in 1..n : ~IsFocused(c[k]))
  BY <1>1, <1>2, <1>4
<1>6. \A k \in 1..n : k # 1 => ~IsNoise(c[k])
  BY <1>1, <1>2, <1>4
<1>7. \A k \in 1..n : k = 1 => (IsNoise(c[k]) <=> c[k].form = "location")
  BY <1>1, <1>2, <1>4 DEF IsNoise
<1> DEFINE S == {k \in DOMAIN c : ~IsNoise(c[k])}
<1>8. CASE n = 0 \/ c[1].form # "location"
  <2>1. S = 1..Len(c)
    BY <1>3, <1>6, <1>7, <1>8
  <2>2. StripNoiseLines(c) = c
    <3>1. StripNoiseLines(c) = Picked(c, S)
      BY DEF StripNoiseLines
    <3> QED
      BY <2>1, <3>1, PickedAll
  <2>3. CleanErrorText(c) = Joined(c)
    BY <1>1, <1>2, <1>3, <1>5, <2>2, CleanUniform
  <2>4. c # <<>> => ~c[1].indented
    <3>1. c # <<>> => 1 \in 1..n
      BY <1>2, <1>3, EmptySeq
    <3> QED
      BY <1>4, <3>1
  <2> QED
    BY <2>3, <2>4, JoinedFacts
<1>9. CASE n # 0 /\ c[1].form = "location"
  <2>1. S = 2..n
    BY <1>2, <1>3, <1>6, <1>7, <1>9
  <2>2. c # <<>> /\ Tail(c) = [k \in 1..(n - 1) |-> c[k + 1]] /\ Tail(c) \in Seq(ErrorLine) /\ Len(Tail(c)) = n - 1
    <3>1. c # <<>>
      BY <1>3, <1>9, EmptySeq
    <3>2. Tail(c) \in Seq(ErrorLine) /\ Len(Tail(c)) = n - 1
      BY <1>3, <3>1, HeadTailProperties
    <3>3. Tail(c) = [k \in 1..(n - 1) |-> c[k + 1]]
      <4>1. PICK t \in Seq(ErrorLine) : t = Tail(c)
        BY <3>2
      <4>2. \A k \in 1..(n - 1) : t[k] = c[k + 1]
        BY <1>3, <3>1, <3>2, <4>1, HeadTailProperties
      <4>3. DOMAIN t = 1..(n - 1) /\ t = [k \in DOMAIN t |-> t[k]]
        BY <3>2, <4>1, LenProperties
      <4> QED
        BY <4>1, <4>2, <4>3
    <3> QED
      BY <3>1, <3>2, <3>3
  <2>3. StripNoiseLines(c) = Tail(c)
    <3>1. StripNoiseLines(c) = Picked(c, S)
      BY DEF StripNoiseLines
    <3>2. 1 \in Nat /\ 1 <= Len(c) /\ (1 + 1)..Len(c) = 2..n
      BY <1>2, <1>3, <1>9
    <3>3. Picked(c, (1 + 1)..Len(c)) = [k \in 1..(Len(c) - 1) |-> c[k + 1]]
      BY <3>2, PickedRest
    <3> QED
      BY <1>3, <2>1, <2>2, <3>1, <3>2, <3>3
  <2>4. (\A k \in 1..(n - 1) : IsFocused(Tail(c)[k])) \/ (\A k \in 1..(n - 1) : ~IsFocused(Tail(c)[k]))
    <3>1. \A k \in 1..(n - 1) : k + 1 \in 1..n /\ Tail(c)[k] = c[k + 1]
      BY <1>2, <2>2
    <3> QED
      BY <1>5, <3>1
  <2>5. n - 1 <= MaxLines
    <3>1. MaxLines \in Nat
      BY AnalysisAssumption
    <3> QED
      BY <1>1, <1>2, <3>1
  <2>6. CleanErrorText(c) = Joined(Tail(c))
    BY <2>2, <2>3, <2>4, <2>5, CleanUniform
  <2> QED
    BY <1>9, <2>2, <2>6
<1> QED
  BY <1>8, <1>9

\* Categories are found line by line, whatever its indentation
\* (detect_error_categories).
LEMMA CategoriesByLine ==
    ASSUME NEW c \in Seq(ErrorLine), c # <<>>, Tail(c) \in Seq(ErrorLine)
    PROVE  DetectErrorCategories(c) =
             DetectErrorCategories(Joined(Tail(c))) \cup DetectErrorCategories(<<c[1]>>)
<1> DEFINE t == Joined(Tail(c))
           Said(ls) == {s \in Signs : \E l \in ToSet(ls) : s[1] \in l.says}
<1>1. PICK n \in Nat : n = Len(c) /\ n # 0
  BY LenProperties, EmptySeq
<1>2. DOMAIN c = 1..n /\ Len(Tail(c)) = n - 1 /\ \A k \in 1..(n - 1) : Tail(c)[k] = c[k + 1]
  BY <1>1, LenProperties, HeadTailProperties
<1>3. Len(t) = n - 1 /\ \A k \in 1..(n - 1) : t[k].says = c[k + 1].says
  <2>1. Len(t) = Len(Tail(c)) /\ \A k \in 1..Len(Tail(c)) : t[k].says = Tail(c)[k].says
    <3>1. PICK u \in Seq(ErrorLine) : u = Tail(c)
      OBVIOUS
    <3>2. Len(Joined(u)) = Len(u) /\ \A k \in 1..Len(u) : Joined(u)[k].says = u[k].says
      BY JoinedFacts
    <3> QED
      BY <3>1, <3>2
  <2> HIDE DEF t
  <2> QED
    BY <1>2, <2>1
<1>4. DOMAIN t = 1..(n - 1)
  BY <1>3, JoinedFacts, LenProperties
<1>5. DOMAIN <<c[1]>> = {1} /\ <<c[1]>>[1] = c[1]
  OBVIOUS
<1> HIDE DEF t
<1>6. \A p : (\E l \in ToSet(c) : p \in l.says) <=> \E k \in 1..n : p \in c[k].says
  BY <1>2 DEF ToSet
<1>7. \A p : (\E l \in ToSet(t) : p \in l.says) <=> \E k \in 1..(n - 1) : p \in c[k + 1].says
  BY <1>3, <1>4 DEF ToSet
<1>8. \A p : (\E l \in ToSet(<<c[1]>>) : p \in l.says) <=> p \in c[1].says
  BY <1>5 DEF ToSet
<1>9. \A p : (\E k \in 1..n : p \in c[k].says) <=> (\E k \in 1..(n - 1) : p \in c[k + 1].says) \/ p \in c[1].says
  <2> SUFFICES ASSUME NEW p
               PROVE  (\E k \in 1..n : p \in c[k].says) <=>
                        (\E k \in 1..(n - 1) : p \in c[k + 1].says) \/ p \in c[1].says
    OBVIOUS
  <2>1. ASSUME NEW k \in 1..n, p \in c[k].says, k # 1 PROVE \E j \in 1..(n - 1) : p \in c[j + 1].says
    <3>1. k - 1 \in 1..(n - 1) /\ (k - 1) + 1 = k
      BY <1>1, <2>1
    <3> QED
      BY <2>1, <3>1
  <2>2. \A j \in 1..(n - 1) : j + 1 \in 1..n
    BY <1>1
  <2>3. 1 \in 1..n
    BY <1>1
  <2> QED
    BY <2>1, <2>2, <2>3
<1>10. Said(c) = Said(t) \cup Said(<<c[1]>>)
  BY <1>6, <1>7, <1>8, <1>9
<1>11. \A ls : DetectErrorCategories(ls) = {s[2] : s \in Said(ls)}
  BY DEF DetectErrorCategories
<1> HIDE DEF Said
<1> QED
  BY <1>10, <1>11 DEF t

\* Both cleanings of a query are of the text that the one before left.
THEOREM CleaningInvariant == AnalysisSpec => []CleaningInv
<1>1. AnalysisInit => CleaningInv
  BY DEF AnalysisInit, AnalysisInitOf, CleaningInv
<1>2. CleaningInv /\ [AnalysisNext]_analysisVars => CleaningInv'
  <2> SUFFICES ASSUME CleaningInv, [AnalysisNext]_analysisVars PROVE CleaningInv'
    OBVIOUS
  <2>1. CASE CleanError
    BY <2>1 DEF CleaningInv, CleanError
  <2>2. CASE BuildTerms
    BY <2>2 DEF CleaningInv, BuildTerms
  <2>3. CASE SearchKeyword
    BY <2>3 DEF CleaningInv, SearchKeyword
  <2>4. CASE WalkToken
    BY <2>4 DEF CleaningInv, WalkToken
  <2>5. CASE EndClause
    BY <2>5 DEF CleaningInv, EndClause
  <2>6. CASE UNCHANGED analysisVars
    BY <2>6 DEF CleaningInv, analysisVars
  <2> QED
    BY <2>1, <2>2, <2>3, <2>4, <2>5, <2>6 DEF AnalysisNext
<1> QED
  BY <1>1, <1>2, PTL DEF AnalysisSpec

\* Cleaning the error twice, as _build_weighted_query_terms does, changes
\* nothing but that a location which came first is dropped.
THEOREM CategoriesAreSettled == AnalysisSpec => []CategoriesSettled
<1>1. CleaningInv => CategoriesSettled
  <2> SUFFICES ASSUME CleaningInv, phase \notin {"clean", "terms"}
               PROVE  \/ recleaned = cleaned /\ hinted = categories
                      \/ /\ cleaned # <<>> /\ cleaned[1].form = "location"
                         /\ recleaned = Joined(Tail(cleaned))
                         /\ categories = hinted \cup DetectErrorCategories(<<cleaned[1]>>)
    BY DEF CategoriesSettled
  <2>1. /\ query \in Queries /\ cleaned = CleanErrorText(query.error)
        /\ categories = DetectErrorCategories(cleaned)
        /\ recleaned = CleanErrorText(cleaned) /\ hinted = DetectErrorCategories(recleaned)
    BY DEF CleaningInv
  <2>2. query.error \in Seq(ErrorLine)
    BY <2>1, AnalysisAssumption
  <2>3. cleaned \in Seq(ErrorLine)
    BY <2>1, <2>2, CleanedFacts, JoinedFacts
  <2>4. CASE CleanErrorText(cleaned) = cleaned
    BY <2>1, <2>4
  <2>5. CASE /\ cleaned # <<>> /\ cleaned[1].form = "location" /\ Tail(cleaned) \in Seq(ErrorLine)
             /\ CleanErrorText(cleaned) = Joined(Tail(cleaned))
    <3>1. DetectErrorCategories(cleaned) =
            DetectErrorCategories(Joined(Tail(cleaned))) \cup DetectErrorCategories(<<cleaned[1]>>)
      BY <2>3, <2>5, CategoriesByLine
    <3> QED
      BY <2>1, <2>5, <3>1
  <2> QED
    BY <2>1, <2>2, <2>3, <2>4, <2>5, CleanTwice
<1> QED
  BY <1>1, CleaningInvariant, PTL

-----------------------------------------------------------------------------
(* _extract_spec_clauses: how brackets are counted. *)

\* Of no tokens, of one more, and of two stretches.
LEMMA CountFacts ==
    ASSUME NEW code, NEW kinds, NEW j \in Nat, NEW k \in Nat
    PROVE  /\ Count(code, kinds, j, k) \in Nat
           /\ k < j => Count(code, kinds, j, k) = 0
           /\ j <= k + 1 => Count(code, kinds, j, k + 1) =
                              Count(code, kinds, j, k) + (IF Shown(code, k + 1) \in kinds THEN 1 ELSE 0)
<1> DEFINE S == {m \in j..k : Shown(code, m) \in kinds}
           T == {m \in j..(k + 1) : Shown(code, m) \in kinds}
<1>1. IsFiniteSet(S) /\ Cardinality(S) \in Nat
  <2>1. j \in Int /\ k \in Int
    OBVIOUS
  <2>2. IsFiniteSet(j..k)
    BY <2>1, FS_Interval
  <2> QED
    BY <2>2, FS_Subset, FS_CardinalityType
<1>2. Count(code, kinds, j, k) = Cardinality(S) /\ Count(code, kinds, j, k + 1) = Cardinality(T)
  BY DEF Count
<1>3. ASSUME k < j PROVE Cardinality(S) = 0
  <2>1. S = {}
    BY <1>3
  <2> QED
    BY <2>1, FS_EmptySet
<1>4. ASSUME j <= k + 1 PROVE Cardinality(T) = Cardinality(S) + (IF Shown(code, k + 1) \in kinds THEN 1 ELSE 0)
  <2>1. CASE Shown(code, k + 1) \in kinds
    <3>1. T = S \cup {k + 1} /\ k + 1 \notin S
      BY <1>4, <2>1
    <3>2. Cardinality(T) = Cardinality(S) + 1
      BY <1>1, <3>1, FS_AddElement
    <3> QED
      BY <2>1, <3>2
  <2>2. CASE Shown(code, k + 1) \notin kinds
    <3>1. T = S
      BY <1>4, <2>2
    <3> HIDE DEF S, T
    <3> QED
      BY <1>1, <2>2, <3>1
  <2> QED
    BY <2>1, <2>2
<1> QED
  BY <1>1, <1>2, <1>3, <1>4

LEMMA CountSplit ==
    ASSUME NEW code, NEW kinds, NEW j \in Nat, NEW s \in Nat \ {0}, NEW k \in Nat, j <= s, s <= k + 1
    PROVE  Count(code, kinds, j, k) = Count(code, kinds, j, s - 1) + Count(code, kinds, s, k)
<1> DEFINE S == {m \in j..(s - 1) : Shown(code, m) \in kinds}
           T == {m \in s..k : Shown(code, m) \in kinds}
           R == {m \in j..k : Shown(code, m) \in kinds}
<1>1. IsFiniteSet(S) /\ IsFiniteSet(T)
  <2>1. j \in Int /\ k \in Int /\ s \in Int /\ s - 1 \in Int
    OBVIOUS
  <2>2. IsFiniteSet(j..(s - 1)) /\ IsFiniteSet(s..k)
    BY <2>1, FS_Interval
  <2> QED
    BY <2>2, FS_Subset
<1>2. R = S \cup T /\ S \cap T = {}
  OBVIOUS
<1>3. Cardinality(R) = Cardinality(S) + Cardinality(T)
  <2> HIDE DEF R, S, T
  <2>1. Cardinality(S \cup T) = Cardinality(S) + Cardinality(T) - Cardinality(S \cap T)
    BY <1>1, FS_Union
  <2>2. Cardinality(S) \in Nat /\ Cardinality(T) \in Nat /\ Cardinality(S \cap T) = 0
    BY <1>1, <1>2, FS_CardinalityType, FS_EmptySet
  <2> QED
    BY <1>2, <2>1, <2>2
<1> QED
  BY <1>3 DEF Count

\* A bracket is opened or closed, and a keyword does neither.
LEMMA TokenKinds ==
    /\ Openers \cap Closers = {} /\ Keywords \cap Openers = {} /\ Keywords \cap Closers = {}
    /\ Brace \in Openers /\ Brace \notin Keywords /\ Bar \notin Keywords
    /\ Semicolon \notin Openers \cup Closers \cup Keywords /\ " " \notin Keywords
BY DEF Openers, Closers, Keywords, Brace, Bar, Semicolon

\* One step of the walk: the brackets so far, and one more token.
LEMMA BracketStep ==
    ASSUME NEW code, NEW o \in Nat \ {0}, NEW e \in Nat, o <= e, NoneClosed(code, o, e - 1),
           NEW d \in Nat, Opens(code, o, e - 1) = Closes(code, o, e - 1) + d,
           Shown(code, e) \in Closers => d # 0
    PROVE  LET c == CASE Shown(code, e) \in Openers -> d + 1
                      [] Shown(code, e) \in Closers -> d - 1
                      [] OTHER -> d
           IN  c \in Nat /\ Opens(code, o, e) = Closes(code, o, e) + c /\ NoneClosed(code, o, e)
<1> DEFINE c == CASE Shown(code, e) \in Openers -> d + 1
                  [] Shown(code, e) \in Closers -> d - 1
                  [] OTHER -> d
<1>1. PICK k \in Nat : k = e - 1 /\ k + 1 = e /\ o <= k + 1
  OBVIOUS
<1>2. /\ Opens(code, o, k) \in Nat /\ Closes(code, o, k) \in Nat
      /\ Opens(code, o, k + 1) = Opens(code, o, k) + (IF Shown(code, k + 1) \in Openers THEN 1 ELSE 0)
      /\ Closes(code, o, k + 1) = Closes(code, o, k) + (IF Shown(code, k + 1) \in Closers THEN 1 ELSE 0)
  BY <1>1, CountFacts DEF Opens, Closes
<1>3. /\ Opens(code, o, e - 1) \in Nat /\ Closes(code, o, e - 1) \in Nat
      /\ Opens(code, o, e) = Opens(code, o, e - 1) + (IF Shown(code, e) \in Openers THEN 1 ELSE 0)
      /\ Closes(code, o, e) = Closes(code, o, e - 1) + (IF Shown(code, e) \in Closers THEN 1 ELSE 0)
  BY <1>1, <1>2
<1>4. c \in Nat /\ Opens(code, o, e) = Closes(code, o, e) + c
  <2>1. CASE Shown(code, e) \in Openers
    <3>1. Shown(code, e) \notin Closers
      BY <2>1, TokenKinds
    <3>2. c = d + 1
      BY <2>1, <3>1
    <3> QED
      BY <1>3, <2>1, <3>1, <3>2
  <2>2. CASE Shown(code, e) \in Closers
    <3>1. Shown(code, e) \notin Openers
      BY <2>2, TokenKinds
    <3>2. c = d - 1
      BY <2>2, <3>1
    <3> QED
      BY <1>3, <2>2, <3>1, <3>2
  <2>3. CASE Shown(code, e) \notin Openers /\ Shown(code, e) \notin Closers
    <3>1. c = d
      BY <2>3
    <3> QED
      BY <1>3, <2>3, <3>1
  <2> QED
    BY <2>1, <2>2, <2>3
<1>5. NoneClosed(code, o, e)
  <2> SUFFICES ASSUME NEW m \in o..e PROVE Opens(code, o, m) >= Closes(code, o, m)
    BY DEF NoneClosed
  <2>1. CASE m = e
    <3>1. Closes(code, o, e) \in Nat
      BY <1>3
    <3> HIDE DEF c
    <3> QED
      BY <1>4, <2>1, <3>1
  <2>2. CASE m # e
    <3>1. m \in o..(e - 1)
      BY <2>2
    <3> QED
      BY <3>1 DEF NoneClosed
  <2> QED
    BY <2>1, <2>2
<1> QED
  BY <1>4, <1>5

\* The brackets of a clause are counted from its keyword on or after it.
LEMMA FromKeyword ==
    ASSUME NEW code, NEW o \in Nat, o - 1 \in Nat, Shown(code, o - 1) \in Keywords, NEW k \in Nat, o <= k + 1
    PROVE  Opens(code, o - 1, k) = Opens(code, o, k) /\ Closes(code, o - 1, k) = Closes(code, o, k)
<1> SUFFICES ASSUME NEW kinds, Shown(code, o - 1) \notin kinds
             PROVE  Count(code, kinds, o - 1, k) = Count(code, kinds, o, k)
  BY TokenKinds DEF Opens, Closes
<1>1. PICK a \in Nat : a = o - 1 /\ o = a + 1 /\ o \in Nat \ {0}
  OBVIOUS
<1>2. Count(code, kinds, a, k) = Count(code, kinds, a, o - 1) + Count(code, kinds, o, k)
  BY <1>1, CountSplit
<1>3. {m \in a..a : Shown(code, m) \in kinds} = {}
  BY <1>1
<1>4. Count(code, kinds, a, a) = 0
  BY <1>3, FS_EmptySet DEF Count
<1>5. Count(code, kinds, o, k) \in Nat
  BY CountFacts
<1> QED
  BY <1>1, <1>2, <1>4, <1>5

\* A clause that is followed by something has matching brackets.
LEMMA ClauseMatches ==
    ASSUME NEW code \in Seq(Token), Grammatical(code), NEW o \in Nat, NEW b \in Nat,
           o - 1 \in DOMAIN code, Shown(code, o - 1) \in Keywords, Part(code, o - 1, b), Followed(code, b)
    PROVE  /\ Opens(code, o, b) = Closes(code, o, b)
           /\ \/ Shown(code, b + 1) \in Keywords
              \/ BareBrace(code, b + 1)
              \/ code[b + 1].of = "signature" /\ Shown(code, b + 1) = Semicolon
<1> DEFINE a == o - 1
<1>1. DOMAIN code = 1..Len(code) /\ Len(code) \in Nat
  BY LenProperties
<1>2. a \in Nat /\ a <= b /\ b \in a..Len(code) /\ Begins(code, a)
  BY <1>1 DEF Part, Followed
<1>3. code[a].of \in Keywords
  BY <1>2 DEF Grammatical
<1>4. /\ Opens(code, a, b) = Closes(code, a, b)
      /\ \/ Shown(code, b + 1) \in Keywords
         \/ code[b + 1].of = "body" /\ BareBrace(code, b + 1)
         \/ code[b + 1].of = "signature" /\ Shown(code, b + 1) = Semicolon
  BY <1>2, <1>3 DEF Grammatical
<1>5. o <= b + 1
  BY <1>2
<1>6. Opens(code, a, b) = Opens(code, o, b) /\ Closes(code, a, b) = Closes(code, o, b)
  BY <1>2, <1>5, FromKeyword
<1> QED
  BY <1>4, <1>6

\* If a bar comes right before a token, it does so seen from further up.
LEMMA BarFromAbove ==
    ASSUME NEW code, NEW o \in Nat \ {0}, NEW e \in Nat, EndsInBar(code, o, e) PROVE EndsInBar(code, 1, e)
<1>1. PICK k \in o..(e - 1) : Shown(code, k) = Bar /\ \A n \in (k + 1)..(e - 1) : Shown(code, n) = " "
  BY DEF EndsInBar
<1>2. k \in 1..(e - 1)
  OBVIOUS
<1> QED
  BY <1>1, <1>2 DEF EndsInBar

\* The walk goes on for as long as it is in the clause, or in the signature
\* that follows a declaration without a body.
LEMMA WalkOn ==
    ASSUME NEW code \in Seq(Token), NEW o \in Nat, NEW e \in Nat, Walked(code, o, e), e <= Len(code),
           NEW d \in Nat, Opens(code, o, e - 1) = Closes(code, o, e - 1) + d,
           d = 0 => /\ Shown(code, e) \notin Keywords \cup Closers
                    /\ Shown(code, e) = Brace => EndsInBar(code, o, e)
    PROVE  Walked(code, o, e + 1)
<1> DEFINE a == o - 1
<1>1. DOMAIN code = 1..Len(code) /\ Len(code) \in Nat
  BY LenProperties
<1>2. a \in DOMAIN code /\ a \in Nat \ {0} /\ Shown(code, a) \in Keywords /\ o <= e /\ NoneClosed(code, o, e - 1) /\ o \in Nat \ {0}
  BY <1>1 DEF Walked
<1>3. NoneClosed(code, o, e)
  BY <1>2, BracketStep
<1>4. e - 1 \in Nat /\ (e - 1) + 1 = e /\ e \in 1..Len(code)
  BY <1>1, <1>2
<1>5. ASSUME Grammatical(code)
      PROVE  \/ Part(code, a, e)
             \/ \E s \in o..e : /\ Part(code, a, s - 1) /\ Part(code, s, e)
                                /\ code[s].of = "signature" /\ Shown(code, s) = Semicolon
  <2>1. ASSUME d = 0, Shown(code, e) \in Keywords \/ BareBrace(code, e) PROVE FALSE
    <3>1. Shown(code, e) \notin Keywords
      BY <2>1
    <3>2. Shown(code, e) = Brace /\ ~EndsInBar(code, 1, e)
      BY <2>1, <3>1 DEF BareBrace
    <3> QED
      BY <1>2, <2>1, <3>2, BarFromAbove
  <2>2. ASSUME Opens(code, o, e - 1) = Closes(code, o, e - 1) PROVE d = 0
    <3>1. Closes(code, o, e - 1) \in Nat
      BY <1>4, CountFacts DEF Closes
    <3> QED
      BY <2>2, <3>1
  <2>3. CASE Part(code, a, e - 1)
    <3>1. CASE ~Begins(code, e)
      <4>1. \A k \in (a + 1)..e : k = e \/ k \in (a + 1)..(e - 1)
        BY <1>2, <1>4
      <4>2. Part(code, a, e)
        BY <1>2, <2>3, <3>1, <4>1 DEF Part
      <4> QED
        BY <4>2
    <3>2. CASE Begins(code, e)
      <4>1. Followed(code, e - 1)
        BY <1>1, <1>4, <3>2 DEF Followed
      <4>2. /\ Opens(code, o, e - 1) = Closes(code, o, e - 1)
            /\ \/ Shown(code, e) \in Keywords
               \/ BareBrace(code, e)
               \/ code[e].of = "signature" /\ Shown(code, e) = Semicolon
        BY <1>2, <1>4, <1>5, <2>3, <4>1, ClauseMatches
      <4>3. code[e].of = "signature" /\ Shown(code, e) = Semicolon
        BY <2>1, <2>2, <4>2
      <4>4. Part(code, e, e) /\ e \in o..e
        BY <1>2, <3>2 DEF Part
      <4> QED
        BY <2>3, <4>3, <4>4
    <3> QED
      BY <3>1, <3>2
  <2>4. ASSUME NEW s \in o..(e - 1), Part(code, a, s - 1), Part(code, s, e - 1),
               code[s].of = "signature", Shown(code, s) = Semicolon
        PROVE  Part(code, s, e)
    <3>1. CASE ~Begins(code, e)
      <4>1. \A k \in (s + 1)..e : k = e \/ k \in (s + 1)..(e - 1)
        BY <1>2, <1>4
      <4> QED
        BY <1>2, <2>4, <3>1, <4>1 DEF Part
    <3>2. CASE Begins(code, e)
      <4>1. s \in Nat \ {0} /\ s - 1 \in Nat /\ (s - 1) + 1 = s /\ s \in DOMAIN code /\ s <= e - 1 /\ o <= s
        BY <1>1, <1>2, <1>4
      <4>2. Begins(code, s)
        BY <2>4 DEF Part
      <4>3. Followed(code, s - 1) /\ Followed(code, e - 1)
        BY <1>1, <1>4, <3>2, <4>1, <4>2 DEF Followed
      <4>4. Opens(code, o, s - 1) = Closes(code, o, s - 1)
        BY <1>2, <1>5, <2>4, <4>1, <4>3, ClauseMatches
      <4>5. ASSUME NEW k \in s..(e - 1)
            PROVE  /\ Opens(code, o, k) = Opens(code, o, s - 1) + Opens(code, s, k)
                   /\ Closes(code, o, k) = Closes(code, o, s - 1) + Closes(code, s, k)
                   /\ Opens(code, s, k) \in Nat /\ Closes(code, s, k) \in Nat
                   /\ Opens(code, o, s - 1) \in Nat
        <5>1. k \in Nat /\ s <= k + 1
          BY <4>1
        <5>2. ASSUME NEW kinds
              PROVE  /\ Count(code, kinds, o, k) = Count(code, kinds, o, s - 1) + Count(code, kinds, s, k)
                     /\ Count(code, kinds, s, k) \in Nat /\ Count(code, kinds, o, s - 1) \in Nat
          <6>1. Count(code, kinds, o, k) = Count(code, kinds, o, s - 1) + Count(code, kinds, s, k)
            BY <1>2, <4>1, <5>1, CountSplit
          <6>2. Count(code, kinds, s, k) \in Nat /\ Count(code, kinds, o, s - 1) \in Nat
            BY <1>2, <4>1, <5>1, CountFacts
          <6> QED
            BY <6>1, <6>2
        <5> QED
          BY <5>2 DEF Opens, Closes
      <4>6. NoneClosed(code, s, e - 1)
        <5> SUFFICES ASSUME NEW k \in s..(e - 1) PROVE Opens(code, s, k) >= Closes(code, s, k)
          BY DEF NoneClosed
        <5>1. k \in o..(e - 1)
          BY <1>2, <4>1
        <5>2. Opens(code, o, k) >= Closes(code, o, k)
          BY <1>2, <5>1 DEF NoneClosed
        <5> QED
          BY <4>4, <4>5, <5>2
      <4>7. e - 1 \in s..Len(code)
        BY <1>4, <4>1
      <4>8. /\ Opens(code, s, e - 1) = Closes(code, s, e - 1)
            /\ Shown(code, (e - 1) + 1) \in Keywords \/ BareBrace(code, (e - 1) + 1)
        BY <1>5, <2>4, <4>1, <4>2, <4>3, <4>6, <4>7 DEF Grammatical
      <4>9. Opens(code, o, e - 1) = Closes(code, o, e - 1)
        <5>1. e - 1 \in s..(e - 1)
          BY <1>4, <4>1
        <5> QED
          BY <4>4, <4>5, <4>8, <5>1
      <4> QED
        BY <1>4, <2>1, <2>2, <4>8, <4>9
    <3> QED
      BY <3>1, <3>2
  <2>5. CASE \E s \in o..(e - 1) : /\ Part(code, a, s - 1) /\ Part(code, s, e - 1)
                                   /\ code[s].of = "signature" /\ Shown(code, s) = Semicolon
    <3>1. PICK s \in o..(e - 1) : /\ Part(code, a, s - 1) /\ Part(code, s, e - 1)
                                  /\ code[s].of = "signature" /\ Shown(code, s) = Semicolon
      BY <2>5
    <3>2. Part(code, s, e) /\ s \in o..e
      BY <2>4, <3>1
    <3> QED
      BY <3>1, <3>2
  <2> QED
    BY <1>5, <2>3, <2>5 DEF Walked
<1>6. (e + 1) - 1 = e /\ o <= e + 1 /\ e + 1 <= Len(code) + 1
  BY <1>1, <1>2
<1> QED
  BY <1>2, <1>3, <1>5, <1>6 DEF Walked

\* The tokens of a part belong to the same, and only the first is a keyword.
LEMMA PartUniform ==
    ASSUME NEW code, NEW x \in Nat \ {0}, NEW y \in Nat, Part(code, x, y), NEW j \in x..y
    PROVE  code[j].of = code[x].of /\ (j # x => Shown(code, j) \notin Keywords)
<1> DEFINE T == {n \in x..y : code[n].of # code[x].of}
<1>1. ASSUME T # {} PROVE FALSE
  <2>1. T \in SUBSET Nat
    OBVIOUS
  <2>2. PICK n \in T : \A m \in T : n <= m
    <3> HIDE DEF T
    <3> QED
      BY <1>1, <2>1, LeastNumber
  <2>3. n \in (x + 1)..y /\ n - 1 \in x..y /\ ~(n <= n - 1)
    BY <2>2
  <2>4. code[n - 1].of = code[x].of /\ code[n].of # code[x].of
    BY <2>2, <2>3
  <2>5. ~Begins(code, n)
    BY <2>3 DEF Part
  <2> QED
    BY <2>4, <2>5 DEF Begins
<1>2. code[j].of = code[x].of
  BY <1>1
<1>3. ASSUME j # x PROVE Shown(code, j) \notin Keywords
  <2>1. j \in (x + 1)..y
    BY <1>3
  <2> QED
    BY <2>1 DEF Part, Begins
<1> QED
  BY <1>2, <1>3

\* No keyword is passed, and a clause has no token of another part but of the
\* signature after it.
LEMMA WalkedParts ==
    ASSUME NEW code \in Seq(Token), NEW o \in Nat, NEW e \in Nat, Walked(code, o, e), Grammatical(code),
           NEW k \in o..(e - 1)
    PROVE  /\ Shown(code, k) \notin Keywords
           /\ \/ code[k].of = Shown(code, o - 1)
              \/ code[k].of = "signature" /\ \E m \in o..k : Shown(code, m) = Semicolon
<1> DEFINE a == o - 1
<1>1. DOMAIN code = 1..Len(code) /\ Len(code) \in Nat
  BY LenProperties
<1>2. a \in DOMAIN code /\ a \in Nat \ {0} /\ Shown(code, a) \in Keywords /\ o <= e /\ e <= Len(code) + 1 /\ o = a + 1
  BY <1>1 DEF Walked
<1>3. ASSUME NEW x \in Nat \ {0}, NEW y \in Nat, Part(code, x, y), y <= Len(code), NEW j \in x..y
      PROVE  code[j].of = code[x].of /\ (j # x => Shown(code, j) \notin Keywords)
  BY <1>3, PartUniform
<1>4. ASSUME NEW y \in Nat, Part(code, a, y), y <= Len(code) PROVE code[a].of = Shown(code, a)
  <2>1. Begins(code, a) /\ y \in a..Len(code)
    BY <1>1, <1>2, <1>4 DEF Part
  <2> QED
    BY <1>2, <1>4, <2>1 DEF Grammatical
<1>5. CASE Part(code, a, e - 1)
  <2>1. e - 1 \in Nat /\ e - 1 <= Len(code) /\ k \in a..(e - 1) /\ k # a
    BY <1>1, <1>2
  <2> QED
    BY <1>2, <1>3, <1>4, <1>5, <2>1
<1>6. ASSUME NEW s \in o..(e - 1), Part(code, a, s - 1), Part(code, s, e - 1),
             code[s].of = "signature", Shown(code, s) = Semicolon
      PROVE  /\ Shown(code, k) \notin Keywords
             /\ \/ code[k].of = Shown(code, o - 1)
                \/ code[k].of = "signature" /\ \E m \in o..k : Shown(code, m) = Semicolon
  <2>1. s - 1 \in Nat /\ s \in Nat \ {0} /\ e - 1 \in Nat /\ s - 1 <= Len(code) /\ e - 1 <= Len(code)
    BY <1>1, <1>2
  <2>2. CASE k < s
    <3>1. k \in a..(s - 1) /\ k # a
      BY <1>2, <2>1, <2>2
    <3> QED
      BY <1>2, <1>3, <1>4, <1>6, <2>1, <3>1
  <2>3. CASE k >= s
    <3>1. k \in s..(e - 1) /\ s \in o..k
      BY <1>2, <2>1, <2>3
    <3>2. code[k].of = "signature" /\ (k # s => Shown(code, k) \notin Keywords)
      BY <1>3, <1>6, <2>1, <3>1
    <3>3. Shown(code, k) \notin Keywords
      BY <1>6, <3>2, TokenKinds
    <3> QED
      BY <1>6, <3>1, <3>2, <3>3
  <2> QED
    BY <1>2, <2>1, <2>2, <2>3
<1> QED
  BY <1>5, <1>6 DEF Walked

-----------------------------------------------------------------------------
(* The walk and the clauses, action by action. *)

LEMMA CodeIsTokens == ASSUME CleaningInv PROVE query.code \in Seq(Token)
<1>1. query \in [error: Seq(ErrorLine), code: Seq(Token)]
  BY AnalysisAssumption DEF CleaningInv
<1> QED
  BY <1>1

\* What both invariants say of the clauses while no walk is under way is kept
\* by a step that leaves them alone.
LEMMA NoWalkKept ==
    ASSUME WalkInv, ClausesInv, phase # "walk", phase' \in {"terms", "search", "analysed"},
           query' = query, cursor' = cursor, opened' = opened, depth' \in Nat, clauses' = clauses,
           phase' = "analysed" => \A k \in cursor..Len(query.code) : Masked(k) \notin Keywords
    PROVE  WalkInv' /\ ClausesInv'
<1>1. phase' # "walk"
  OBVIOUS
<1>2. WalkInv'
  BY <1>1 DEF WalkInv, Masked
<1>3. ClausesInv'
  <2>1. (clauses \in Seq([keyword: Keywords, first: Nat, last: Nat]))'
    BY DEF ClausesInv
  <2>2. (\A n \in DOMAIN clauses :
         /\ clauses[n].keyword = Masked(clauses[n].first - 1)
         /\ Walked(query.code, clauses[n].first, clauses[n].last + 1)
         /\ Ended(query.code, clauses[n].first, clauses[n].last + 1)
         /\ clauses[n].last < cursor
         /\ phase = "walk" => clauses[n].last + 1 < opened)'
    BY <1>1 DEF ClausesInv, Masked
  <2>3. (\A m, n \in DOMAIN clauses : m < n => clauses[m].last + 1 < clauses[n].first)'
    BY DEF ClausesInv
  <2>4. (Grammatical(query.code) => \A k \in 1..(cursor - 1) : Masked(k) \in Keywords =>
         \/ phase = "walk" /\ k = opened - 1
         \/ \E n \in DOMAIN clauses : clauses[n].first = k + 1)'
    BY <1>1 DEF ClausesInv, Masked
  <2> QED
    BY <2>1, <2>2, <2>3, <2>4 DEF ClausesInv
<1> QED
  BY <1>2, <1>3

LEMMA SearchKeywordKeeps == ASSUME AnalysisInv, SearchKeyword PROVE WalkInv' /\ ClausesInv'
<1> DEFINE next == {k \in cursor..Len(query.code) : Masked(k) \in Keywords}
<1>1. /\ WalkInv /\ ClausesInv /\ CleaningInv
      /\ phase = "search" /\ query' = query /\ clauses' = clauses /\ depth' = 0
      /\ \/ next = {} /\ phase' = "analysed" /\ UNCHANGED <<cursor, opened>>
         \/ /\ next # {} /\ opened' = (CHOOSE k \in next : \A m \in next : k <= m) + 1
            /\ cursor' = opened' /\ phase' = "walk"
  BY DEF AnalysisInv, SearchKeyword
<1>2. CASE next = {} /\ phase' = "analysed" /\ UNCHANGED <<cursor, opened>>
  <2>1. \A k \in cursor..Len(query.code) : Masked(k) \notin Keywords
    BY <1>2
  <2> QED
    BY <1>1, <1>2, <2>1, NoWalkKept
<1>3. CASE /\ next # {} /\ opened' = (CHOOSE k \in next : \A m \in next : k <= m) + 1
           /\ cursor' = opened' /\ phase' = "walk"
  <2>1. PICK code \in Seq(Token) : code = query.code
    BY <1>1, CodeIsTokens
  <2>2. Len(code) \in Nat /\ DOMAIN code = 1..Len(code)
    BY <2>1, LenProperties
  <2>3. cursor \in Nat \ {0}
    BY <1>1, <2>1, <2>2 DEF WalkInv
  <2>4. next \in SUBSET Nat
    BY <2>1, <2>2, <2>3
  <2>5. PICK k \in next : opened' = k + 1 /\ \A m \in next : k <= m
    <3> HIDE DEF next
    <3>1. \E k \in next : \A m \in next : k <= m
      BY <1>3, <2>4, LeastNumber
    <3> QED
      BY <1>3, <3>1
  <2>6. k \in Nat \ {0} /\ cursor <= k /\ k <= Len(code) /\ Shown(code, k) \in Keywords /\ k \in DOMAIN code
    BY <2>1, <2>2, <2>3 DEF Masked
  <2>7. (k + 1) - 1 = k /\ k + 1 \in Nat /\ k < k + 1 /\ k + 1 \in 1..(Len(code) + 1)
    BY <2>2, <2>6
  <2>8. Walked(code, k + 1, k + 1)
    <3>1. NoneClosed(code, k + 1, k)
      BY <2>6 DEF NoneClosed
    <3>2. Part(code, k, k)
      BY <2>6 DEF Part, Begins
    <3> QED
      BY <2>2, <2>6, <2>7, <3>1, <3>2 DEF Walked
  <2>9. Opens(code, k + 1, k) = 0 /\ Closes(code, k + 1, k) = 0
    BY <2>6, <2>7, CountFacts DEF Opens, Closes
  <2>10. WalkInv'
    <3>1. (cursor \in 1..(Len(query.code) + 1) /\ opened \in Nat /\ depth \in Nat)'
      BY <1>1, <1>3, <2>1, <2>5, <2>7
    <3>2. (/\ Walked(query.code, opened, cursor)
           /\ Opens(query.code, opened, cursor - 1) = Closes(query.code, opened, cursor - 1) + depth)'
      <4>1. query'.code = code /\ opened' = k + 1 /\ cursor' = k + 1 /\ cursor' - 1 = k /\ depth' = 0
        BY <1>1, <1>3, <2>1, <2>5, <2>7
      <4>2. Walked(query'.code, opened', cursor')
        BY <2>8, <4>1
      <4>3. Opens(query'.code, opened', cursor' - 1) = 0 /\ Closes(query'.code, opened', cursor' - 1) = 0
        BY <2>9, <4>1
      <4> QED
        BY <4>1, <4>2, <4>3
    <3> QED
      BY <1>3, <3>1, <3>2 DEF WalkInv
  <2>11. \A n \in DOMAIN clauses : clauses[n] \in [keyword: Keywords, first: Nat, last: Nat]
    BY <1>1, ElementOfSeq, LenProperties DEF ClausesInv
  <2>12. ClausesInv'
    <3>1. (clauses \in Seq([keyword: Keywords, first: Nat, last: Nat]))'
      BY <1>1 DEF ClausesInv
    <3>2. ASSUME NEW n \in DOMAIN clauses
          PROVE  /\ clauses[n].keyword = Shown(code, clauses[n].first - 1)
                 /\ Walked(code, clauses[n].first, clauses[n].last + 1)
                 /\ Ended(code, clauses[n].first, clauses[n].last + 1)
                 /\ clauses[n].last < k + 1
                 /\ clauses[n].last + 1 < k + 1
      <4>1. /\ clauses[n].keyword = Shown(code, clauses[n].first - 1)
            /\ Walked(code, clauses[n].first, clauses[n].last + 1)
            /\ Ended(code, clauses[n].first, clauses[n].last + 1)
            /\ clauses[n].last < cursor
        BY <1>1, <2>1 DEF ClausesInv, Masked
      <4>2. clauses[n].last \in Nat
        BY <2>11
      <4>3. clauses[n].last < k + 1 /\ clauses[n].last + 1 < k + 1
        BY <2>3, <2>6, <4>1, <4>2
      <4> QED
        BY <4>1, <4>3
    <3>3. (\A n \in DOMAIN clauses :
         /\ clauses[n].keyword = Masked(clauses[n].first - 1)
         /\ Walked(query.code, clauses[n].first, clauses[n].last + 1)
         /\ Ended(query.code, clauses[n].first, clauses[n].last + 1)
         /\ clauses[n].last < cursor
         /\ phase = "walk" => clauses[n].last + 1 < opened)'
      BY <1>1, <1>3, <2>1, <2>5, <3>2 DEF Masked
    <3>4. (\A m, n \in DOMAIN clauses : m < n => clauses[m].last + 1 < clauses[n].first)'
      BY <1>1 DEF ClausesInv
    <3>5. ASSUME Grammatical(code), NEW j \in 1..k, Shown(code, j) \in Keywords, j # k
          PROVE  \E n \in DOMAIN clauses : clauses[n].first = j + 1
      <4>1. j \in 1..(cursor - 1)
        <5>1. j \notin next
          BY <2>5, <2>6, <3>5
        <5>2. j \notin cursor..Len(code)
          BY <2>1, <3>5, <5>1 DEF Masked
        <5> QED
          BY <2>2, <2>3, <2>6, <3>5, <5>2
      <4> QED
        BY <1>1, <2>1, <3>5, <4>1 DEF ClausesInv, Masked
    <3>6. (Grammatical(query.code) => \A j \in 1..(cursor - 1) : Masked(j) \in Keywords =>
         \/ phase = "walk" /\ j = opened - 1
         \/ \E n \in DOMAIN clauses : clauses[n].first = j + 1)'
      BY <1>1, <1>3, <2>1, <2>5, <2>7, <3>5 DEF Masked
    <3> QED
      BY <3>1, <3>3, <3>4, <3>6 DEF ClausesInv
  <2> QED
    BY <2>10, <2>12
<1> QED
  BY <1>1, <1>2, <1>3

LEMMA WalkTokenKeeps == ASSUME AnalysisInv, WalkToken PROVE WalkInv' /\ ClausesInv'
<1>1. /\ WalkInv /\ ClausesInv /\ CleaningInv
      /\ phase = "walk" /\ ~AtEnd /\ cursor' = cursor + 1
      /\ query' = query /\ phase' = phase /\ opened' = opened /\ clauses' = clauses
  BY DEF AnalysisInv, WalkToken
<1>2. PICK code \in Seq(Token) : code = query.code
  BY <1>1, CodeIsTokens
<1>3. Len(code) \in Nat /\ DOMAIN code = 1..Len(code)
  BY <1>2, LenProperties
<1>4. cursor \in 1..(Len(code) + 1) /\ opened \in Nat /\ depth \in Nat
  BY <1>1, <1>2 DEF WalkInv
<1>5. PICK e \in Nat, o \in Nat, d \in Nat : e = cursor /\ o = opened /\ d = depth
  BY <1>3, <1>4
<1>6. /\ e <= Len(code)
      /\ d = 0 => /\ Shown(code, e) \notin Keywords \cup Closers
                  /\ Shown(code, e) = Brace => EndsInBar(code, o, e)
  BY <1>1, <1>2, <1>5 DEF AtEnd, AfterBar, Masked
<1>7. Walked(code, o, e) /\ Opens(code, o, e - 1) = Closes(code, o, e - 1) + d
  BY <1>1, <1>2, <1>5 DEF WalkInv
<1>8. Walked(code, o, e + 1)
  BY <1>6, <1>7, WalkOn
<1>9. o \in Nat \ {0} /\ o <= e /\ NoneClosed(code, o, e - 1)
  BY <1>3, <1>7 DEF Walked
<1>10. depth' \in Nat /\ Opens(code, o, e) = Closes(code, o, e) + depth'
  <2> DEFINE c == CASE Shown(code, e) \in Openers -> d + 1
                    [] Shown(code, e) \in Closers -> d - 1
                    [] OTHER -> d
  <2>1. depth' = c
    BY <1>2, <1>5 DEF WalkToken, Masked
  <2>2. Shown(code, e) \in Closers => d # 0
    BY <1>6
  <2>3. c \in Nat /\ Opens(code, o, e) = Closes(code, o, e) + c
    BY <1>7, <1>9, <2>2, BracketStep
  <2> HIDE DEF c
  <2> QED
    BY <2>1, <2>3
<1>11. WalkInv'
  <2>1. (cursor \in 1..(Len(query.code) + 1) /\ opened \in Nat /\ depth \in Nat)'
    BY <1>1, <1>2, <1>3, <1>4, <1>5, <1>6, <1>10
  <2>2. query'.code = code /\ opened' = o /\ cursor' = e + 1 /\ cursor' - 1 = e
    BY <1>1, <1>2, <1>5
  <2>3. Walked(query'.code, opened', cursor')
    BY <1>8, <2>2
  <2>4. Opens(query'.code, opened', cursor' - 1) = Closes(query'.code, opened', cursor' - 1) + depth'
    BY <1>10, <2>2
  <2> QED
    BY <1>1, <2>1, <2>3, <2>4 DEF WalkInv
<1>12. ClausesInv'
  <2>1. (clauses \in Seq([keyword: Keywords, first: Nat, last: Nat]))'
    BY <1>1 DEF ClausesInv
  <2>2. ASSUME NEW n \in DOMAIN clauses
        PROVE  /\ clauses[n].keyword = Shown(code, clauses[n].first - 1)
               /\ Walked(code, clauses[n].first, clauses[n].last + 1)
               /\ Ended(code, clauses[n].first, clauses[n].last + 1)
               /\ clauses[n].last < e + 1
               /\ clauses[n].last + 1 < o
    <3>1. /\ clauses[n].keyword = Shown(code, clauses[n].first - 1)
          /\ Walked(code, clauses[n].first, clauses[n].last + 1)
          /\ Ended(code, clauses[n].first, clauses[n].last + 1)
          /\ clauses[n].last < e
          /\ clauses[n].last + 1 < o
      BY <1>1, <1>2, <1>5 DEF ClausesInv, Masked
    <3>2. clauses[n] \in [keyword: Keywords, first: Nat, last: Nat]
      BY <1>1, ElementOfSeq, LenProperties DEF ClausesInv
    <3>3. clauses[n].last \in Nat
      BY <3>2
    <3>4. clauses[n].last < e + 1
      BY <3>1, <3>3
    <3> QED
      BY <3>1, <3>4
  <2>3. (\A n \in DOMAIN clauses :
         /\ clauses[n].keyword = Masked(clauses[n].first - 1)
         /\ Walked(query.code, clauses[n].first, clauses[n].last + 1)
         /\ Ended(query.code, clauses[n].first, clauses[n].last + 1)
         /\ clauses[n].last < cursor
         /\ phase = "walk" => clauses[n].last + 1 < opened)'
    BY <1>1, <1>2, <1>5, <2>2 DEF Masked
  <2>4. (\A m, n \in DOMAIN clauses : m < n => clauses[m].last + 1 < clauses[n].first)'
    BY <1>1 DEF ClausesInv
  <2>5. ASSUME Grammatical(code), NEW j \in 1..e, Shown(code, j) \in Keywords
        PROVE  \/ j = o - 1
               \/ \E n \in DOMAIN clauses : clauses[n].first = j + 1
    <3>1. j # e
      <4>1. e \in o..((e + 1) - 1) /\ e + 1 \in Nat
        BY <1>9
      <4>2. Shown(code, e) \notin Keywords
        BY <1>8, <2>5, <4>1, WalkedParts
      <4> QED
        BY <2>5, <4>2
    <3>2. j \in 1..(e - 1)
      BY <3>1
    <3> QED
      BY <1>1, <1>2, <1>5, <2>5, <3>2 DEF ClausesInv, Masked
  <2>6. (Grammatical(query.code) => \A j \in 1..(cursor - 1) : Masked(j) \in Keywords =>
         \/ phase = "walk" /\ j = opened - 1
         \/ \E n \in DOMAIN clauses : clauses[n].first = j + 1)'
    <3>1. query'.code = code /\ opened' = o /\ cursor' - 1 = e /\ clauses' = clauses /\ phase' = "walk"
      BY <1>1, <1>2, <1>5
    <3> QED
      BY <2>5, <3>1 DEF Masked
  <2> QED
    BY <2>1, <2>3, <2>4, <2>6 DEF ClausesInv
<1> QED
  BY <1>11, <1>12

LEMMA EndClauseKeeps == ASSUME AnalysisInv, EndClause PROVE WalkInv' /\ ClausesInv'
<1>1. /\ WalkInv /\ ClausesInv /\ CleaningInv
      /\ phase = "walk" /\ AtEnd /\ phase' = "search"
      /\ query' = query /\ opened' = opened /\ cursor' = cursor /\ depth' = depth
  BY DEF AnalysisInv, EndClause
<1>2. PICK code \in Seq(Token) : code = query.code
  BY <1>1, CodeIsTokens
<1>3. Len(code) \in Nat /\ DOMAIN code = 1..Len(code)
  BY <1>2, LenProperties
<1>4. cursor \in 1..(Len(code) + 1) /\ opened \in Nat /\ depth \in Nat
  BY <1>1, <1>2 DEF WalkInv
<1>5. PICK e \in Nat, o \in Nat : e = cursor /\ o = opened
  BY <1>3, <1>4
<1>6. WalkInv'
  BY <1>1 DEF WalkInv
<1>7. Walked(code, o, e) /\ Opens(code, o, e - 1) = Closes(code, o, e - 1) + depth
  BY <1>1, <1>2, <1>5 DEF WalkInv
<1>8. o - 1 \in DOMAIN code /\ o - 1 \in Nat /\ Shown(code, o - 1) \in Keywords /\ o <= e /\ e - 1 \in Nat /\ (e - 1) + 1 = e
      /\ (o - 1) + 1 = o
  BY <1>3, <1>7 DEF Walked
<1>9. Ended(code, o, e)
  <2> SUFFICES ASSUME e <= Len(code)
               PROVE  /\ Opens(code, o, e - 1) = Closes(code, o, e - 1)
                      /\ Shown(code, e) \in Keywords \cup Closers \/ (Shown(code, e) = Brace /\ ~EndsInBar(code, o, e))
    BY DEF Ended
  <2>1. /\ depth = 0
        /\ Shown(code, e) \in Keywords \cup Closers \/ (Shown(code, e) = Brace /\ ~EndsInBar(code, o, e))
    BY <1>1, <1>2, <1>5 DEF AtEnd, AfterBar, Masked
  <2>2. Closes(code, o, e - 1) \in Nat
    BY <1>8, CountFacts DEF Closes
  <2> QED
    BY <1>7, <2>1, <2>2
<1>10. code[o - 1].text = Shown(code, o - 1)
  BY <1>8, TokenKinds DEF Shown
<1> DEFINE Clause == [keyword: Keywords, first: Nat, last: Nat]
<1>11. PICK c \in Clause : c = [keyword |-> query.code[opened - 1].text, first |-> opened, last |-> cursor - 1]
  <2>1. query.code[opened - 1].text \in Keywords /\ opened \in Nat /\ cursor - 1 \in Nat
    BY <1>2, <1>4, <1>5, <1>8, <1>10
  <2> QED
    BY <2>1
<1>12. c.keyword = Shown(code, o - 1) /\ c.first = o /\ c.last = e - 1
  BY <1>2, <1>5, <1>10, <1>11
<1>13. PICK v \in Seq(Clause) : v = clauses
  BY <1>1 DEF ClausesInv
<1>14. clauses' = Append(v, c)
  BY <1>11, <1>13 DEF EndClause
<1>15. PICK n \in Nat : n = Len(v) /\ DOMAIN v = 1..n
  BY LenProperties
<1>16. PICK w \in Seq(Clause) : w = clauses' /\ DOMAIN w = 1..(n + 1) /\ w[n + 1] = c /\ \A i \in 1..n : w[i] = v[i]
  <2> HIDE DEF Clause
  <2>1. Append(v, c) \in Seq(Clause) /\ Len(Append(v, c)) = n + 1
    BY <1>15, AppendProperties
  <2>2. DOMAIN Append(v, c) = 1..(n + 1)
    BY <2>1, LenProperties
  <2>3. Append(v, c)[n + 1] = c /\ \A i \in 1..n : Append(v, c)[i] = v[i]
    BY <1>15, AppendProperties
  <2> QED
    BY <1>14, <2>1, <2>2, <2>3
<1>17. ASSUME NEW i \in 1..n
       PROVE  /\ v[i].keyword = Shown(code, v[i].first - 1)
              /\ Walked(code, v[i].first, v[i].last + 1)
              /\ Ended(code, v[i].first, v[i].last + 1)
              /\ v[i].last < e
              /\ v[i].last + 1 < o
  BY <1>1, <1>2, <1>5, <1>13, <1>15 DEF ClausesInv, Masked
<1>18. ASSUME NEW i \in 1..n, NEW j \in 1..n, i < j PROVE v[i].last + 1 < v[j].first
  BY <1>1, <1>13, <1>15, <1>18 DEF ClausesInv
<1>19. ASSUME NEW i \in 1..(n + 1)
       PROVE  /\ w[i].keyword = Shown(code, w[i].first - 1)
              /\ Walked(code, w[i].first, w[i].last + 1)
              /\ Ended(code, w[i].first, w[i].last + 1)
              /\ w[i].last < e
  <2>1. CASE i = n + 1
    <3>1. w[i] = c /\ c.last < e /\ c.last + 1 = e
      BY <1>8, <1>12, <1>16, <2>1
    <3> QED
      BY <1>7, <1>9, <1>12, <3>1
  <2>2. CASE i # n + 1
    <3>1. i \in 1..n
      BY <2>2
    <3> QED
      BY <1>16, <1>17, <3>1
  <2> QED
    BY <2>1, <2>2
<1>20. ASSUME NEW i \in 1..(n + 1), NEW j \in 1..(n + 1), i < j PROVE w[i].last + 1 < w[j].first
  <2>1. i \in 1..n /\ w[i] = v[i]
    BY <1>16, <1>20
  <2>2. CASE j = n + 1
    BY <1>12, <1>16, <1>17, <2>1, <2>2
  <2>3. CASE j # n + 1
    <3>1. j \in 1..n /\ w[j] = v[j]
      BY <1>16, <2>3
    <3> QED
      BY <1>18, <1>20, <2>1, <3>1
  <2> QED
    BY <2>2, <2>3
<1>21. ASSUME Grammatical(code), NEW k \in 1..(e - 1), Shown(code, k) \in Keywords
       PROVE  \E i \in 1..(n + 1) : w[i].first = k + 1
  <2>1. k = o - 1 \/ \E i \in 1..n : v[i].first = k + 1
    BY <1>1, <1>2, <1>5, <1>13, <1>15, <1>21 DEF ClausesInv, Masked
  <2>2. CASE k = o - 1
    <3>1. w[n + 1].first = k + 1 /\ n + 1 \in 1..(n + 1)
      BY <1>8, <1>12, <1>16, <2>2
    <3> QED
      BY <3>1
  <2>3. CASE \E i \in 1..n : v[i].first = k + 1
    <3>1. PICK i \in 1..n : v[i].first = k + 1
      BY <2>3
    <3>2. i \in 1..(n + 1) /\ w[i].first = k + 1
      BY <1>16, <3>1
    <3> QED
      BY <3>2
  <2> QED
    BY <2>1, <2>2, <2>3
<1>22. ClausesInv'
  <2>1. (clauses \in Seq([keyword: Keywords, first: Nat, last: Nat]))'
    BY <1>16
  <2>2. query'.code = code /\ cursor' = e /\ clauses' = w /\ phase' # "walk" /\ DOMAIN w = 1..(n + 1)
    BY <1>1, <1>2, <1>5, <1>16
  <2> HIDE DEF Clause
  <2>3. (\A i \in DOMAIN clauses :
         /\ clauses[i].keyword = Masked(clauses[i].first - 1)
         /\ Walked(query.code, clauses[i].first, clauses[i].last + 1)
         /\ Ended(query.code, clauses[i].first, clauses[i].last + 1)
         /\ clauses[i].last < cursor
         /\ phase = "walk" => clauses[i].last + 1 < opened)'
    BY <1>19, <2>2 DEF Masked
  <2>4. (\A i, j \in DOMAIN clauses : i < j => clauses[i].last + 1 < clauses[j].first)'
    BY <1>20, <2>2
  <2>5. (Grammatical(query.code) => \A k \in 1..(cursor - 1) : Masked(k) \in Keywords =>
         \/ phase = "walk" /\ k = opened - 1
         \/ \E i \in DOMAIN clauses : clauses[i].first = k + 1)'
    BY <1>21, <2>2 DEF Masked
  <2> QED
    BY <2>1, <2>3, <2>4, <2>5 DEF ClausesInv
<1> QED
  BY <1>6, <1>22

\* The inductive invariant: both cleanings, the walk, and the clauses so far.
THEOREM AnalysisInvariant == AnalysisSpec => []AnalysisInv
<1>1. AnalysisInit => WalkInv /\ ClausesInv
  <2> SUFFICES ASSUME AnalysisInit PROVE WalkInv /\ ClausesInv
    OBVIOUS
  <2>1. PICK q \in Queries : AnalysisInitOf(q)
    BY DEF AnalysisInit
  <2>2. phase = "clean" /\ cursor = 1 /\ opened = 1 /\ depth = 0 /\ clauses = <<>> /\ query = q
    BY <2>1 DEF AnalysisInitOf
  <2>3. q.code \in Seq(Token)
    BY AnalysisAssumption
  <2>4. Len(query.code) \in Nat
    BY <2>2, <2>3, LenProperties
  <2>5. WalkInv
    BY <2>2, <2>4 DEF WalkInv
  <2>6. ClausesInv
    BY <2>2 DEF ClausesInv
  <2> QED
    BY <2>5, <2>6
<1>2. AnalysisInv /\ CleaningInv' /\ [AnalysisNext]_analysisVars => (WalkInv /\ ClausesInv)'
  <2> SUFFICES ASSUME AnalysisInv, [AnalysisNext]_analysisVars PROVE WalkInv' /\ ClausesInv'
    OBVIOUS
  <2>1. WalkInv /\ ClausesInv /\ CleaningInv
    BY DEF AnalysisInv
  <2>2. depth \in Nat /\ cursor \in 1..(Len(query.code) + 1)
    BY <2>1 DEF WalkInv
  <2>3. CASE CleanError
    BY <2>1, <2>2, <2>3, NoWalkKept DEF CleanError
  <2>4. CASE BuildTerms
    <3>1. /\ phase = "terms" /\ phase' = IF query.code = <<>> THEN "analysed" ELSE "search"
          /\ query' = query /\ cursor' = cursor /\ opened' = opened /\ depth' = depth /\ clauses' = clauses
      BY <2>4 DEF BuildTerms
    <3>2. phase' \in {"search", "analysed"} /\ phase # "walk"
      BY <3>1
    <3>3. ASSUME phase' = "analysed", NEW k \in cursor..Len(query.code) PROVE Masked(k) \notin Keywords
      <4>1. query.code = <<>>
        BY <3>1, <3>3
      <4>2. Len(query.code) = 0
        BY <4>1
      <4>3. FALSE
        BY <2>2, <3>3, <4>2
      <4> QED
        BY <4>3
    <3> QED
      BY <2>1, <2>2, <3>1, <3>2, <3>3, NoWalkKept
  <2>5. CASE UNCHANGED analysisVars
    <3>1. WalkInv'
      BY <2>1, <2>5 DEF analysisVars, WalkInv, Masked
    <3>2. ClausesInv'
      BY <2>1, <2>5 DEF analysisVars, ClausesInv, Masked
    <3> QED
      BY <3>1, <3>2
  <2> QED
    BY <2>3, <2>4, <2>5, SearchKeywordKeeps, WalkTokenKeeps, EndClauseKeeps DEF AnalysisNext
<1>3. AnalysisInv <=> CleaningInv /\ (WalkInv /\ ClausesInv)
  BY DEF AnalysisInv
<1> QED
  BY <1>1, <1>2, <1>3, CleaningInvariant, PTL DEF AnalysisSpec

LEMMA OneCloser ==
    ASSUME NEW code, NEW o \in Nat, NEW b \in Nat, o <= b + 1, Shown(code, b + 1) \in Closers
    PROVE  /\ Closes(code, o, b) \in Nat /\ Opens(code, o, b + 1) = Opens(code, o, b)
           /\ Closes(code, o, b + 1) = Closes(code, o, b) + 1
<1>1. /\ Closes(code, o, b) \in Nat /\ Opens(code, o, b) \in Nat
      /\ Closes(code, o, b + 1) = Closes(code, o, b) + (IF Shown(code, b + 1) \in Closers THEN 1 ELSE 0)
      /\ Opens(code, o, b + 1) = Opens(code, o, b) + (IF Shown(code, b + 1) \in Openers THEN 1 ELSE 0)
  BY CountFacts DEF Opens, Closes
<1>2. Shown(code, b + 1) \notin Openers
  BY TokenKinds
<1> QED
  BY <1>1, <1>2

\* Where a clause was left before its end there is a brace without a bar.
LEMMA LeftAtBrace ==
    ASSUME NEW code \in Seq(Token), NEW a \in Nat \ {0}, NEW k \in Nat, NEW e \in Nat, k <= Len(code),
           a < e, e <= k, Part(code, a, k), NoneClosed(code, a, k), Shown(code, a) \in Keywords,
           Ended(code, a + 1, e)
    PROVE  BareBrace(code, e)
<1>1. PICK o \in Nat : o = a + 1 /\ a = o - 1 /\ o \in Nat \ {0} /\ o <= e
  OBVIOUS
<1>2. Len(code) \in Nat
  BY LenProperties
<1>3. /\ Opens(code, o, e - 1) = Closes(code, o, e - 1)
      /\ Shown(code, e) \in Keywords \cup Closers \/ (Shown(code, e) = Brace /\ ~EndsInBar(code, o, e))
  BY <1>1, <1>2 DEF Ended
<1>4. Shown(code, e) \notin Keywords
  <2>1. e \in (a + 1)..k
    OBVIOUS
  <2> QED
    BY <2>1 DEF Part, Begins
<1>5. Shown(code, e) \notin Closers
  <2> SUFFICES ASSUME Shown(code, e) \in Closers PROVE FALSE
    OBVIOUS
  <2>1. PICK b \in Nat : b = e - 1 /\ e = b + 1
    BY <1>1
  <2>2. /\ Closes(code, o, b) \in Nat /\ Opens(code, o, b + 1) = Opens(code, o, b)
        /\ Closes(code, o, b + 1) = Closes(code, o, b) + 1
    <3>1. o <= b + 1 /\ Shown(code, b + 1) \in Closers
      BY <1>1, <2>1
    <3> QED
      BY <1>1, <3>1, OneCloser
  <2>3. e \in a..k
    OBVIOUS
  <2>4. Opens(code, a, e) >= Closes(code, a, e)
    BY <2>3 DEF NoneClosed
  <2>5. o - 1 \in Nat /\ Shown(code, o - 1) \in Keywords /\ o <= e + 1
    BY <1>1
  <2>6. Opens(code, o - 1, e) = Opens(code, o, e) /\ Closes(code, o - 1, e) = Closes(code, o, e)
    BY <2>5, FromKeyword
  <2>7. Opens(code, o, e) >= Closes(code, o, e)
    BY <1>1, <2>4, <2>6
  <2>8. Opens(code, o, b) = Closes(code, o, b) /\ Opens(code, o, b + 1) >= Closes(code, o, b + 1)
    BY <1>3, <2>1, <2>7
  <2> QED
    BY <2>2, <2>8
<1>6. Shown(code, e) = Brace /\ ~EndsInBar(code, o, e)
  BY <1>3, <1>4, <1>5
<1>7. ASSUME EndsInBar(code, 1, e) PROVE FALSE
  <2>1. PICK p \in 1..(e - 1) : Shown(code, p) = Bar /\ \A n \in (p + 1)..(e - 1) : Shown(code, n) = " "
    BY <1>7 DEF EndsInBar
  <2>2. CASE p >= o
    <3>1. p \in o..(e - 1)
      BY <1>1, <2>2
    <3> QED
      BY <1>6, <2>1, <3>1 DEF EndsInBar
  <2>3. CASE p = a
    BY <2>1, <2>3, TokenKinds
  <2>4. CASE p < a
    <3>1. a \in (p + 1)..(e - 1)
      BY <2>4
    <3> QED
      BY <2>1, <3>1, TokenKinds
  <2> QED
    BY <1>1, <2>2, <2>3, <2>4
<1> QED
  BY <1>6, <1>7 DEF BareBrace

\* Every token is in a part of the code.
LEMMA PartOf ==
    ASSUME NEW code, NEW k \in Nat \ {0} PROVE \E a \in 1..k : Part(code, a, k)
<1> DEFINE T == {d \in Nat : d < k /\ Begins(code, k - d)}
<1>1. T \in SUBSET Nat
  OBVIOUS
<1>2. k - 1 \in T
  BY DEF Begins
<1>3. PICK d \in T : \A m \in T : d <= m
  <2> HIDE DEF T
  <2> QED
    BY <1>1, <1>2, LeastNumber
<1>4. PICK a \in 1..k : a = k - d
  OBVIOUS
<1>5. Begins(code, a)
  BY <1>3, <1>4
<1>6. ASSUME NEW j \in (a + 1)..k, Begins(code, j) PROVE FALSE
  <2>1. PICK m \in Nat : m = k - j /\ k - m = j /\ m < d /\ m < k
    BY <1>3, <1>4
  <2>2. m \in T
    BY <1>6, <2>1
  <2> QED
    BY <1>3, <2>1, <2>2
<1>7. Part(code, a, k)
  BY <1>5, <1>6 DEF Part
<1> QED
  BY <1>7

\* "Walk balanced clause expressions; a quantifier block is not a function
\* body" (code_analyzer.py): _extract_spec_clauses takes balanced clauses,
\* takes nothing of a body for specification, and loses of a clause only what
\* follows a brace that no bar precedes.
THEOREM SpecIsExtracted == AnalysisSpec => []SpecExtracted
<1>1. AnalysisInv => SpecExtracted
  <2> SUFFICES ASSUME AnalysisInv PROVE SpecExtracted
    OBVIOUS
  <2>1. WalkInv /\ ClausesInv /\ CleaningInv
    BY DEF AnalysisInv
  <2>2. PICK code \in Seq(Token) : code = query.code
    BY <2>1, CodeIsTokens
  <2>3. Len(code) \in Nat /\ DOMAIN code = 1..Len(code)
    BY <2>2, LenProperties
  <2> DEFINE Clause == [keyword: Keywords, first: Nat, last: Nat]
  <2>4. PICK v \in Seq(Clause) : v = clauses
    BY <2>1 DEF ClausesInv
  <2>5. ToSet(clauses) = {v[n] : n \in DOMAIN v}
    BY <2>4 DEF ToSet
  <2>6. ASSUME NEW n \in DOMAIN v
        PROVE  /\ v[n].first \in Nat /\ v[n].last \in Nat
               /\ v[n].keyword = Shown(code, v[n].first - 1)
               /\ Walked(code, v[n].first, v[n].last + 1) /\ Ended(code, v[n].first, v[n].last + 1)
               /\ (v[n].last + 1) - 1 = v[n].last /\ v[n].last + 1 \in Nat
    <3>1. v[n] \in Clause
      <4> HIDE DEF Clause
      <4> QED
        BY ElementOfSeq, LenProperties
    <3>2. v[n].first \in Nat /\ v[n].last \in Nat
      BY <3>1
    <3>3. /\ v[n].keyword = Shown(code, v[n].first - 1)
          /\ Walked(code, v[n].first, v[n].last + 1) /\ Ended(code, v[n].first, v[n].last + 1)
      BY <2>1, <2>2, <2>4 DEF ClausesInv, Masked
    <3>4. (v[n].last + 1) - 1 = v[n].last /\ v[n].last + 1 \in Nat
      <4>1. \A x \in Nat : (x + 1) - 1 = x /\ x + 1 \in Nat
        OBVIOUS
      <4> QED
        BY <3>2, <4>1
    <3> QED
      BY <3>2, <3>3, <3>4
  <2>7. DOMAIN v \subseteq Nat
    BY LenProperties
  <2> HIDE DEF Clause
  <2>8. ClausesBalanced
    <3> SUFFICES ASSUME NEW n \in DOMAIN v
                 PROVE  /\ v[n].last < Len(code) => Opens(code, v[n].first, v[n].last) = Closes(code, v[n].first, v[n].last)
                        /\ NoneClosed(code, v[n].first, v[n].last)
      BY <2>2, <2>5 DEF ClausesBalanced
    <3>1. NoneClosed(code, v[n].first, v[n].last)
      BY <2>6 DEF Walked
    <3>2. ASSUME v[n].last < Len(code) PROVE Opens(code, v[n].first, v[n].last) = Closes(code, v[n].first, v[n].last)
      <4>1. v[n].last + 1 <= Len(code)
        BY <2>3, <2>6, <3>2
      <4> QED
        BY <2>6, <4>1 DEF Ended
    <3> QED
      BY <3>1, <3>2
  <2>9. ASSUME Grammatical(code), NEW n \in DOMAIN v, NEW k \in Captured(v[n])
        PROVE  \/ query.code[k].of = v[n].keyword
               \/ /\ query.code[k].of = "signature"
                  /\ \E m \in v[n].first..k : Masked(m) = Semicolon
    <3>1. PICK o \in Nat, e \in Nat : o = v[n].first /\ e = v[n].last + 1 /\ v[n].last = e - 1
      BY <2>6
    <3>2. Walked(code, o, e) /\ v[n].keyword = Shown(code, o - 1)
      BY <2>6, <3>1
    <3>3. k \in o..(e - 1)
      BY <2>9, <3>1 DEF Captured
    <3>4. \/ code[k].of = Shown(code, o - 1)
          \/ code[k].of = "signature" /\ \E m \in o..k : Shown(code, m) = Semicolon
      BY <2>9, <3>2, <3>3, WalkedParts
    <3> QED
      BY <2>2, <3>1, <3>2, <3>4 DEF Masked
  <2>10. ASSUME Analysed, Grammatical(code), NEW k \in DOMAIN code, code[k].of \in Keywords,
                Shown(code, k) \notin Keywords \cup {" "}, k \notin ClausePositions
         PROVE  \E m \in 1..k : /\ BareBrace(code, m) /\ m \notin ClausePositions
                                /\ \A n \in m..k : code[n].of = code[k].of
    <3>1. k \in Nat \ {0} /\ k <= Len(code)
      BY <2>3
    <3>2. PICK a \in 1..k : Part(code, a, k)
      BY <3>1, PartOf
    <3>3. a \in Nat \ {0} /\ a \in DOMAIN code /\ a <= k /\ k \in a..Len(code) /\ k \in a..k
      BY <2>3, <3>1
    <3>4. \A n \in a..k : code[n].of = code[a].of
      BY <3>1, <3>2, <3>3, PartUniform
    <3>5. code[a].of \in Keywords
      BY <2>10, <3>3, <3>4
    <3>6. Shown(code, a) \in Keywords /\ NoneClosed(code, a, k)
      <4>1. Begins(code, a)
        BY <3>2 DEF Part
      <4> QED
        BY <2>10, <3>2, <3>3, <3>5, <4>1 DEF Grammatical
    <3>7. a \in 1..(cursor - 1)
      <4>1. cursor \in 1..(Len(code) + 1)
        BY <2>1, <2>2 DEF WalkInv
      <4>2. a \notin cursor..Len(code)
        BY <2>1, <2>2, <2>10, <3>6 DEF WalkInv, Analysed, Masked
      <4> QED
        BY <2>3, <3>3, <4>1, <4>2
    <3>8. PICK n \in DOMAIN v : v[n].first = a + 1
      BY <2>1, <2>2, <2>4, <2>10, <3>6, <3>7 DEF ClausesInv, Analysed, Masked
    <3>9. PICK e \in Nat : e = v[n].last + 1 /\ v[n].last = e - 1
      BY <2>6
    <3>10. a < e
      BY <2>6, <3>8, <3>9 DEF Walked
    <3>11. e <= k
      <4> SUFFICES ASSUME k < e PROVE FALSE
        BY <3>1
      <4>1. k # a
        BY <2>10, <3>6
      <4>2. k \in v[n].first..v[n].last
        BY <3>1, <3>3, <3>8, <3>9, <4>1
      <4>3. k \in Captured(v[n])
        BY <2>2, <2>10, <4>2 DEF Captured, Masked
      <4> QED
        BY <2>5, <2>10, <4>3 DEF ClausePositions
    <3>12. BareBrace(code, e)
      BY <2>6, <3>1, <3>2, <3>3, <3>6, <3>8, <3>9, <3>10, <3>11, LeftAtBrace
    <3>13. e \notin ClausePositions
      <4> SUFFICES ASSUME NEW m \in DOMAIN v, e \in Captured(v[m]) PROVE FALSE
        BY <2>5 DEF ClausePositions
      <4>1. m \in Nat /\ n \in Nat /\ v[m].first \in Nat /\ v[m].last \in Nat
        BY <2>6, <2>7
      <4>2. v[m].first <= e /\ e <= v[m].last
        <5>1. PICK f \in Nat, l \in Nat : f = v[m].first /\ l = v[m].last
          BY <4>1
        <5>2. e \in f..l
          BY <5>1 DEF Captured
        <5> QED
          BY <5>1, <5>2
      <4>3. /\ m < n => v[m].last + 1 < v[n].first
            /\ n < m => v[n].last + 1 < v[m].first
        BY <2>1, <2>4 DEF ClausesInv
      <4>4. CASE m = n
        BY <3>9, <4>1, <4>2, <4>4
      <4>5. CASE m < n
        BY <3>3, <3>8, <3>10, <4>1, <4>2, <4>3, <4>5
      <4>6. CASE n < m
        BY <3>9, <4>1, <4>2, <4>3, <4>6
      <4> QED
        BY <4>1, <4>4, <4>5, <4>6
    <3>14. e \in 1..k /\ \A j \in e..k : code[j].of = code[k].of
      BY <3>3, <3>4, <3>10, <3>11
    <3> QED
      BY <3>12, <3>13, <3>14
  <2>11. ASSUME Analysed, Grammatical(query.code)
         PROVE  /\ \A c \in ToSet(clauses) : \A k \in Captured(c) :
                     \/ query.code[k].of = c.keyword
                     \/ /\ query.code[k].of = "signature"
                        /\ \E m \in c.first..k : Masked(m) = Semicolon
                /\ \A k \in DOMAIN query.code :
                     /\ query.code[k].of \in Keywords /\ Masked(k) \notin Keywords \cup {" "}
                     /\ k \notin ClausePositions
                     => \E m \in 1..k : /\ BareBrace(query.code, m) /\ m \notin ClausePositions
                                        /\ \A n \in m..k : query.code[n].of = query.code[k].of
    <3>1. Grammatical(code)
      BY <2>2, <2>11
    <3>2. \A c \in ToSet(clauses) : \A k \in Captured(c) :
                     \/ query.code[k].of = c.keyword
                     \/ /\ query.code[k].of = "signature"
                        /\ \E m \in c.first..k : Masked(m) = Semicolon
      BY <2>5, <2>9, <3>1
    <3>3. \A k \in DOMAIN query.code :
                     /\ query.code[k].of \in Keywords /\ Masked(k) \notin Keywords \cup {" "}
                     /\ k \notin ClausePositions
                     => \E m \in 1..k : /\ BareBrace(query.code, m) /\ m \notin ClausePositions
                                        /\ \A n \in m..k : query.code[n].of = query.code[k].of
      BY <2>2, <2>10, <2>11, <3>1 DEF Masked
    <3> QED
      BY <3>2, <3>3
  <2> QED
    BY <2>8, <2>11 DEF SpecExtracted
<1> QED
  BY <1>1, AnalysisInvariant, PTL
=============================================================================
