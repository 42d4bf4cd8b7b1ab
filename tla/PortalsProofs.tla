---------------------------- MODULE PortalsProofs ----------------------------
(***************************************************************************)
(* Proofs about Portals.tla, for any texts, names, limits and number of    *)
(* rows.                                                                   *)
(***************************************************************************)
EXTENDS Portals, FiniteSetTheorems, SequenceTheorems, TLAPS

PortalType ==
  [used : BOOLEAN, name : PortalNames, text : Texts \cup {Mangled},
   executed : BOOLEAN, sent : 0 .. MaxRows, rows : 0 .. MaxRows, wound : BOOLEAN]

\* A bound portal is run or not, and the client has of its rows what the portal
\* says was sent.
PortalCounts ==
  portal.used => /\ portal.executed => portal.sent <= portal.rows
                 /\ runs = IF portal.executed THEN 1 ELSE 0
                 /\ given = IF portal.executed THEN portal.sent ELSE 0

\* The names are finitely many because the places are.
PlacesInv ==
  /\ IsFiniteSet(DOMAIN prepared)
  /\ Cardinality(DOMAIN prepared) <= MaxPrepared

\* An error that no ReadyForQuery has followed is being sat out.
ErrorInv == errored => ignoring

PortalInv == TypeOK /\ PlacesInv /\ PortalCounts /\ ErrorInv

-----------------------------------------------------------------------------
(* Replies. *)

\* Replies that are neither an error nor ReadyForQuery, and all of them.
Plain == {"1", "2", "3", "t", "T", "n", "D", "s", "C"}
Letters == Plain \cup {"E", "Z"}

\* Plain replies and then this one.
EndsWith(answers, final) ==
  /\ answers \in Seq(Letters)
  /\ Len(answers) >= 1
  /\ answers[Len(answers)] = final
  /\ \A i \in 1 .. Len(answers) - 1 : answers[i] \in Plain

\* What SilentAfterError asks of every message's replies.
InOrder(answers) ==
  /\ Cardinality({i \in DOMAIN answers : answers[i] = "Z"}) <= 1
  /\ \A i \in DOMAIN answers : answers[i] = "E" => i >= Len(answers) - 1

LEMMA LettersDiffer == "Z" \notin Plain /\ "E" \notin Plain /\ "Z" # "E"
BY DEF Plain

LEMMA ShortLists ==
  ASSUME NEW S, NEW x \in S, NEW y \in S, NEW k \in Nat
  PROVE  /\ <<x>> \in Seq(S) /\ Len(<<x>>) = 1 /\ <<x>>[1] = x
         /\ <<x, y>> \in Seq(S) /\ Len(<<x, y>>) = 2 /\ <<x, y>>[1] = x /\ <<x, y>>[2] = y
         /\ [r \in 1 .. k |-> x] \in Seq(S) /\ Len([r \in 1 .. k |-> x]) = k
OBVIOUS

LEMMA Appended ==
  ASSUME NEW S, NEW x \in S, NEW y \in S
  PROVE  Append(<<>>, x) = <<x>> /\ Append(<<x>>, y) = <<x, y>>
<1>1. Append(<<>>, x) = <<x>>
  OBVIOUS
<1>2. Append(<<x>>, y) = <<x, y>>
  <2>1. <<x>> \in Seq(S) /\ Len(<<x>>) = 1 /\ <<x>>[1] = x
    BY ShortLists
  <2>2. /\ Append(<<x>>, y) \in Seq(S) /\ Len(Append(<<x>>, y)) = 2
        /\ Append(<<x>>, y)[1] = x /\ Append(<<x>>, y)[2] = y
    <3>1. 1 \in 1 .. Len(<<x>>) /\ Len(<<x>>) + 1 = 2
      BY <2>1
    <3> QED
      BY <2>1, <3>1, AppendProperties
  <2>3. /\ <<x, y>> \in Seq(S) /\ Len(<<x, y>>) = 2
        /\ <<x, y>>[1] = x /\ <<x, y>>[2] = y
    BY ShortLists
  <2>4. \A i \in 1 .. 2 : i = 1 \/ i = 2
    OBVIOUS
  <2> QED
    BY <2>2, <2>3, <2>4, SeqEqual
<1> QED
  BY <1>1, <1>2

LEMMA NothingSaid == InOrder(<<>>)
<1>1. DOMAIN <<>> = {}
  OBVIOUS
<1>2. {i \in DOMAIN <<>> : <<>>[i] = "Z"} = {}
  BY <1>1
<1> QED
  BY <1>1, <1>2, FS_EmptySet DEF InOrder

LEMMA EndsInOrder ==
  ASSUME NEW answers, NEW final \in Letters, EndsWith(answers, final)
  PROVE  answers # <<>> /\ Last(answers) = final /\ InOrder(answers)
<1>1. Len(answers) \in Nat /\ DOMAIN answers = 1 .. Len(answers)
  BY LenProperties DEF EndsWith
<1>2. PICK n \in Nat : n = Len(answers)
  BY <1>1
<1>3. /\ n >= 1 /\ answers[n] = final /\ DOMAIN answers = 1 .. n
      /\ \A i \in 1 .. n - 1 : answers[i] \in Plain
  BY <1>1, <1>2 DEF EndsWith
<1>4. \A i \in DOMAIN answers : i \in Nat /\ (i = n \/ i \in 1 .. n - 1)
  BY <1>3
<1>5. answers # <<>>
  BY <1>1, <1>2, <1>3
<1>6. \A i \in DOMAIN answers : answers[i] = "E" \/ answers[i] = "Z" => i = n
  BY <1>3, <1>4, LettersDiffer
<1>7. Cardinality({i \in DOMAIN answers : answers[i] = "Z"}) <= 1
  <2>1. {i \in DOMAIN answers : answers[i] = "Z"} \in SUBSET {n}
    BY <1>6
  <2>2. IsFiniteSet({n}) /\ Cardinality({n}) = 1
    BY FS_Singleton
  <2>3. Cardinality({i \in DOMAIN answers : answers[i] = "Z"}) <= Cardinality({n})
    BY <2>1, <2>2, FS_Subset
  <2> QED
    BY <2>2, <2>3
<1>8. Last(answers) = final
  BY <1>2, <1>3 DEF Last
<1>9. \A i \in DOMAIN answers : answers[i] = "E" => i >= Len(answers) - 1
  BY <1>2, <1>6
<1> QED
  BY <1>5, <1>7, <1>8, <1>9 DEF InOrder

\* The short answers.
LEMMA OneReply ==
  ASSUME NEW x \in Letters PROVE EndsWith(<<x>>, x)
<1>1. <<x>> \in Seq(Letters) /\ Len(<<x>>) = 1 /\ <<x>>[1] = x
  BY ShortLists
<1>2. \A i \in 1 .. 1 - 1 : FALSE
  OBVIOUS
<1> QED
  BY <1>1, <1>2 DEF EndsWith

LEMMA TwoReplies ==
  ASSUME NEW x \in Plain, NEW y \in Letters PROVE EndsWith(<<x, y>>, y)
<1>1. /\ <<x, y>> \in Seq(Letters) /\ Len(<<x, y>>) = 2
      /\ <<x, y>>[1] = x /\ <<x, y>>[2] = y
  BY ShortLists DEF Letters
<1>2. \A i \in 1 .. 2 - 1 : i = 1
  OBVIOUS
<1> QED
  BY <1>1, <1>2 DEF EndsWith

\* Rows, or statements, and then the end of them.
LEMMA ManyReplies ==
  ASSUME NEW x \in Plain, NEW y \in Letters, NEW k \in Nat
  PROVE  LET answers == [r \in 1 .. k |-> x] \o <<y>>
         IN  EndsWith(answers, y) /\ Len(answers) = k + 1
<1> DEFINE xs == [r \in 1 .. k |-> x]
           answers == xs \o <<y>>
<1>1. xs \in Seq(Letters) /\ Len(xs) = k /\ \A i \in 1 .. k : xs[i] = x
  BY ShortLists DEF Letters
<1>2. <<y>> \in Seq(Letters) /\ Len(<<y>>) = 1 /\ <<y>>[1] = y
  BY ShortLists
<1> HIDE DEF xs
<1>3. /\ answers \in Seq(Letters) /\ Len(answers) = k + 1
      /\ \A i \in 1 .. k + 1 : answers[i] = IF i <= k THEN xs[i] ELSE <<y>>[i - k]
  BY <1>1, <1>2, ConcatProperties
<1> HIDE DEF answers
<1>4. answers[k + 1] = y
  <2>1. PICK i \in 1 .. k + 1 : i = k + 1
    OBVIOUS
  <2>2. ~(i <= k) /\ i - k = 1
    BY <2>1
  <2> QED
    BY <2>1, <2>2, <1>2, <1>3
<1>5. \A i \in 1 .. k : answers[i] \in Plain
  BY <1>1, <1>3
<1>6. EndsWith(answers, y)
  <2>1. \A i \in 1 .. (k + 1) - 1 : i \in 1 .. k
    OBVIOUS
  <2> QED
    BY <1>3, <1>4, <1>5, <2>1 DEF EndsWith
<1> QED
  BY <1>3, <1>6 DEF answers, xs

\* A Query's replies: the statements that ran, an error if one failed, and the one
\* ReadyForQuery.
LEMMA QueryReplies ==
  ASSUME NEW k \in Nat, NEW e \in {<<"E">>, <<>>}
  PROVE  LET answers == [r \in 1 .. k |-> "C"] \o e \o <<"Z">>
         IN  answers # <<>> /\ Last(answers) = "Z" /\ InOrder(answers)
<1> DEFINE xs == [r \in 1 .. k |-> "C"]
           answers == xs \o e \o <<"Z">>
<1>0. "C" \in Plain /\ "C" \in Letters /\ "Z" \in Letters /\ "E" \in Letters
  BY DEF Plain, Letters
<1>1. CASE e = <<>>
  <2>1. xs \in Seq(Letters)
    BY <1>0, ShortLists
  <2>2. xs \o e = xs
    BY <2>1, <1>1, ConcatEmptySeq
  <2>3. EndsWith(answers, "Z")
    BY <2>2, <1>0, ManyReplies
  <2> QED
    BY <2>3, <1>0, EndsInOrder
<1>2. CASE e = <<"E">>
  <2> DEFINE b == xs \o <<"E">>
  <2>1. EndsWith(b, "E") /\ Len(b) = k + 1
    BY <1>0, ManyReplies
  <2>2. <<"Z">> \in Seq(Letters) /\ Len(<<"Z">>) = 1 /\ <<"Z">>[1] = "Z"
    BY <1>0, ShortLists
  <2> HIDE DEF b
  <2>3. /\ b \in Seq(Letters) /\ b[k + 1] = "E"
        /\ \A i \in 1 .. k : b[i] \in Plain
    <3>1. \A i \in 1 .. k : i \in 1 .. (k + 1) - 1
      OBVIOUS
    <3> QED
      BY <2>1, <3>1 DEF EndsWith
  <2> DEFINE a == b \o <<"Z">>
  <2>4. /\ a \in Seq(Letters) /\ Len(a) = k + 2
        /\ \A i \in 1 .. k + 2 : a[i] = IF i <= k + 1 THEN b[i] ELSE <<"Z">>[i - (k + 1)]
    <3>1. /\ a \in Seq(Letters) /\ Len(a) = Len(b) + Len(<<"Z">>)
          /\ \A i \in 1 .. Len(b) + Len(<<"Z">>) :
                a[i] = IF i <= Len(b) THEN b[i] ELSE <<"Z">>[i - Len(b)]
      BY <2>2, <2>3, ConcatProperties
    <3>2. Len(b) + Len(<<"Z">>) = k + 2
      BY <2>1, <2>2
    <3> QED
      BY <3>1, <3>2, <2>1
  <2>5. DOMAIN a = 1 .. k + 2
    BY <2>4, LenProperties
  <2> HIDE DEF a
  <2>6. a[k + 2] = "Z"
    <3>1. PICK i \in 1 .. k + 2 : i = k + 2
      OBVIOUS
    <3>2. ~(i <= k + 1) /\ i - (k + 1) = 1
      BY <3>1
    <3> QED
      BY <3>1, <3>2, <2>2, <2>4
  <2>7. a[k + 1] = "E"
    <3>1. PICK i \in 1 .. k + 2 : i = k + 1
      OBVIOUS
    <3> QED
      BY <3>1, <2>3, <2>4
  <2>8. \A i \in 1 .. k : a[i] \in Plain
    <3>1. \A i \in 1 .. k : i \in 1 .. k + 2 /\ i <= k + 1
      OBVIOUS
    <3> QED
      BY <3>1, <2>3, <2>4
  <2>9. \A i \in DOMAIN a : i \in Nat /\ (i = k + 2 \/ i = k + 1 \/ i \in 1 .. k)
    BY <2>5
  <2>10. /\ \A i \in DOMAIN a : a[i] = "Z" => i = k + 2
         /\ \A i \in DOMAIN a : a[i] = "E" => i = k + 1
    BY <2>6, <2>7, <2>8, <2>9, LettersDiffer
  <2>11. Cardinality({i \in DOMAIN a : a[i] = "Z"}) <= 1
    <3>1. {i \in DOMAIN a : a[i] = "Z"} \in SUBSET {k + 2}
      BY <2>10
    <3>2. IsFiniteSet({k + 2}) /\ Cardinality({k + 2}) = 1
      BY FS_Singleton
    <3>3. Cardinality({i \in DOMAIN a : a[i] = "Z"}) <= Cardinality({k + 2})
      BY <3>1, <3>2, FS_Subset
    <3> QED
      BY <3>2, <3>3
  <2>12. \A i \in DOMAIN a : a[i] = "E" => i >= Len(a) - 1
    BY <2>4, <2>10
  <2>13. a # <<>> /\ Last(a) = "Z"
    BY <2>4, <2>5, <2>6 DEF Last
  <2>14. a = answers
    BY <1>2 DEF a, b
  <2> QED
    BY <2>11, <2>12, <2>13, <2>14 DEF InOrder
<1> QED
  BY <1>1, <1>2

-----------------------------------------------------------------------------
(* The messages. *)

\* What EachRowOnce asks of an answer that suspends or completes.
RowsEnd ==
  /\ replies' # <<>> /\ Last(replies') = "s" => Len(replies') > 1 /\ given' < portal'.rows
  /\ replies' # <<>> /\ Last(replies') = "C" => given' = portal'.rows

\* What every message keeps.
Keeps == PortalInv' /\ RowsEnd /\ InOrder(replies')

\* The names, which only Parse and Close change.
NamesInv ==
  /\ DOMAIN prepared \subseteq StatementNames
  /\ \A n \in DOMAIN prepared : prepared[n] \in Texts
  /\ PlacesInv

FlagsInv == ignoring \in BOOLEAN /\ errored \in BOOLEAN /\ ErrorInv

LEMMA Parts ==
  /\ PortalInv <=> NamesInv /\ portal \in PortalType /\ PortalCounts /\ FlagsInv
  /\ PortalInv' <=> NamesInv' /\ portal' \in PortalType /\ PortalCounts' /\ FlagsInv'
BY DEF PortalInv, TypeOK, NamesInv, PlacesInv, FlagsInv, PortalType

\* An error is the last thing said, and the batch is sat out from there.
LEMMA Failing ==
  ASSUME NEW a \in {<<>>, <<"t">>}, FailExtended(a)
  PROVE  /\ InOrder(replies') /\ Last(replies') = "E"
         /\ FlagsInv' /\ RowsEnd
<1>1. "E" \in Letters /\ "t" \in Plain /\ "E" # "s" /\ "E" # "C"
  BY DEF Letters, Plain
<1>2. replies' \in {<<"E">>, <<"t", "E">>}
  <2>1. Append(<<>>, "E") = <<"E">> /\ Append(<<"t">>, "E") = <<"t", "E">>
    BY <1>1, Appended DEF Letters
  <2> QED
    BY <2>1 DEF FailExtended, Answer
<1>3. EndsWith(replies', "E")
  BY <1>1, <1>2, OneReply, TwoReplies
<1>4. replies' # <<>> /\ Last(replies') = "E" /\ InOrder(replies')
  BY <1>1, <1>3, EndsInOrder
<1>5. Append(a, "E") = replies'
  BY DEF FailExtended, Answer
<1>6. errored' = TRUE /\ ignoring' = TRUE
  BY <1>4, <1>5 DEF FailExtended, Answer
<1> QED
  BY <1>1, <1>4, <1>6 DEF FlagsInv, ErrorInv, RowsEnd

\* Any other answer leaves the error of before, if there was one.
LEMMA Answering ==
  ASSUME FlagsInv, NEW a, NEW final \in Letters \ {"E"}, EndsWith(a, final), Answer(a),
         UNCHANGED ignoring
  PROVE  /\ replies' = a /\ a # <<>>
         /\ InOrder(replies') /\ Last(replies') = final
         /\ FlagsInv'
<1>1. replies' = a
  BY DEF Answer
<1>2. a # <<>> /\ Last(a) = final /\ InOrder(a)
  BY EndsInOrder
<1>3. errored' \in BOOLEAN /\ (errored' => errored)
  BY <1>2 DEF Answer, FlagsInv
<1> QED
  BY <1>1, <1>2, <1>3 DEF FlagsInv, ErrorInv

LEMMA SkipKeeps == PortalInv /\ Skip => Keeps
<1> SUFFICES ASSUME PortalInv, Skip PROVE Keeps
  OBVIOUS
<1>1. InOrder(replies') /\ RowsEnd
  BY NothingSaid DEF Skip, RowsEnd
<1>2. NamesInv' /\ portal' \in PortalType /\ PortalCounts' /\ FlagsInv'
  BY Parts DEF Skip, NamesInv, PlacesInv, PortalCounts, FlagsInv, ErrorInv
<1> QED
  BY <1>1, <1>2, Parts DEF Keeps

LEMMA SyncKeeps == PortalInv /\ Sync => Keeps /\ replies' = <<"Z">>
<1> SUFFICES ASSUME PortalInv, Sync PROVE Keeps /\ replies' = <<"Z">>
  OBVIOUS
<1>1. "Z" \in Letters /\ "Z" # "s" /\ "Z" # "C" /\ "Z" # "E"
  BY DEF Letters
<1>2. replies' = <<"Z">> /\ <<"Z">> # <<>> /\ Last(<<"Z">>) = "Z" /\ InOrder(replies')
  BY <1>1, OneReply, EndsInOrder DEF Sync, Answer
<1>3. errored' = FALSE
  BY <1>1, <1>2 DEF Sync, Answer
<1>4. FlagsInv' /\ RowsEnd
  BY <1>1, <1>2, <1>3 DEF Sync, FlagsInv, ErrorInv, RowsEnd
<1>5. NamesInv' /\ portal' \in PortalType /\ PortalCounts'
  BY Parts DEF Sync, NamesInv, PlacesInv, PortalCounts
<1> QED
  BY <1>2, <1>4, <1>5, Parts DEF Keeps

LEMMA UnknownKeeps == PortalInv /\ Unknown => Keeps
<1> SUFFICES ASSUME PortalInv, Unknown PROVE Keeps
  OBVIOUS
<1>1. InOrder(replies') /\ FlagsInv' /\ RowsEnd
  BY Failing DEF Unknown
<1>2. NamesInv' /\ portal' \in PortalType /\ PortalCounts'
  BY Parts DEF Unknown, NamesInv, PlacesInv, PortalCounts
<1> QED
  BY <1>1, <1>2, Parts DEF Keeps

\* Parse takes a place only when there is one.
LEMMA ParseKeeps ==
  ASSUME PortalInv, NEW name \in StatementNames, NEW text \in Texts, Parse(name, text)
  PROVE  Keeps
<1> USE MaxPreparedAssumption
<1>1. NamesInv /\ portal \in PortalType /\ PortalCounts /\ FlagsInv
  BY Parts
<1>2. portal' \in PortalType /\ PortalCounts'
  BY <1>1 DEF Parse, PortalCounts
<1>3. CASE NoPlace(name)
  <2>1. InOrder(replies') /\ FlagsInv' /\ RowsEnd
    BY <1>3, Failing DEF Parse
  <2>2. NamesInv'
    BY <1>1, <1>3 DEF Parse, NamesInv, PlacesInv
  <2> QED
    BY <1>2, <2>1, <2>2, Parts DEF Keeps
<1>4. CASE ~NoPlace(name)
  <2>1. prepared' = [n \in DOMAIN prepared \cup {name} |->
                       IF n = name THEN text ELSE prepared[n]]
    BY <1>4 DEF Parse
  <2>2. DOMAIN prepared' = DOMAIN prepared \cup {name}
    BY <2>1
  <2>3. /\ IsFiniteSet(DOMAIN prepared')
        /\ Cardinality(DOMAIN prepared') = IF name \in DOMAIN prepared
             THEN Cardinality(DOMAIN prepared) ELSE Cardinality(DOMAIN prepared) + 1
    BY <1>1, <2>2, FS_AddElement DEF NamesInv, PlacesInv
  <2>4. Cardinality(DOMAIN prepared) \in Nat
    BY <1>1, FS_CardinalityType DEF NamesInv, PlacesInv
  <2>5. Cardinality(DOMAIN prepared') <= MaxPrepared
    <3>1. Cardinality(DOMAIN prepared) <= MaxPrepared
      BY <1>1 DEF NamesInv, PlacesInv
    <3> QED
      BY <1>4, <2>3, <2>4, <3>1 DEF NoPlace
  <2>6. NamesInv'
    BY <1>1, <2>1, <2>2, <2>3, <2>5 DEF NamesInv, PlacesInv
  <2>7. CASE Answer(<<"1">>) /\ UNCHANGED ignoring
    <3>1. "1" \in Letters \ {"E"} /\ "1" # "s" /\ "1" # "C"
      BY DEF Letters, Plain
    <3>2. EndsWith(<<"1">>, "1")
      BY <3>1, OneReply
    <3>3. InOrder(replies') /\ Last(replies') = "1" /\ FlagsInv'
      BY <1>1, <2>7, <3>1, <3>2, Answering
    <3> QED
      BY <1>2, <2>6, <3>1, <3>3, Parts DEF Keeps, RowsEnd
  <2>8. CASE FailExtended(<<>>)
    <3>1. InOrder(replies') /\ FlagsInv' /\ RowsEnd
      BY <2>8, Failing
    <3> QED
      BY <1>2, <2>6, <3>1, Parts DEF Keeps
  <2> QED
    BY <1>4, <2>7, <2>8 DEF Parse
<1> QED
  BY <1>3, <1>4

LEMMA CloseStatementKeeps ==
  ASSUME PortalInv, NEW name \in StatementNames, CloseStatement(name)
  PROVE  Keeps
<1>1. NamesInv /\ portal \in PortalType /\ PortalCounts /\ FlagsInv
  BY Parts
<1>2. portal' \in PortalType /\ PortalCounts'
  BY <1>1 DEF CloseStatement, PortalCounts
<1>3. /\ prepared' = [n \in DOMAIN prepared \ {name} |-> prepared[n]]
      /\ DOMAIN prepared' = DOMAIN prepared \ {name}
  BY DEF CloseStatement
<1>4. /\ IsFiniteSet(DOMAIN prepared')
      /\ Cardinality(DOMAIN prepared') <= Cardinality(DOMAIN prepared)
      /\ Cardinality(DOMAIN prepared') \in Nat /\ Cardinality(DOMAIN prepared) \in Nat
  <2>1. IsFiniteSet(DOMAIN prepared) /\ DOMAIN prepared' \in SUBSET (DOMAIN prepared)
    BY <1>1, <1>3 DEF NamesInv, PlacesInv
  <2> QED
    BY <2>1, FS_Subset, FS_CardinalityType
<1>5. Cardinality(DOMAIN prepared') <= MaxPrepared
  BY <1>1, <1>4, MaxPreparedAssumption DEF NamesInv, PlacesInv
<1>6. NamesInv'
  BY <1>1, <1>3, <1>4, <1>5 DEF NamesInv, PlacesInv
<1>7. "3" \in Letters \ {"E"} /\ "3" # "s" /\ "3" # "C"
  BY DEF Letters, Plain
<1>8. EndsWith(<<"3">>, "3")
  BY <1>7, OneReply
<1>9. InOrder(replies') /\ Last(replies') = "3" /\ FlagsInv'
  BY <1>1, <1>7, <1>8, Answering DEF CloseStatement
<1> QED
  BY <1>2, <1>6, <1>7, <1>9, Parts DEF Keeps, RowsEnd

LEMMA ClosePortalKeeps ==
  ASSUME PortalInv, NEW name \in PortalNames, ClosePortal(name)
  PROVE  Keeps
<1>1. NamesInv /\ portal \in PortalType /\ PortalCounts /\ FlagsInv
  BY Parts
<1>2. portal' \in PortalType /\ PortalCounts'
  BY <1>1 DEF ClosePortal, PortalCounts, PortalType
<1>3. NamesInv'
  BY <1>1 DEF ClosePortal, NamesInv, PlacesInv
<1>4. "3" \in Letters \ {"E"} /\ "3" # "s" /\ "3" # "C"
  BY DEF Letters, Plain
<1>5. EndsWith(<<"3">>, "3")
  BY <1>4, OneReply
<1>6. InOrder(replies') /\ Last(replies') = "3" /\ FlagsInv'
  BY <1>1, <1>4, <1>5, Answering DEF ClosePortal
<1> QED
  BY <1>2, <1>3, <1>4, <1>6, Parts DEF Keeps, RowsEnd

\* An answer of one or two plain letters that is neither "s" nor "C".
LEMMA Describing ==
  ASSUME FlagsInv, UNCHANGED ignoring,
         NEW a \in {<<"2">>, <<"n">>, <<"T">>, <<"t", "n">>, <<"t", "T">>}, Answer(a)
  PROVE  InOrder(replies') /\ FlagsInv' /\ RowsEnd
<1>1. /\ "2" \in Letters \ {"E"} /\ "n" \in Letters \ {"E"} /\ "T" \in Letters \ {"E"}
      /\ "t" \in Plain
  BY DEF Letters, Plain
<1>2. PICK final \in {"2", "n", "T"} : EndsWith(a, final)
  BY <1>1, OneReply, TwoReplies
<1>3. final \in Letters \ {"E"} /\ final # "s" /\ final # "C"
  BY <1>1
<1>4. InOrder(replies') /\ Last(replies') = final /\ FlagsInv'
  BY <1>2, <1>3, Answering
<1> QED
  BY <1>3, <1>4 DEF RowsEnd

\* Bind starts the portal afresh, or leaves it with half a text.
LEMMA BindKeeps ==
  ASSUME PortalInv, NEW name \in PortalNames, NEW statement \in StatementNames,
         Bind(name, statement)
  PROVE  Keeps
<1>1. NamesInv /\ portal \in PortalType /\ PortalCounts /\ FlagsInv
  BY Parts
<1>2. NamesInv'
  BY <1>1 DEF Bind, NamesInv, PlacesInv
<1>3. CASE /\ statement \in DOMAIN prepared
           /\ portal' = [portal EXCEPT !.used = TRUE, !.name = name,
                                       !.text = prepared[statement],
                                       !.executed = FALSE, !.sent = 0]
           /\ runs' = 0 /\ given' = 0
           /\ Answer(<<"2">>) /\ UNCHANGED ignoring
  <2>1. prepared[statement] \in Texts
    BY <1>1, <1>3 DEF NamesInv
  <2>2. portal' \in PortalType
    <3>1. PICK text \in Texts \cup {Mangled} : text = prepared[statement]
      BY <2>1
    <3>2. PICK none \in 0 .. MaxRows : none = 0
      BY PortalsAssumption
    <3>3. portal' = [portal EXCEPT !.used = TRUE, !.name = name, !.text = text,
                                   !.executed = FALSE, !.sent = none]
      BY <1>3, <3>1, <3>2
    <3> QED
      BY <1>1, <3>3 DEF PortalType
  <2>3. PortalCounts'
    <3>1. portal'.executed = FALSE /\ portal'.sent = 0
      BY <1>1, <1>3 DEF PortalType
    <3> QED
      BY <1>3, <3>1 DEF PortalCounts
  <2>4. InOrder(replies') /\ FlagsInv' /\ RowsEnd
    BY <1>1, <1>3, Describing
  <2> QED
    BY <1>2, <2>2, <2>3, <2>4, Parts DEF Keeps
<1>4. CASE /\ statement \in DOMAIN prepared
           /\ portal' = [portal EXCEPT !.text = Mangled]
           /\ FailExtended(<<>>) /\ UNCHANGED <<runs, given>>
  <2>1. /\ portal' \in PortalType
        /\ portal'.used = portal.used /\ portal'.executed = portal.executed
        /\ portal'.sent = portal.sent /\ portal'.rows = portal.rows
    BY <1>1, <1>4 DEF PortalType
  <2>2. PortalCounts'
    BY <1>1, <1>4, <2>1 DEF PortalCounts
  <2>3. InOrder(replies') /\ FlagsInv' /\ RowsEnd
    BY <1>4, Failing
  <2> QED
    BY <1>2, <2>1, <2>2, <2>3, Parts DEF Keeps
<1>5. CASE FailExtended(<<>>) /\ UNCHANGED <<portal, runs, given>>
  <2>1. portal' \in PortalType /\ PortalCounts'
    BY <1>1, <1>5 DEF PortalCounts
  <2>2. InOrder(replies') /\ FlagsInv' /\ RowsEnd
    BY <1>5, Failing
  <2> QED
    BY <1>2, <2>1, <2>2, Parts DEF Keeps
<1> QED
  BY <1>3, <1>4, <1>5 DEF Bind

\* Describing a statement winds the arena back and does nothing else to the portal.
LEMMA DescribeStatementKeeps ==
  ASSUME PortalInv, NEW name \in StatementNames, DescribeStatement(name)
  PROVE  Keeps
<1>1. NamesInv /\ portal \in PortalType /\ PortalCounts /\ FlagsInv
  BY Parts
<1>2. NamesInv' /\ UNCHANGED <<runs, given>>
  BY <1>1 DEF DescribeStatement, NamesInv, PlacesInv
<1>3. \/ FailExtended(<<>>) \/ FailExtended(<<"t">>)
      \/ Answer(<<"t", "n">>) /\ UNCHANGED ignoring
      \/ Answer(<<"t", "T">>) /\ UNCHANGED ignoring
  BY DEF DescribeStatement
<1>4. portal' = portal \/ portal' = WindBack(portal)
  BY DEF DescribeStatement
<1>5. InOrder(replies') /\ FlagsInv' /\ RowsEnd
  <2>1. CASE FailExtended(<<>>) \/ FailExtended(<<"t">>)
    BY <2>1, Failing
  <2>2. CASE \/ Answer(<<"t", "n">>) /\ UNCHANGED ignoring
             \/ Answer(<<"t", "T">>) /\ UNCHANGED ignoring
    BY <1>1, <2>2, Describing
  <2> QED
    BY <1>3, <2>1, <2>2
<1>6. /\ portal' \in PortalType
      /\ portal'.used = portal.used /\ portal'.executed = portal.executed
      /\ portal'.sent = portal.sent /\ portal'.rows = portal.rows
  <2>1. PICK b \in BOOLEAN : b = (portal.wound \/ portal.executed)
    OBVIOUS
  <2>2. WindBack(portal) = [portal EXCEPT !.wound = b]
    BY <2>1 DEF WindBack
  <2>3. portal' = portal \/ portal' = [portal EXCEPT !.wound = b]
    BY <1>4, <2>2
  <2> QED
    BY <1>1, <2>3 DEF PortalType
<1>7. PortalCounts'
  BY <1>1, <1>2, <1>6 DEF PortalCounts
<1> QED
  BY <1>2, <1>5, <1>6, <1>7, Parts DEF Keeps

\* runPortal: a portal that has not run runs, and after it either the call fails
\* or the portal has run once and the client has of its rows what it had.
LEMMA RunPortalRuns ==
  ASSUME portal \in PortalType, PortalCounts, NEW outcome \in Outcomes(portal.text)
  PROVE  LET run == RunPortal(outcome)
         IN  /\ run.portal \in PortalType
             /\ run.portal.used = portal.used
             /\ run.ok => /\ portal.used /\ run.portal.executed
                          /\ run.portal.sent <= run.portal.rows
                          /\ Count(runs, run.success) = 1
                          /\ given = run.portal.sent
             /\ ~run.ok /\ portal.used => /\ ~run.portal.executed
                                          /\ Count(runs, run.success) = 0
                                          /\ given = 0
<1> DEFINE run == RunPortal(outcome)
           p == Executed(portal, outcome)
<1>1. outcome.ok \in BOOLEAN /\ outcome.rows \in 0 .. MaxRows
  <2> DEFINE counts == IF portal.text \in Commands THEN {0} ELSE 0 .. MaxRows
  <2>1. 0 \in 0 .. MaxRows /\ \A n \in counts : n \in 0 .. MaxRows
    BY PortalsAssumption
  <2>2. CASE outcome = [ok |-> FALSE, rows |-> 0]
    BY <2>1, <2>2
  <2>3. CASE \E n \in counts : outcome = [ok |-> TRUE, rows |-> n]
    BY <2>1, <2>3
  <2> QED
    BY <2>2, <2>3 DEF Outcomes
<1>2. /\ p \in PortalType
      /\ p.used = portal.used /\ p.executed = outcome.ok /\ p.rows = outcome.rows
      /\ outcome.ok => p.sent = 0
  <2>1. PICK n \in 0 .. MaxRows : n = IF outcome.ok THEN 0 ELSE portal.sent
    BY PortalsAssumption DEF PortalType
  <2>2. PICK ok \in BOOLEAN, rows \in 0 .. MaxRows : ok = outcome.ok /\ rows = outcome.rows
    BY <1>1
  <2>3. p = [portal EXCEPT !.executed = ok, !.rows = rows, !.sent = n, !.wound = FALSE]
    BY <2>1, <2>2 DEF Executed
  <2> HIDE DEF p
  <2>4. /\ p \in PortalType
        /\ p.used = portal.used /\ p.executed = ok /\ p.rows = rows /\ p.sent = n
    BY <2>3 DEF PortalType
  <2> QED
    BY <2>1, <2>2, <2>4
<1> HIDE DEF p
<1>3. CASE portal.used /\ ~portal.executed
  <2>1. /\ run.portal = p /\ run.ok = outcome.ok /\ run.success = outcome.ok
    BY <1>3 DEF RunPortal, p
  <2>2. runs = 0 /\ given = 0
    BY <1>3 DEF PortalCounts
  <2>3. Count(runs, run.success) = IF outcome.ok THEN 1 ELSE 0
    BY <2>1, <2>2 DEF Count
  <2> HIDE DEF run
  <2>4. outcome.ok => p.sent <= p.rows
    BY <1>1, <1>2
  <2> QED
    BY <1>2, <1>3, <2>1, <2>2, <2>3, <2>4 DEF run
<1>4. CASE ~(portal.used /\ ~portal.executed)
  <2>1. run.portal = portal /\ run.ok = portal.used /\ run.success = FALSE
    BY <1>4 DEF RunPortal
  <2>2. Count(runs, run.success) = runs
    BY <2>1 DEF Count
  <2> HIDE DEF run
  <2> QED
    BY <1>4, <2>1, <2>2 DEF PortalCounts, run
<1> QED
  BY <1>3, <1>4

LEMMA DescribePortalKeeps == PortalInv /\ DescribePortal => Keeps
<1> SUFFICES ASSUME PortalInv, DescribePortal PROVE Keeps
  OBVIOUS
<1>1. NamesInv /\ portal \in PortalType /\ PortalCounts /\ FlagsInv
  BY Parts
<1>2. NamesInv' /\ given' = given
  BY <1>1 DEF DescribePortal, NamesInv, PlacesInv
<1>3. PICK outcome \in Outcomes(portal.text) :
        LET run == RunPortal(outcome)
        IN /\ portal' = run.portal
           /\ runs' = Count(runs, run.success)
           /\ IF ~run.ok THEN FailExtended(<<>>)
              ELSE /\ UNCHANGED ignoring
                   /\ Answer(IF portal.text \in Commands THEN <<"n">> ELSE <<"T">>)
  BY DEF DescribePortal
<1>4. portal' \in PortalType
  BY <1>1, <1>3, RunPortalRuns
<1>5. PortalCounts'
  BY <1>1, <1>2, <1>3, RunPortalRuns DEF PortalCounts
<1>6. InOrder(replies') /\ FlagsInv' /\ RowsEnd
  <2>1. CASE ~RunPortal(outcome).ok
    BY <1>3, <2>1, Failing
  <2>2. CASE RunPortal(outcome).ok
    BY <1>1, <1>3, <2>2, Describing
  <2> QED
    BY <2>1, <2>2
<1> QED
  BY <1>2, <1>4, <1>5, <1>6, Parts DEF Keeps

\* The row an Execute stops after is not before those that were sent, and before
\* the last only when a limit asked for some.
LEMMA StopsInside ==
  ASSUME NEW p \in PortalType, p.sent <= p.rows, NEW limit \in Int
  PROVE  LET final == StopAfter(p, limit)
         IN  /\ final \in p.sent .. p.rows
             /\ final \in 0 .. MaxRows
             /\ final < p.rows => final - p.sent >= 1
<1>1. p.sent \in Nat /\ p.rows \in Nat /\ p.rows <= MaxRows
  BY PortalsAssumption DEF PortalType
<1>2. CASE limit > 0 /\ p.sent + limit < p.rows
  <2>1. StopAfter(p, limit) = p.sent + limit
    BY <1>2 DEF StopAfter
  <2> QED
    BY <1>1, <1>2, <2>1, PortalsAssumption
<1>3. CASE ~(limit > 0 /\ p.sent + limit < p.rows)
  <2>1. StopAfter(p, limit) = p.rows
    BY <1>3 DEF StopAfter
  <2> QED
    BY <1>1, <2>1, PortalsAssumption
<1> QED
  BY <1>2, <1>3

LEMMA ExecuteKeeps ==
  ASSUME PortalInv, NEW limit \in Limits, Execute(limit)
  PROVE  Keeps
<1>1. NamesInv /\ portal \in PortalType /\ PortalCounts /\ FlagsInv
  BY Parts
<1>2. NamesInv'
  BY <1>1 DEF Execute, NamesInv, PlacesInv
<1>3. PICK outcome \in Outcomes(portal.text) :
        LET run == RunPortal(outcome)
            final == StopAfter(run.portal, limit)
        IN /\ runs' = Count(runs, run.success)
           /\ IF ~run.ok THEN portal' = run.portal /\ FailExtended(<<>>) /\ UNCHANGED given
              ELSE /\ portal' = [run.portal EXCEPT !.sent = final]
                   /\ given' = given + (final - run.portal.sent)
                   /\ Answer([r \in 1 .. final - run.portal.sent |-> "D"] \o
                             <<IF final < run.portal.rows THEN "s" ELSE "C">>)
                   /\ UNCHANGED ignoring
  BY DEF Execute
<1> DEFINE run == RunPortal(outcome)
<1>4. /\ run.portal \in PortalType
      /\ run.portal.used = portal.used
      /\ run.ok => /\ portal.used /\ run.portal.executed
                   /\ run.portal.sent <= run.portal.rows
                   /\ Count(runs, run.success) = 1
                   /\ given = run.portal.sent
      /\ ~run.ok /\ portal.used => /\ ~run.portal.executed
                                   /\ Count(runs, run.success) = 0
                                   /\ given = 0
  BY <1>1, RunPortalRuns
<1>5. CASE ~run.ok
  <2>1. portal' = run.portal /\ FailExtended(<<>>) /\ given' = given
        /\ runs' = Count(runs, run.success)
    BY <1>3, <1>5
  <2>2. InOrder(replies') /\ FlagsInv' /\ RowsEnd
    BY <2>1, Failing
  <2> HIDE DEF run
  <2>3. portal' \in PortalType /\ PortalCounts'
    BY <1>4, <1>5, <2>1 DEF PortalCounts
  <2> QED
    BY <1>2, <2>2, <2>3, Parts DEF Keeps
<1>6. CASE run.ok
  <2> DEFINE p == run.portal
             stop == StopAfter(p, limit)
             how == IF stop < p.rows THEN "s" ELSE "C"
  <2>1. /\ portal' = [p EXCEPT !.sent = stop]
        /\ given' = given + (stop - p.sent)
        /\ Answer([r \in 1 .. stop - p.sent |-> "D"] \o <<how>>)
        /\ UNCHANGED ignoring /\ runs' = 1
    BY <1>3, <1>4, <1>6
  <2>2. /\ stop \in p.sent .. p.rows /\ stop \in 0 .. MaxRows
        /\ stop < p.rows => stop - p.sent >= 1
    BY <1>4, <1>6, StopsInside, PortalsAssumption
  <2>3. p \in PortalType /\ p.executed /\ given = p.sent
    BY <1>4, <1>6
  <2> HIDE DEF run, p, stop, how
  <2>4. p.sent \in Nat /\ p.rows \in Nat /\ stop \in Nat
    BY <2>2, <2>3, PortalsAssumption DEF PortalType
  <2>5. /\ portal' \in PortalType
        /\ portal'.executed /\ portal'.sent = stop /\ portal'.rows = p.rows
    BY <2>1, <2>2, <2>3 DEF PortalType
  <2>6. given' = stop
    BY <2>1, <2>3, <2>4
  <2>7. PortalCounts'
    BY <2>1, <2>2, <2>4, <2>5, <2>6 DEF PortalCounts
  <2>8. PICK k \in Nat : k = stop - p.sent
    BY <2>2, <2>4
  <2>9. how \in Letters \ {"E"} /\ "D" \in Plain
    BY DEF how, Letters, Plain
  <2> DEFINE answers == [r \in 1 .. k |-> "D"] \o <<how>>
  <2>10. EndsWith(answers, how) /\ Len(answers) = k + 1 /\ Answer(answers)
    BY <2>1, <2>8, <2>9, ManyReplies
  <2> HIDE DEF answers
  <2>11. /\ replies' = answers /\ InOrder(replies') /\ Last(replies') = how /\ FlagsInv'
    BY <1>1, <2>1, <2>9, <2>10, Answering
  <2>12. CASE stop < p.rows
    <3>1. how = "s" /\ k >= 1 /\ Len(replies') > 1
      BY <2>2, <2>8, <2>10, <2>11, <2>12 DEF how
    <3>2. RowsEnd
      BY <2>5, <2>6, <2>11, <2>12, <3>1 DEF RowsEnd
    <3> QED
      BY <1>2, <2>5, <2>7, <2>11, <3>2, Parts DEF Keeps
  <2>13. CASE ~(stop < p.rows)
    <3>1. how = "C" /\ stop = p.rows
      BY <2>2, <2>4, <2>13 DEF how
    <3>2. RowsEnd
      BY <2>5, <2>6, <2>11, <3>1 DEF RowsEnd
    <3> QED
      BY <1>2, <2>5, <2>7, <2>11, <3>2, Parts DEF Keeps
  <2> QED
    BY <2>12, <2>13
<1> QED
  BY <1>5, <1>6

\* A simple query ends the portal and says ReadyForQuery once, at its end.
LEMMA QueryKeeps ==
  ASSUME PortalInv, NEW texts \in Queries, Query(texts)
  PROVE  Keeps
<1>1. NamesInv /\ portal \in PortalType /\ PortalCounts /\ FlagsInv
  BY Parts
<1>2. NamesInv'
  BY <1>1 DEF Query, NamesInv, PlacesInv
<1>3. portal' \in PortalType /\ PortalCounts'
  <2>1. portal' \in PortalType /\ portal'.used = FALSE
    BY <1>1 DEF Query, PortalType
  <2> QED
    BY <2>1 DEF PortalCounts
<1>4. Len(texts) \in Nat
  BY PortalsAssumption, LenProperties
<1>5. PICK k \in 0 .. Len(texts) :
        Answer([i \in 1 .. k |-> "C"] \o (IF k < Len(texts) THEN <<"E">> ELSE <<>>) \o <<"Z">>)
  BY DEF Query
<1>6. k \in Nat
  BY <1>4
<1>7. PICK e \in {<<"E">>, <<>>} : e = IF k < Len(texts) THEN <<"E">> ELSE <<>>
  OBVIOUS
<1> DEFINE answers == [i \in 1 .. k |-> "C"] \o e \o <<"Z">>
<1>8. answers # <<>> /\ Last(answers) = "Z" /\ InOrder(answers)
  BY <1>6, QueryReplies
<1>9. Answer(answers)
  BY <1>5, <1>7
<1> HIDE DEF answers
<1>10. replies' = answers /\ ~errored' /\ errored' \in BOOLEAN /\ ignoring' = ignoring
  BY <1>8, <1>9 DEF Answer, Query
<1>11. FlagsInv' /\ RowsEnd
  BY <1>1, <1>8, <1>10 DEF FlagsInv, ErrorInv, RowsEnd
<1> QED
  BY <1>2, <1>3, <1>8, <1>10, <1>11, Parts DEF Keeps

-----------------------------------------------------------------------------
(* The theorems. *)

LEMMA EveryMessageKeeps == PortalInv /\ Next => Keeps
<1> SUFFICES ASSUME PortalInv, Next PROVE Keeps
  OBVIOUS
<1>1. CASE Skip \/ Sync \/ Unknown \/ DescribePortal
  BY <1>1, SkipKeeps, SyncKeeps, UnknownKeeps, DescribePortalKeeps
<1>2. CASE \E n \in StatementNames, text \in Texts : Parse(n, text)
  BY <1>2, ParseKeeps
<1>3. CASE \E n \in PortalNames, statement \in StatementNames : Bind(n, statement)
  BY <1>3, BindKeeps
<1>4. CASE \E n \in StatementNames : DescribeStatement(n) \/ CloseStatement(n)
  BY <1>4, DescribeStatementKeeps, CloseStatementKeeps
<1>5. CASE \E n \in PortalNames : ClosePortal(n)
  BY <1>5, ClosePortalKeeps
<1>6. CASE \E limit \in Limits : Execute(limit)
  BY <1>6, ExecuteKeeps
<1>7. CASE \E texts \in Queries : Query(texts)
  BY <1>7, QueryKeeps
<1> QED
  BY <1>1, <1>2, <1>3, <1>4, <1>5, <1>6, <1>7 DEF Next

\* Only Sync is answered after an error, and nothing is run.
LEMMA SatOut ==
  ASSUME PortalInv, Next, errored
  PROVE  ran' = <<>> /\ replies' \in {<<>>, <<"Z">>}
<1>1. ignoring
  BY DEF PortalInv, ErrorInv
<1>2. Skip \/ Sync
  BY <1>1 DEF Next, Serving, Unknown, DescribePortal, Parse, Bind, DescribeStatement,
              CloseStatement, ClosePortal, Execute, Query
<1> QED
  BY <1>2, SyncKeeps DEF Skip, Sync

LEMMA InitPortals == Init => PortalInv
<1> SUFFICES ASSUME Init PROVE PortalInv
  OBVIOUS
<1>1. DOMAIN prepared = {}
  BY DEF Init
<1>2. NamesInv
  BY <1>1, FS_EmptySet, MaxPreparedAssumption DEF NamesInv, PlacesInv
<1>3. portal \in PortalType /\ portal.used = FALSE
  <2>1. (CHOOSE n \in PortalNames : TRUE) \in PortalNames
    BY PortalsAssumption
  <2> QED
    BY <2>1, PortalsAssumption DEF Init, NoPortal, PortalType
<1>4. PortalCounts
  BY <1>3 DEF PortalCounts
<1>5. FlagsInv
  BY DEF Init, FlagsInv, ErrorInv
<1> QED
  BY <1>2, <1>3, <1>4, <1>5, Parts

LEMMA NextPortals == PortalInv /\ [Next]_vars => PortalInv'
<1>1. PortalInv /\ UNCHANGED vars => PortalInv'
  BY DEF PortalInv, TypeOK, PlacesInv, PortalCounts, ErrorInv, vars
<1> QED
  BY <1>1, EveryMessageKeeps DEF Keeps

THEOREM PortalInvariant == Spec => []PortalInv
BY InitPortals, NextPortals, PTL DEF Spec

\* Of the prepared statements and the portal: no more statements than places.
THEOREM PortalTypes == Spec => []TypeOK
<1>1. PortalInv => TypeOK
  BY DEF PortalInv
<1> QED
  BY <1>1, PortalInvariant, PTL

\* runPortal runs the statement of a Bind once, however often it is described and
\* executed.
THEOREM BoundOnceRunOnce == Spec => []RunsOnce
<1>1. PortalInv => RunsOnce
  BY DEF PortalInv, PortalCounts, RunsOnce
<1> QED
  BY <1>1, PortalInvariant, PTL

\* handleExecute gives each row of the portal once, whatever limits the client cuts
\* the result up with: a suspended portal has rows to come, a completed one none.
THEOREM RowsComeOnce == Spec => EachRowOnce
<1>1. PortalInv /\ [Next]_vars =>
        [/\ portal'.used /\ portal'.executed => given' = portal'.sent
         /\ replies' # <<>> /\ Last(replies') = "s" => Len(replies') > 1 /\ given' < portal'.rows
         /\ replies' # <<>> /\ Last(replies') = "C" => given' = portal'.rows]_vars
  <2> SUFFICES ASSUME PortalInv, Next
               PROVE  /\ portal'.used /\ portal'.executed => given' = portal'.sent
                      /\ RowsEnd
    BY DEF RowsEnd
  <2> QED
    BY EveryMessageKeeps DEF Keeps, PortalInv, PortalCounts
<1> QED
  BY <1>1, PortalInvariant, PTL DEF Spec, EachRowOnce

\* failExtended and the skip of handleMessage: between an error and the
\* ReadyForQuery that ends its batch nothing is run and nothing said, and no message
\* is answered ReadyForQuery twice.
THEOREM ErrorsEndTheBatch == Spec => SilentAfterError
<1>1. PortalInv /\ [Next]_vars =>
        [/\ errored => ran' = <<>> /\ replies' \in {<<>>, <<"Z">>}
         /\ Cardinality({i \in DOMAIN replies' : replies'[i] = "Z"}) <= 1
         /\ \A i \in DOMAIN replies' : replies'[i] = "E" => i >= Len(replies') - 1]_vars
  <2> SUFFICES ASSUME PortalInv, Next
               PROVE  /\ errored => ran' = <<>> /\ replies' \in {<<>>, <<"Z">>}
                      /\ InOrder(replies')
    BY DEF InOrder
  <2> QED
    BY EveryMessageKeeps, SatOut DEF Keeps
<1> QED
  BY <1>1, PortalInvariant, PTL DEF Spec, SilentAfterError

=============================================================================
