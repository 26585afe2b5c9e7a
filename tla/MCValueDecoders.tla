-------------------------- MODULE MCValueDecoders --------------------------
EXTENDS ValueDecoders, TLC

\* Printable texts, a blank, control characters and bytes that are no ASCII;
\* the longest texts declare their length with a printable byte.
Letters == {0, 10, 65, 66, 255}
Texts == UNION {[1 .. n -> Letters] : n \in 0 .. 3} \cup {[i \in 1 .. 31 |-> 65], [i \in 1 .. 31 |-> 0]}

\* Known and unknown tags, flags that are none, numbers of two bytes.
TlvRecords == [tag : {1, 2, 6, 8}, payload : {<<>>, <<0>>, <<1>>, <<4>>, <<1, 0>>}]
SequencesUpTo(S, n) == UNION {[1 .. k -> S] : k \in 0 .. n}

MeaningsChosen ==
  [u \in {"cc06", "cc07", "cc0a", "cc0b", "cc0c", "cc11"} |-> Texts]
  @@ [u \in {"dd30", "dd31", "dd32", "dd33", "cc03"} |-> {0, 1, 2, 3}]
  @@ "cc09" :> SequencesUpTo(TlvRecords, 3)
  @@ "cc0f" :> [status : 0 .. 3, shots : {0, 2173}, seconds : {0, 300}, rest : {<<>>, <<0, 7>>}]
  @@ "cc10" :> [packs : SequencesUpTo({0, 86, 100, 101, 256}, 2), reserved : {0, 1}, power : 0 .. 4]
  @@ "cc40" :> SequencesUpTo({<<65>>, <<66, 65>>, <<255>>}, 2)
  @@ "ccab" :> SequencesUpTo({1, 2}, 2)
  @@ "dd21" :> [timezone : BOOLEAN, rest : {<<0>>, <<0, 0>>}]
  @@ [u \in {"cc0d", "ee02"} |-> [type : {0, 1, 256}, payload : {<<>>, <<7>>, <<8>>}]]
  @@ [u \in {"cc15", "cca1", "cc63"} |-> {<<>>, <<1>>, <<2>>}]
=============================================================================
