--------------------------- MODULE MCSessionFile ---------------------------
EXTENDS SessionFileChecks, TLC

CONSTANTS p1, p2, s1, t1, t2, o1, i1, i2

OnePrompt == {p1}
TwoPrompts == {p1, p2}
OneSettings == {s1}
NoSettings == {}
OneTurn == {t1}
TwoTurns == {t1, t2}
OneOp == {o1}

\* Sessions in the middle of a turn: one that began its operation, one with
\* another prompt and one with both, and what is branched from that.
Turn1 ==
  <<ItemRecord(1, InputItem(s1)), ItemRecord(2, InputItem(p1)),
    ItemRecord(3, TurnItem(t1, None)), ItemRecord(4, ResponseItem(t1))>>
Begun1 == Append(Turn1, ItemRecord(5, StatusItem(t1, o1, Value("ready"))))
Prompted1 == Append(Turn1, ItemRecord(5, InputItem(p2)))
Steered1 ==
  <<ItemRecord(1, InputItem(p1)), ItemRecord(2, TurnItem(t1, None)), ItemRecord(3, ResponseItem(t1)),
    ItemRecord(4, InputItem(p2)), ItemRecord(5, StatusItem(t1, o1, Value("ready")))>>
Branched1 == ForkLog(DecodeLog(Steered1).items, t1)
Recorded == {Steered1}
Rewindable == {Begun1, Prompted1, Branched1}

TwoInodes == {i1, i2}

\* Inodes are only compared.
Symmetry == Permutations(TwoInodes)
=============================================================================
