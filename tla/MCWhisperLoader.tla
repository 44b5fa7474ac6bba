------------------------- MODULE MCWhisperLoader ---------------------------
(* Instantiates WhisperLoader: two files under the root, loaded into 5m7d, *)
(* each holding one of a few whisper files.                               *)
EXTENDS WhisperLoader

\* Floats: 1.5, 100, 0, -0.075, 2.5e-10 and 1234567890123.
MCZero    == [neg |-> FALSE, digits |-> <<>>, exp |-> 0]
MCOneHalf == [neg |-> FALSE, digits |-> <<1, 5>>, exp |-> 0]
MCHundred == [neg |-> FALSE, digits |-> <<1>>, exp |-> 2]
MCNegSmall == [neg |-> TRUE, digits |-> <<7, 5>>, exp |-> -2]
MCTiny    == [neg |-> FALSE, digits |-> <<2, 5>>, exp |-> -10]
MCCounter == [neg |-> FALSE, digits |-> <<1, 2, 3, 4, 5, 6, 7, 8, 9, 0, 1, 2, 3>>, exp |-> 12]
MCValues  == {MCZero, MCOneHalf, MCHundred, MCNegSmall, MCTiny, MCCounter}

\* A whisper file of the usual schema, 1m for a day and 5m for a week: its
\* 5m archive has an empty slot, a point of value v and a point of 1.5.
MCFits(v) ==
    <<[secondsPerPoint |-> 60, points |-> 1440, slots |-> <<<<600, MCOneHalf>>>>],
      [secondsPerPoint |-> 300, points |-> 2016,
       slots |-> <<<<0, MCZero>>, <<900, v>>, <<1200, MCOneHalf>>>>]>>

\* A whisper file keeping 5m points for 30 days: longer than 5m7d keeps.
MCTooLong ==
    <<[secondsPerPoint |-> 300, points |-> 8640, slots |-> <<<<900, MCOneHalf>>>>]>>

MCHeaders == {MCFits(v) : v \in MCValues} \cup {MCTooLong}

MCRootDir == <<"data">>
MCFiles == {[dir |-> <<"data", "pod2">>, base |-> "cpu"],
            [dir |-> <<"data", "pod2", "app">>, base |-> "mem"]}

====
