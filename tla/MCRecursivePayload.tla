-------------------------- MODULE MCRecursivePayload --------------------------
(***************************************************************************)
(* Small instances of RecursivePayload and of CircuitBitStream for TLC, in *)
(* one run: of the two, only one moves in a behaviour.                     *)
(***************************************************************************)
EXTENDS RecursivePayload, CircuitBitStream

\* A frame of some data, and one whose CRC is wrong.
GoodFrame(tag, data) == <<Len(data), tag>> \o data \o Crc(<<tag>>, data)
BadFrame(tag, data) == <<Len(data), tag>> \o data \o <<(Crc(<<tag>>, data)[1] + 1) % Base>>

\* Runs of frames: equal, with a shorter or a longer last one, cut by another tag, by a
\* wrong CRC, by a length beyond the bound, and two runs one after another.
MCFrames ==
    {GoodFrame(1, <<1, 2>>) \o GoodFrame(1, <<3, 0>>),
     GoodFrame(1, <<1, 2>>) \o GoodFrame(1, <<3, 0>>) \o GoodFrame(1, <<0>>),
     GoodFrame(1, <<2>>) \o GoodFrame(1, <<2>>) \o GoodFrame(1, <<1, 3>>),
     GoodFrame(1, <<2>>) \o GoodFrame(1, <<0, 1>>) \o GoodFrame(1, <<1, 3>>),
     GoodFrame(1, <<2>>) \o GoodFrame(1, <<0>>) \o GoodFrame(2, <<1>>) \o GoodFrame(2, <<3>>),
     GoodFrame(1, <<2>>) \o GoodFrame(1, <<0>>) \o BadFrame(1, <<1>>) \o GoodFrame(1, <<3>>),
     GoodFrame(1, <<1>>) \o GoodFrame(1, <<0>>) \o GoodFrame(1, <<1, 2, 3>>),
     GoodFrame(0, <<>>) \o GoodFrame(0, <<>>) \o GoodFrame(0, <<1>>),
     BadFrame(1, <<1>>) \o GoodFrame(1, <<1>>), <<1, 2, 3, 0, 1>>, <<>>}
MCFramed == {before \o frames \o after : before \in {<<>>, <<2>>, <<1, 0>>}, frames \in MCFrames, after \in {<<>>, <<1, 1>>}}
               \cup {GoodFrame(1, <<1, 2>>) \o GoodFrame(1, <<2, 3>>), GoodFrame(3, <<1>>) \o GoodFrame(3, <<2, 2>>)}

\* Growing tables of three numbers whose gaps are on both sides of a byte, of half a word
\* and of powers of two, longer ones, and tables that do not grow or have a part too many.
MCTable(width, numbers) == FlattenSeq([i \in DOMAIN numbers |-> ToBytes(numbers[i], width)])
MCGrowing ==
    {s \in {MCTable(2, <<a, b, c>>) : a, b, c \in {0, 1, 2, 4, 7, 8, 12, 14, 15}} : Grows(Numbers(s, 2))}
MCNumeric ==
    MCGrowing
      \cup {MCTable(2, numbers) : numbers \in {<<1, 3, 7, 15>>, <<0, 3, 4, 15>>, <<0, 1, 9, 13>>, <<1, 2, 6, 8>>, <<0, 1, 7, 11>>, <<3, 4, 8, 12>>, <<0, 2, 2>>, <<4, 2, 9>>, <<1, 6>>}}
      \cup {<<0, 1, 3>>, <<1, 2, 3>>, <<0, 1, 2, 3>>, <<1, 0, 2, 0, 3, 0, 1>>}
\* Primes of one and of two bytes: all, one missing, beyond the bound, a single one.
MCPrimes ==
    {MCTable(2, numbers) : numbers \in {<<2, 3, 5, 7>>, <<5, 7, 11>>, <<7, 11, 13>>, <<3, 5, 11>>, <<3, 5, 7, 9>>, <<11>>, <<9>>, <<2, 3>>}}
      \cup {<<2, 3>>, <<3>>, <<1, 2, 3>>}

\* Blocks that repeat: one only, as many as a width can tell apart and one more, a tail.
MCRepeats ==
    {<<1, 1, 1, 1>>, <<1, 1, 1, 2>>, <<0, 1, 0, 1>>, <<3, 1, 3, 2, 1, 3>>, <<0, 1, 2, 3, 1, 0>>,
     <<1, 2, 1, 2, 1, 2, 1, 2, 3>>, <<0, 1, 2, 3, 0, 1, 0, 1, 2, 3>>, <<0, 1, 2, 3, 2, 2, 0, 1, 2, 2, 2, 3, 1>>,
     <<0, 0, 0, 1, 0, 2, 0, 3, 1, 1, 0, 3, 0, 0, 2>>}

\* Archives: two tensors among other entries, with a directory behind them, with a name, a
\* method, sizes or flags that make one no tensor, with data that looks like a header, cut
\* short, and with something else in between.
Local(flags, method, uncompressed, name, extra, data) ==
    <<LocalHeader, flags, method, Len(data), uncompressed, Len(name), Len(extra)>> \o name \o extra \o data
TensorEntry(extra, data) == Local(0, 0, Len(data), <<1>>, extra, data)
MCArchives ==
    LET two == TensorEntry(<<>>, <<3, 0>>) \o TensorEntry(<<2>>, <<1, 2, 3>>)
        other == {Local(0, 0, 2, <<2>>, <<>>, <<3, 1>>), Local(0, 0, 1, <<1>>, <<>>, <<3>>), Local(0, 2, 2, <<1>>, <<>>, <<3, 1>>),
                  Local(0, 0, 3, <<1>>, <<>>, <<3, 1>>), Local(1, 0, 2, <<1>>, <<>>, <<3, 1>>), <<>>}
        directory == <<CentralHeader, 0, 0, 0, 0, 0, 1>>
    IN {two \o o \o directory : o \in other} \cup {o \o two : o \in other}
         \cup {two, two \o <<3>>, two \o <<0, 0, 0, 0, 0, 0, 0>>, TensorEntry(<<>>, <<3, 0>>) \o TensorEntry(<<>>, <<1, 2>>),
               SubSeq(two, 1, Len(two) - 1), two \o SubSeq(two, 1, Len(two) - 1),
               TensorEntry(<<1, 0, 0>>, <<1, 0, 0>>) \o TensorEntry(<<>>, <<1, 0, 0>>) \o directory}
MCTensorNames == {<<1>>}
MCWidths == <<2, 1>>
MCChunkSizes == {1, 2}

MCInputs == MCFramed \cup MCNumeric \cup MCPrimes \cup MCRepeats \cup MCArchives

\* The deflate streams of some runs, and what preflate makes of them: the plain text at
\* the lengths where the transforms change, corrections of one or two chain lengths.
MCDeflates == {<<2, 2>>, <<2>>, <<2, 1>>, <<2, 3>>}
Answer(plain, corrections) == [plain |-> plain, corrections |-> corrections]
MCPreflated(deflate) ==
    CASE deflate = <<2, 2>> -> {Answer(<<1, 3, 0, 2, 2, 1>>, <<2>>), Answer(<<1, 3, 0, 2, 2, 1>>, <<3, 1, 2>>)}
      [] deflate = <<2>> -> {Answer(<<2, 1, 3, 3, 0, 1, 2, 3>>, <<1, 2, 2, 0>>)}
      [] deflate = <<2, 1>> -> {Answer(<<3>>, <<>>)}
      [] deflate = <<2, 3>> -> {}

\* For the plain text of six bytes and for whole inputs a plan of every kind, periods and
\* heads on both sides of the size of a nibble; a few for blocks and corrections.
AllPlans ==
    {Identity, Plan(1, 0, 0), Plan(2, 0, 0), Plan(3, 0, 0), Plan(16, 0, 0), Plan(17, 0, 0)}
      \cup {Plan(4, 4, 2), Plan(14, 4, 2), Plan(15, 3, 1), Plan(4, 9, 8)}
      \cup {Plan(kind, 3, 0) : kind \in 5..9} \cup {Plan(kind, 4, 2) : kind \in 10..13}
      \cup {Plan(18, 4, 1), Plan(19, 4, 2), Plan(20, 4, 0), Plan(21, 3, 0), Plan(22, 3, 0)}
MCPlans(data) ==
    CASE Len(data) \in 0..2 -> {Identity, Plan(4, 9, 8)}
      [] Len(data) = 3 -> {Identity, Plan(22, 3, 0)}
      [] Len(data) = 4 -> {Plan(1, 0, 0), Plan(10, 3, 2)}
      [] Len(data) = 8 -> {Plan(8, 8, 0), Plan(4, 7, 1), Plan(18, 4, 1)}
      [] OTHER -> AllPlans
MCCodecs == {0, 3}
MCSplits == {2, 3}
MCBudgets == {7, 100}

\* Plans and nodes whose bits have different lengths, and nodes that differ in one field.
MCCircuits ==
    {[type |-> "plan", value |-> plan] : plan \in {Identity, Plan(4, 7, 1), Plan(22, 8, 1)}}
      \cup {[type |-> "node", value |-> node] :
               node \in {Root, Node(2, 1, 0, 0, 4, 7, 1), Node(5, 1, 0, 1, 4, 7, 1), Node(3, 9, 1, 0, 222, 64, 0)}}

\* Only one of the two moves.
NoPacking == /\ stage = "done" /\ input = <<>> /\ budget = 0 /\ start = 0 /\ cursor = 0 /\ run = NoFrames
             /\ best = NoRun /\ stream = Nothing /\ pack = Nothing /\ output = <<>>
NoWriting == /\ written = <<>> /\ ids = <<>> /\ bits = <<>> /\ interning = <<>>
             /\ reading = TRUE /\ bitPos = 0 /\ table = <<>> /\ decoded = <<>>
MCInit == \/ Init /\ NoWriting
          \/ NoPacking /\ StreamInit
MCNext == \/ Next /\ UNCHANGED streamVars
          \/ StreamNext /\ UNCHANGED vars
MCSpec == MCInit /\ [][MCNext]_<<vars, streamVars>>

================================================================================
