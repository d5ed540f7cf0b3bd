------------------------------- MODULE Service -------------------------------
(***************************************************************************)
(* The program around the search: main's protocol sniff, the UCI session   *)
(* with its command thread and search thread, and the reader of EPD lines  *)
(* that solves one position at a time or several on a pool of threads,     *)
(* printing in the order of the input.                                     *)
(*                                                                          *)
(* solve_line is one step that may take for ever: its answers are those the *)
(* position, the limits and a stop allow.  The goal is mate; formatting,    *)
(* move legality and the modes that answer in other formats are left out.   *)
(***************************************************************************)
EXTENDS Integers, Sequences, FiniteSets, FiniteSetsExt, SequencesExt

CONSTANTS
    Positions,      \* texts that stand for a position
    Readable,       \* those parse_fen4 accepts
    MateIn,         \* the length of the shortest mate of each, 0 if there is none
    After,          \* the position the move list of a "position" command leads to
    Start,          \* kStartFen
    Depth,          \* the depth searched
    ChunkFactor,    \* positions queued for each worker (4)
    Runs            \* [lines, forced, polite, config]: what is read, and how

ASSUME ServiceAssumption ==
    /\ Readable \subseteq Positions /\ Start \in Readable
    /\ MateIn \in [Positions -> Nat] /\ After \in [Positions -> Positions]
    /\ ChunkFactor \in Nat \ {0} /\ Depth \in Nat \ {0}

\* What a GUI sends, what a file of positions holds, and the options in force.
Commands ==
    [op : {"uci", "isready", "unknown", "stop", "quit"}]
    \cup [op : {"setoption"}, value : BOOLEAN]
    \cup [op : {"position"}, pos : Positions, moves : {"none", "legal", "illegal"}]
    \cup [op : {"go"}, budget : BOOLEAN]
FileLines == [op : {"epd"}, pos : Positions] \cup [op : {"comment", "blank"}]
Options == [portfolio : BOOLEAN, direct : BOOLEAN, budget : BOOLEAN, parallel : Nat \ {0}]

\* A session is forced, or opens with "uci"; what follows is all commands, or all lines.
IsSession(input, isForced) ==
    input \in Seq(Commands) /\ (~isForced /\ input # <<>> => input[1].op = "uci")
IsFile(input, isForced) == input \in Seq(FileLines) /\ ~isForced

ASSUME RunsAssumption ==
    \A c \in Runs :
        /\ c.config \in Options
        /\ IsSession(c.lines, c.forced) \/ IsFile(c.lines, c.forced)

VARIABLES
    lines, forced, polite,  \* the whole input, --uci, a GUI that waits for bestmove
    base,           \* [portfolio, direct, budget, parallel]
    mode,           \* "none" | "uci" | "epd"
    sent, read,     \* how many lines were sent, and read
    sniffed,        \* a line read by the sniff and not yet handled
    pc, command,    \* what the main thread does, and the command it handles
    position,       \* position_
    stop,           \* stop_
    search,         \* the search thread
    pending, next, mine, pool, buffers, done, emitted,      \* flush_pending
    answers         \* what was printed

uciVars  == <<position, stop, search>>
chunk    == <<pending, next, mine, pool, buffers, done, emitted>>
inputs   == <<lines, forced, polite>>
mainVars == <<mode, read, sniffed, pc, command, base>>
serviceVars == <<inputs, sent, mainVars, uciVars, chunk, answers>>

Nothing  == [op |-> "nothing"]
Idle     == [pc |-> "none", pos |-> Start, config |-> [none |-> 0], result |-> Nothing]
Main     == 0       \* the main thread as a worker, when no thread starts

-----------------------------------------------------------------------------
(* One solve_line. *)

Result(kind, n, via) == [kind |-> kind, depth |-> n, via |-> via]

Mates(p) == IF MateIn[p] = 0 THEN {} ELSE MateIn[p] .. Depth

\* What the line printed for position p may say.
Results(p, c, stopped) ==
    IF p \notin Readable THEN {Result("error", 0, FALSE)}
    ELSE {IF Mates(p) = {} THEN Result("none", 0, FALSE) ELSE Result("mate", MateIn[p], FALSE)}
           \cup (IF c.budget \/ stopped THEN {Result("timeout", 0, FALSE)} ELSE {})
           \cup (IF c.budget /\ c.portfolio THEN {Result("mate", n, TRUE) : n \in Mates(p)} ELSE {})
           \cup (IF c.direct THEN {Result("mate", n, FALSE) : n \in Mates(p)} ELSE {})

\* An answer: a mate of that length, whether it is said to be the shortest, that
\* there is none, that the search gave up, that the input was bad.
Answer(p, score, shortest, noMate, gaveUp, bad) ==
    [pos |-> p, score |-> score, shortest |-> shortest, noMate |-> noMate, gaveUp |-> gaveUp, bad |-> bad]

\* parse_result_line and what is said from it: what is neither a mate nor marked
\* as a timeout is "PROVED: no solution exists".
Rendered(p, c, r) ==
    Answer(p, IF r.kind = "mate" THEN r.depth ELSE 0, r.kind = "mate" /\ ~r.via /\ ~c.direct,
           r.kind \in {"none", "error"}, r.kind = "timeout", FALSE)

\* The line itself.
Line(p, c, r) ==
    Answer(p, IF r.kind = "mate" THEN r.depth ELSE 0, r.kind = "mate" /\ ~r.via /\ ~c.direct,
           r.kind = "none", r.kind = "timeout", r.kind = "error")

-----------------------------------------------------------------------------
ServiceInit ==
    /\ \E c \in Runs : lines = c.lines /\ forced = c.forced /\ polite = c.polite /\ base = c.config
    /\ mode = "none" /\ sent = 0 /\ read = 0 /\ sniffed = Nothing
    /\ pc = "start" /\ command = Nothing
    /\ position = Start /\ stop = FALSE /\ search = Idle
    /\ pending = <<>> /\ next = 1 /\ mine = [w \in 0 .. base.parallel |-> 0]
    /\ pool = [w \in 0 .. base.parallel |-> "off"]
    /\ buffers = <<>> /\ done = {} /\ emitted = 0
    /\ answers = <<>>

Count(op, n) == Cardinality({i \in 1 .. n : lines[i].op = op})

\* A polite GUI waits for bestmove before it asks, or changes, anything else.
Send ==
    /\ sent < Len(lines)
    /\ polite /\ lines[sent + 1].op \in {"go", "position", "setoption"}
         => Len(answers) = Count("go", sent)
    /\ sent' = sent + 1
    /\ UNCHANGED <<inputs, mainVars, uciVars, chunk, answers>>

MoreInput == read < sent
EndOfInput == read = Len(lines)

Goto(at) == pc' = at
TakeLine == MoreInput /\ read' = read + 1

-----------------------------------------------------------------------------
(* main *)

ForceUci ==
    /\ pc = "start" /\ forced
    /\ mode' = "uci" /\ Goto("read")
    /\ UNCHANGED <<inputs, sent, read, sniffed, command, base, uciVars, chunk, answers>>

\* The first line tells the protocol; it is handled again by whoever takes over.
Sniff ==
    /\ pc = "start" /\ ~forced /\ TakeLine
    /\ mode' = IF lines[read + 1].op = "uci" THEN "uci" ELSE "epd"
    /\ sniffed' = IF lines[read + 1].op = "blank" THEN Nothing ELSE lines[read + 1]
    /\ Goto("read")
    /\ UNCHANGED <<inputs, sent, command, base, uciVars, chunk, answers>>

\* The line the main loop handles now.
NextLine ==
    /\ pc = "read"
    /\ IF sniffed # Nothing THEN sniffed' = Nothing /\ UNCHANGED read
       ELSE TakeLine /\ UNCHANGED sniffed

Current == IF sniffed # Nothing THEN sniffed ELSE lines[read + 1]

NoMoreLines == pc = "read" /\ sniffed = Nothing /\ EndOfInput

-----------------------------------------------------------------------------
(* UciSession: commands are read while a search runs; what must not overlap  *)
(* it waits for it.                                                          *)

\* uci, isready, setoption and what is unknown are answered at once.
HandleAtOnce ==
    /\ mode = "uci" /\ NextLine
    /\ Current.op \in {"uci", "isready", "setoption", "unknown"}
    /\ base' = IF Current.op = "setoption" THEN [base EXCEPT !.portfolio = Current.value] ELSE base
    /\ UNCHANGED <<inputs, sent, mode, pc, command, uciVars, chunk, answers>>

\* position and go join the search before they do anything.
HandleAfterJoin ==
    /\ mode = "uci" /\ NextLine
    /\ Current.op \in {"position", "go"}
    /\ command' = Current /\ Goto("join")
    /\ UNCHANGED <<inputs, sent, mode, base, uciVars, chunk, answers>>

Mut_StopOnlyWaits ==
    /\ mode = "uci" /\ NextLine
    /\ Current.op \in {"stop", "quit"}
    /\ command' = Current /\ Goto("join")
    /\ UNCHANGED <<inputs, sent, mode, base, uciVars, chunk, answers>>

HandleStop ==
    /\ mode = "uci" /\ NextLine
    /\ Current.op \in {"stop", "quit"}
    /\ stop' = TRUE
    /\ command' = Current /\ Goto("join")
    /\ UNCHANGED <<inputs, sent, mode, base, position, search, chunk, answers>>

\* Joined: the thread, if there was one, has printed its answer.
Joined == pc = "join" /\ search.pc \in {"none", "done"}

\* A position with no moves is taken unread; one with moves must be readable.
SetPosition ==
    /\ Joined /\ command.op = "position"
    /\ position' = CASE command.moves = "none" -> command.pos
                     [] command.moves = "legal" /\ command.pos \in Readable -> After[command.pos]
                     [] OTHER -> position
    /\ Goto("read") /\ search' = Idle
    /\ UNCHANGED <<inputs, sent, mode, read, sniffed, command, base, stop, chunk, answers>>

Mut_StopIsNotReset ==
    /\ Joined /\ command.op = "go"
    /\ search' = [pc |-> "solve", pos |-> position, result |-> Nothing,
                  config |-> [base EXCEPT !.budget = command.budget]]
    /\ Goto("read")
    /\ UNCHANGED <<inputs, sent, mode, read, sniffed, command, base, position, stop, chunk, answers>>

Go ==
    /\ Joined /\ command.op = "go"
    /\ stop' = FALSE
    /\ search' = [pc |-> "solve", pos |-> position, result |-> Nothing,
                  config |-> [base EXCEPT !.budget = command.budget]]
    /\ Goto("read")
    /\ UNCHANGED <<inputs, sent, mode, read, sniffed, command, base, position, chunk, answers>>

Stopped ==
    /\ Joined /\ command.op \in {"stop", "quit"}
    /\ search' = Idle /\ Goto(IF command.op = "stop" THEN "read" ELSE "end")
    /\ UNCHANGED <<inputs, sent, mode, read, sniffed, command, base, position, stop, chunk, answers>>

\* The input is closed: ~UciSession joins without a stop.
CloseSession ==
    /\ mode = "uci" /\ NoMoreLines
    /\ search.pc \in {"none", "done"}
    /\ Goto("end")
    /\ UNCHANGED <<inputs, sent, mode, read, sniffed, command, base, uciVars, chunk, answers>>

\* The search thread.
SearchEnds ==
    /\ search.pc = "solve"
    /\ \E r \in Results(search.pos, search.config, stop) :
         search' = [search EXCEPT !.pc = "print", !.result = r]
    /\ UNCHANGED <<inputs, sent, mainVars, position, stop, chunk, answers>>

Report ==
    /\ search.pc = "print"
    /\ answers' = Append(answers, Rendered(search.pos, search.config, search.result))
    /\ search' = [search EXCEPT !.pc = "done"]
    /\ UNCHANGED <<inputs, sent, mainVars, position, stop, chunk>>

-----------------------------------------------------------------------------
(* EPD lines. *)

Skip ==
    /\ mode = "epd" /\ NextLine
    /\ Current.op = "comment"
    /\ UNCHANGED <<inputs, sent, mode, pc, command, base, uciVars, chunk, answers>>

\* solve_line prints nothing for a blank line.
Say(line, r) == IF line.op = "blank" THEN answers ELSE Append(answers, Line(line.pos, base, r))
LineResults(line) ==
    IF line.op = "blank" THEN {Result("none", 0, FALSE)} ELSE Results(line.pos, base, FALSE)

SolveNow ==
    /\ mode = "epd" /\ NextLine
    /\ Current.op # "comment" /\ base.parallel = 1
    /\ \E r \in LineResults(Current) : answers' = Say(Current, r)
    /\ UNCHANGED <<inputs, sent, mode, pc, command, base, uciVars, chunk>>

Queue ==
    /\ mode = "epd" /\ NextLine
    /\ Current.op # "comment" /\ base.parallel > 1
    /\ pending' = Append(pending, Current)
    /\ Goto(IF Len(pending) + 1 >= ChunkFactor * base.parallel THEN "spawn" ELSE "read")
    /\ UNCHANGED <<inputs, sent, mode, command, base, uciVars, next, mine, pool, buffers, done, emitted, answers>>

LastChunk ==
    /\ mode = "epd" /\ NoMoreLines
    /\ Goto(IF pending = <<>> THEN "end" ELSE "spawn")
    /\ UNCHANGED <<inputs, sent, mode, read, sniffed, command, base, uciVars, chunk, answers>>

\* The system may refuse a thread; with none, the main thread does the work.
Spawn ==
    /\ pc = "spawn"
    /\ \E n \in 0 .. Min({base.parallel, Len(pending)}) :
         /\ pool' = [w \in DOMAIN pool |->
                       IF w \in 1 .. n \/ (n = 0 /\ w = Main) THEN "claim" ELSE "off"]
         /\ Goto(IF n = 0 THEN "work" ELSE "emit")
    /\ next' = 1 /\ emitted' = 0 /\ done' = {}
    /\ buffers' = [i \in 1 .. Len(pending) |-> Nothing]
    /\ UNCHANGED <<inputs, sent, mode, read, sniffed, command, base, uciVars, pending, mine, answers>>

WorkerGoto(w, at) == pool' = [pool EXCEPT ![w] = at]

ClaimLine(w) ==
    /\ pool[w] = "claim"
    /\ next' = next + 1
    /\ mine' = [mine EXCEPT ![w] = next]
    /\ WorkerGoto(w, IF next > Len(pending) THEN "left" ELSE "solve")
    /\ UNCHANGED <<inputs, sent, mainVars, uciVars, pending, buffers, done, emitted, answers>>

SolveLine(w) ==
    /\ pool[w] = "solve"
    /\ \E r \in LineResults(pending[mine[w]]) : buffers' = [buffers EXCEPT ![mine[w]] = r]
    /\ WorkerGoto(w, "mark")
    /\ UNCHANGED <<inputs, sent, mainVars, uciVars, pending, next, mine, done, emitted, answers>>

MarkDone(w) ==
    /\ pool[w] = "mark"
    /\ done' = done \cup {mine[w]}
    /\ WorkerGoto(w, "claim")
    /\ UNCHANGED <<inputs, sent, mainVars, uciVars, pending, next, mine, buffers, emitted, answers>>

WorkedAlone ==
    /\ pc = "work" /\ pool[Main] = "left"
    /\ Goto("emit")
    /\ UNCHANGED <<inputs, sent, mode, read, sniffed, command, base, uciVars, chunk, answers>>

Mut_FirstFinishedFirst ==
    /\ pc = "emit" /\ emitted < Len(pending) /\ Cardinality(done) > emitted
    /\ emitted' = emitted + 1
    /\ \E i \in done : answers' = Say(pending[i], buffers[i])
    /\ UNCHANGED <<inputs, sent, mainVars, uciVars, pending, next, mine, pool, buffers, done>>

\* In the order of the input, each as soon as it is there.
Emit ==
    /\ pc = "emit" /\ emitted < Len(pending) /\ emitted + 1 \in done
    /\ emitted' = emitted + 1
    /\ answers' = Say(pending[emitted + 1], buffers[emitted + 1])
    /\ UNCHANGED <<inputs, sent, mainVars, uciVars, pending, next, mine, pool, buffers, done>>

JoinPool ==
    /\ pc = "emit" /\ emitted = Len(pending)
    /\ \A w \in DOMAIN pool : pool[w] \in {"off", "left"}
    /\ pending' = <<>> /\ Goto("read")
    /\ UNCHANGED <<inputs, sent, mode, read, sniffed, command, base, uciVars,
                   next, mine, pool, buffers, done, emitted, answers>>

-----------------------------------------------------------------------------
MainStep ==
    \/ ForceUci \/ Sniff
    \/ HandleAtOnce \/ HandleAfterJoin \/ HandleStop
    \/ SetPosition \/ Go \/ Stopped \/ CloseSession
    \/ Skip \/ SolveNow \/ Queue \/ LastChunk \/ Spawn \/ WorkedAlone \/ Emit \/ JoinPool

WorkerStep(w) == ClaimLine(w) \/ SolveLine(w) \/ MarkDone(w)

ServiceNext ==
    \/ Send \/ MainStep \/ SearchEnds \/ Report
    \/ \E w \in DOMAIN pool : WorkerStep(w)

Exited == pc = "end" /\ UNCHANGED serviceVars

ServiceSpec == ServiceInit /\ [][ServiceNext \/ Exited]_serviceVars

\* A search need not end before it is told to stop; the workers' searches end.
FairService ==
    /\ ServiceSpec
    /\ WF_serviceVars(Send) /\ WF_serviceVars(MainStep) /\ WF_serviceVars(Report)
    /\ WF_serviceVars(stop /\ SearchEnds)
    /\ WF_serviceVars(\E w \in DOMAIN pool : WorkerStep(w))

-----------------------------------------------------------------------------
(* Properties. *)

\* Those of the first n lines that ask for an answer, in the order they are sent.
Questions[n \in 0 .. Len(lines)] ==
    IF n = 0 THEN <<>>
    ELSE IF lines[n].op \in {"go", "epd"} THEN Append(Questions[n - 1], n) ELSE Questions[n - 1]

Asking == Questions[Len(lines)]

\* The position a line leaves: its own, or the last one that was accepted.
Moved(p, cmd) ==
    IF cmd.op # "position" THEN p
    ELSE CASE cmd.moves = "none" -> cmd.pos
           [] cmd.moves = "legal" /\ cmd.pos \in Readable -> After[cmd.pos]
           [] OTHER -> p

\* The position after the first n commands.
Named[n \in 0 .. Len(lines)] == IF n = 0 THEN Start ELSE Moved(Named[n - 1], lines[n])

\* The position a line asks about.
Asked(i) == IF lines[i].op = "epd" THEN lines[i].pos ELSE Named[i - 1]

Budget(i) == IF lines[i].op = "epd" THEN base.budget ELSE lines[i].budget

\* A stop or quit follows the i-th line before anything else is asked.
StoppedLater(i) ==
    \E j \in i + 1 .. Len(lines) :
        /\ lines[j].op \in {"stop", "quit"}
        /\ \A k \in i + 1 .. j - 1 : lines[k].op \notin {"go", "position"}

\* What a says is true of the position the i-th line asks about.
TrueOf(a, i) ==
    Asked(i) \in Readable =>
        /\ a.score # 0 => a.score \in Mates(Asked(i))
        /\ a.shortest => a.score = MateIn[Asked(i)]
        /\ a.noMate => Mates(Asked(i)) = {}
        /\ a.gaveUp => Budget(i) \/ StoppedLater(i)
        /\ ~a.bad

\* uci.h:201-206, mateprover.cpp:1555-1565.  The n-th answer is about the position
\* the n-th question named, whichever thread finished first, whatever the sniff
\* consumed and whatever was sent while a search ran.
AnswersInOrder ==
    /\ Len(answers) <= Len(Asking)
    /\ \A n \in DOMAIN answers : answers[n].pos = Asked(Asking[n])

\* uci.h:19-27, 318-366.  An answer about a position that could be read says what
\* is true of it: the mate exists, it is the shortest when that is said, there is
\* none within the depth when that is said, and a search that gave up had a
\* budget or was stopped.
ClaimsAreTrue == \A n \in DOMAIN answers : TrueOf(answers[n], Asking[n])

StopsAreAnswered ==
    \A i \in 1 .. sent : lines[i].op \in {"stop", "quit"} => Len(answers) >= Count("go", i)

\* uci.h:388-390.  A GUI that waits for its answers can stop any search, and the
\* lines of a file are all answered and the program ends.
NobodyWaitsForEver ==
    /\ polite => []<>StopsAreAnswered
    /\ (mode = "epd") ~> (pc = "end")

=============================================================================
