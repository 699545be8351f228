------------------------------ MODULE LogBridge ------------------------------
(***************************************************************************)
(* honeypots/external/log_bridge.py: a watcher polls a log that another    *)
(* process appends to and rotates, and publishes its lines.                *)
(*                                                                         *)
(* Every line is two units long, a head and a tail, so that a read can end *)
(* within a line.  Units are numbered as they are written, line n is the   *)
(* units 2n-1 and 2n, and the file is the units base+1..end: a rotation    *)
(* moves base.  A head or a tail alone is not JSON and is dropped.  The    *)
(* log is ASCII, as Cowrie writes it, so that the bytes the size counts    *)
(* are the characters read() counts.                                       *)
(***************************************************************************)
EXTENDS Integers, Sequences, FiniteSets, SequencesExt

CONSTANTS MaxLines,      \* bound on the lines written
          MaxRotations,  \* bound on the rotations of the log
          Splits         \* may a line reach the file in two writes

ASSUME BridgeAssumption ==
    MaxLines \in Nat /\ MaxRotations \in Nat /\ Splits \in BOOLEAN

VARIABLES base,       \* units rotated away
          end,        \* units written
          rotations,  \* rotations so far
          watch,      \* where the watcher is, or "off"
          pos,        \* _file_positions[path]
          stat,       \* current_size of a read that has begun
          batch,      \* lines read and not yet processed
          published,  \* history: lines handed to the publish callback
          excused,    \* history: lines the bridge is known to lose
          rotated,    \* history: is pos the size of a log rotated since
          moved,      \* history: is stat the size of a log rotated since
          raced       \* history: lines read from a log that had moved

logVars == <<base, end, rotations>>
raceVars == <<stat, moved, raced>>
vars == <<logVars, watch, pos, batch, published, excused, rotated, raceVars>>

LineNumbers == 1..MaxLines
Head1(n) == 2 * n - 1
Tail1(n) == 2 * n

TypeOK == /\ base \in 0..2 * MaxLines
          /\ end \in base..2 * MaxLines
          /\ rotations \in 0..MaxRotations
          /\ watch \in {"off", "polling", "opening", "publishing", "asleep"}
          /\ pos \in 0..2 * MaxLines
          /\ stat \in 0..2 * MaxLines
          /\ batch \subseteq LineNumbers
          /\ published \in Seq(LineNumbers)
          /\ excused \subseteq LineNumbers
          /\ rotated \in BOOLEAN
          /\ moved \in BOOLEAN
          /\ raced \subseteq LineNumbers

Init == /\ base = 0 /\ end = 0 /\ rotations = 0
        /\ watch = "off"
        /\ pos = 0
        /\ batch = {}
        /\ published = <<>>
        /\ excused = {}
        /\ rotated = FALSE
        /\ stat = 0 /\ moved = FALSE /\ raced = {}

size == end - base

(***************************************************************************)
(* The honeypot that writes the log                                        *)
(***************************************************************************)
AppendUnits == /\ \E k \in {1, 2} : /\ end + k <= 2 * MaxLines
                                    /\ Splits \/ (end + k) % 2 = 0
                                    /\ end' = end + k
               /\ UNCHANGED <<base, rotations, watch, pos, batch, published,
                              excused, rotated, raceVars>>

\* Lines that no read has passed: all those of a log that was rotated, whether
\* or not a read that raced with the rotation has returned some of them.
Seen == base + (IF rotated THEN 0 ELSE pos)
Unseen == {n \in LineNumbers : Head1(n) > Seen}

\* The log is rotated between two lines; what was not read of it is lost.
Rotate == /\ rotations < MaxRotations
          /\ end % 2 = 0
          /\ rotations' = rotations + 1
          /\ base' = end
          /\ rotated' = TRUE
          /\ moved' = (watch = "opening")
          /\ excused' = excused \cup {n \in Unseen : Tail1(n) <= end}
          /\ UNCHANGED <<end, watch, pos, batch, published, stat, raced>>

(***************************************************************************)
(* The bridge                                                              *)
(***************************************************************************)
\* Mutant: the log is read from its beginning after every start.
StartAtZero == /\ watch = "off"
               /\ watch' = "polling"
               /\ pos' = 0
               /\ rotated' = FALSE
               /\ UNCHANGED <<logVars, batch, published, excused, raceVars>>

\* start() skips what the log holds, a line that is half written included.
Start == /\ watch = "off"
         /\ watch' = "polling"
         /\ pos' = size
         /\ rotated' = FALSE
         /\ excused' = excused \cup {n \in LineNumbers : Head1(n) <= end
                                                         /\ n \notin Range(published)}
         /\ UNCHANGED <<logVars, batch, published, raceVars>>

\* Mutant: a log that shrank is not noticed.
LastPosKept(current) == pos

\* last_pos: a log that shrank is read from its beginning.
LastPos(current) == IF current < pos THEN 0 ELSE pos

\* Lines of a new log that has grown to the position in the old one: the poll
\* takes them for lines it has returned before.
Overgrown(current) == {n \in LineNumbers : /\ rotated /\ current >= pos
                                           /\ Head1(n) > base
                                           /\ Head1(n) <= base + pos}

\* The poll returns at once from a log that has the size of the position, that is
\* empty, or that is missing, as between a rotation and its next line.
ReadNothing == /\ watch = "polling"
               /\ watch' = "asleep"
               /\ excused' = excused \cup Overgrown(size)
               /\ UNCHANGED <<logVars, pos, batch, published, rotated, raceVars>>

\* _read_new_lines() asks for the size of the log and then opens it; the honeypot
\* is another process and may write to the log or rotate it in between.
Stat == /\ watch = "polling"
        /\ size # LastPos(size)
        /\ stat' = size
        /\ watch' = "opening"
        /\ UNCHANGED <<logVars, pos, batch, published, excused, rotated, moved, raced>>

\* Mutant: the size of the log is added to the position.
ReadAddsSize == /\ watch = "opening"
                /\ pos' = pos + stat
                /\ batch' = {n \in LineNumbers : /\ Head1(n) > base + LastPos(stat)
                                                /\ Tail1(n) <= base + stat}
                /\ watch' = IF batch' = {} THEN "asleep" ELSE "publishing"
                /\ rotated' = FALSE
                /\ stat' = 0
                /\ UNCHANGED <<logVars, published, excused, moved, raced>>

\* The read ends at the size that was asked for and moves the position there, past
\* a line that is half written then.  A log that was rotated meanwhile is read
\* from last_pos of the old one, as far as it goes, and left with that log's size
\* as the position.
Read == /\ watch = "opening"
        /\ pos' = stat
        /\ batch' = {n \in LineNumbers : /\ Head1(n) > base + LastPos(stat)
                                        /\ Tail1(n) <= base + stat
                                        /\ Tail1(n) <= end}
        /\ watch' = IF batch' = {} THEN "asleep" ELSE "publishing"
        /\ IF moved
           THEN raced' = raced \cup batch' /\ UNCHANGED excused
           ELSE /\ excused' = excused \cup Overgrown(stat)
                                      \cup {n \in LineNumbers : Head1(n) = base + stat}
                /\ UNCHANGED raced
        /\ rotated' = moved
        /\ stat' = 0 /\ moved' = FALSE
        /\ UNCHANGED <<logVars, published>>

\* The log is gone, or may not be read: open() raises.
OpenFails == /\ watch = "opening"
             /\ watch' = "asleep"
             /\ stat' = 0 /\ moved' = FALSE
             /\ UNCHANGED <<logVars, pos, batch, published, excused, rotated, raced>>

\* The watcher goes on with the rest of its batch, or sleeps when it is done.
Continue(rest) == /\ batch' = rest
                  /\ watch' = IF rest = {} THEN "asleep" ELSE "publishing"
                  /\ UNCHANGED <<logVars, pos, rotated, raceVars>>

First(lines) == CHOOSE n \in lines : \A m \in lines : n <= m

Publish == /\ watch = "publishing"
           /\ published' = Append(published, First(batch))
           /\ Continue(batch \ {First(batch)})
           /\ UNCHANGED excused

\* A line that is not JSON is dropped.
Drop == /\ watch = "publishing"
        /\ excused' = excused \cup {First(batch)}
        /\ Continue(batch \ {First(batch)})
        /\ UNCHANGED published

\* Mutant: the exception is caught outside the loop, the watcher's task ends.
RaiseEnds == /\ watch = "publishing"
             /\ watch' = "ended"
             /\ batch' = {}
             /\ excused' = excused \cup batch
             /\ UNCHANGED <<logVars, pos, published, rotated, raceVars>>

\* An exception, from a line that is JSON but no object or from the callback,
\* leaves the loop over the batch: the lines after it are lost with it.
Raise == /\ watch = "publishing"
         /\ excused' = excused \cup batch
         /\ Continue({})
         /\ UNCHANGED published

Wake == /\ watch = "asleep"
        /\ watch' = "polling"
        /\ UNCHANGED <<logVars, pos, batch, published, excused, rotated, raceVars>>

\* stop() cancels the watcher where it is suspended, which it is not while it is
\* opening the log; a kill of the process ends it there, too.
Stop == /\ watch # "off"
        /\ watch' = "off"
        /\ batch' = {}
        /\ excused' = excused \cup batch
        /\ stat' = 0 /\ moved' = FALSE
        /\ UNCHANGED <<logVars, pos, published, rotated, raced>>

WatchStep == \/ ReadNothing \/ Stat \/ Read \/ OpenFails
             \/ Publish \/ Drop \/ Raise \/ Wake

Next == AppendUnits \/ Rotate \/ Start \/ Stop \/ WatchStep

Spec == Init /\ [][Next]_vars

\* The watcher's sleep ends, the publish callback returns or raises, and a log
\* that is missing or cannot be opened is there again some time.
FairSpec == Spec /\ WF_vars(WatchStep) /\ SF_vars(Stat) /\ SF_vars(Read)

(***************************************************************************)
(* Properties                                                              *)
(***************************************************************************)
\* Across polls, rotations and restarts, lines are published once and in the
\* order they were written, but for those read from a log that was rotated after
\* its size was taken: the log is read again from its beginning unless it has
\* grown to the old size, and so they can come a second time, behind them lines
\* that are older.  No line comes a third time.
InOrderOnce ==
    \A i, j \in 1..Len(published) : i < j =>
        /\ published[i] < published[j] \/ published[i] \in raced
        /\ published[i] = published[j] =>
              \A k \in j + 1..Len(published) : published[k] # published[j]

\* A watched line is published, about to be, or not yet read, unless it was
\* written before start(), was half written when the log was read, is not JSON,
\* came with a line that raised, was in hand at stop(), or fell to a rotation.
NothingElseLost ==
    watch # "off" => \A n \in LineNumbers :
        Tail1(n) <= end => n \in Range(published) \cup batch \cup excused \cup Unseen

\* A line written while the bridge runs is published or lost in one of these
\* ways: whatever a line raises, the watcher goes on polling.
EventuallyBridged ==
    \A n \in LineNumbers :
        Tail1(n) <= end /\ watch # "off"
            ~> n \in Range(published) \cup excused \/ watch = "off"

\* README.md: Cowrie's JSON log is bridged automatically.  Watched from its
\* beginning, never rotated and with nothing but lines that can be published,
\* a line that the bridge has read past is published or about to be.
WatchedNext == \/ AppendUnits
               \/ end = 0 /\ Start
               \/ Stat \/ Read \/ Publish \/ Wake

WatchedSpec == Init /\ [][WatchedNext]_vars

WholeLinesBridged ==
    \A n \in LineNumbers :
        watch # "off" /\ Tail1(n) <= Seen => n \in Range(published) \cup batch
=============================================================================
