-------------------------------- MODULE Logger --------------------------------
(***************************************************************************)
(* Common::Logger (utils/logging.h): log() takes a format apart and pushes *)
(* characters and values, one queue element each; the logger's thread      *)
(* writes them to the file; the destructor waits for the queue to be empty,*)
(* stops the thread and closes the file.                                   *)
(*                                                                         *)
(* The queue is LFQueue's (utils/lock_free_queue.h).  Its write index is   *)
(* read and written in two steps here, as two threads may write to one     *)
(* logger: main and the trade engine's thread do                           *)
(* (TradeEngine::sendClientRequest from trading_main.cpp:95, and stop).    *)
(*                                                                         *)
(* A format is a sequence of tokens: "%", "%%" or a character.  An argument*)
(* is the sequence of what pushValue makes of it: a string is pushed       *)
(* character by character, a number is one element.                        *)
(***************************************************************************)
EXTENDS Integers, FiniteSets, SequencesExt

CONSTANTS Threads,       \* the threads that call log
          Forms,         \* the calls they make, names of Call
          Interrupts,    \* a signal may start the destructor inside a call
          Size,          \* LOG_QUEUE_SIZE
          MaxCalls       \* bound on the number of calls of each thread

ASSUME LoggerAssumption ==
    Size \in Nat \ {0, 1} /\ MaxCalls \in Nat /\ Interrupts \in BOOLEAN

(* The forms of call in the code, shortened: a file name and a number as    *)
(* everywhere, a percent sign, a plain string, and TCPServer's default      *)
(* callbacks, which have one "%" fewer than arguments.                      *)
Call == [usual   |-> [fmt |-> <<"%", ":", "%">>, args |-> << <<"f", "h">>, <<"42">> >>],
         percent |-> [fmt |-> <<"x", "%%">>, args |-> <<>>],
         default |-> [fmt |-> <<"%", "!">>, args |-> << <<"f">>, <<"42">> >>]]

ASSUME FormAssumption == Forms \subseteq DOMAIN Call

(* What a call of log is meant to print, from its format alone: the i-th    *)
(* "%" stands for the i-th argument.                                        *)
Printed(form) ==
    LET f == Call[form].fmt
        Nr(i) == Cardinality({j \in 1 .. i : f[j] = "%"})
        text[i \in 0 .. Len(f)] ==
          IF i = 0 THEN <<>>
          ELSE text[i - 1] \o (IF f[i] = "%" THEN Call[form].args[Nr(i)]
                               ELSE IF f[i] = "%%" THEN <<"%">> ELSE <<f[i]>>)
    IN  text[Len(f)]

VARIABLES store_, next_write_index_, next_read_index_, num_elements_,
          pc,            \* per thread: "idle", "log", "slot", "load", "store", "count"
          fmt, args, out,\* per thread: what is left of the call, and of the value being pushed
          index,         \* per thread: the write index it has loaded
          calls,         \* per thread: how often it has called log
          said,          \* history per thread: what its calls are meant to print
          pushed,        \* history per thread: pushValue calls that have returned
          fpc, next,     \* the logger's thread and the pointer its loop holds
          running_, file_,
          state          \* "alive", "draining", "joining", "closed", or "failed"

writers == <<pc, fmt, args, out, index, calls, said, pushed>>
flusher == <<fpc, next, file_, next_read_index_>>
logVars == <<store_, next_write_index_, num_elements_, writers, flusher, running_, state>>

nullptr == -1
Succ(i) == (i + 1) % Size
LogElement == Threads \X {"f", "h", ":", "42", "x", "%", "!"}
Outstanding == (next_write_index_ - next_read_index_) % Size

LogInit ==
    /\ store_ = [i \in 0 .. Size - 1 |-> <<>>]
    /\ next_write_index_ = 0 /\ next_read_index_ = 0 /\ num_elements_ = 0
    /\ pc = [t \in Threads |-> "idle"] /\ index = [t \in Threads |-> 0]
    /\ fmt = [t \in Threads |-> <<>>] /\ args = [t \in Threads |-> <<>>]
    /\ out = [t \in Threads |-> <<>>]
    /\ calls = [t \in Threads |-> 0] /\ said = [t \in Threads |-> <<>>]
    /\ pushed = [t \in Threads |-> 0]
    /\ fpc = "while" /\ next = nullptr /\ file_ = <<>>
    /\ running_ = TRUE /\ state = "alive"

-----------------------------------------------------------------------------
(* log(), in the thread t. *)

log(t, form) ==
    /\ state = "alive" /\ pc[t] = "idle" /\ calls[t] < MaxCalls
    /\ fmt' = [fmt EXCEPT ![t] = Call[form].fmt]
    /\ args' = [args EXCEPT ![t] = Call[form].args]
    /\ calls' = [calls EXCEPT ![t] = @ + 1]
    /\ said' = [said EXCEPT ![t] = @ \o Printed(form)]
    /\ pc' = [pc EXCEPT ![t] = "log"]
    /\ UNCHANGED <<store_, next_write_index_, num_elements_, out, index, pushed,
                   flusher, running_, state>>

(* A "%" without an argument left: "missing arguments to log()".  No "%"    *)
(* left for an argument: "extra arguments provided to log()".               *)
Mismatch(t) == /\ fmt[t] = <<>> => args[t] # <<>>
               /\ fmt[t] # <<>> => Head(fmt[t]) = "%" /\ args[t] = <<>>

(* What the next token of the format pushes. *)
Value(t) == CASE Head(fmt[t]) = "%"  -> Head(args[t])
              [] Head(fmt[t]) = "%%" -> <<"%">>
              [] OTHER               -> <<Head(fmt[t])>>

scan(t) ==
    /\ state = "alive" /\ pc[t] = "log" /\ fmt[t] # <<>> /\ ~Mismatch(t)
    /\ out' = [out EXCEPT ![t] = Value(t)]
    /\ args' = [args EXCEPT ![t] = IF Head(fmt[t]) = "%" THEN Tail(@) ELSE @]
    /\ fmt' = [fmt EXCEPT ![t] = Tail(@)]
    /\ pc' = [pc EXCEPT ![t] = "slot"]
    /\ UNCHANGED <<store_, next_write_index_, num_elements_, index, calls, said, pushed,
                   flusher, running_, state>>

return(t) ==
    /\ state = "alive" /\ pc[t] = "log" /\ fmt[t] = <<>> /\ ~Mismatch(t)
    /\ pc' = [pc EXCEPT ![t] = "idle"]
    /\ UNCHANGED <<store_, next_write_index_, num_elements_, fmt, args, out, index,
                   calls, said, pushed, flusher, running_, state>>

(* FATAL ends the process. *)
fatal(t) ==
    /\ state = "alive" /\ pc[t] = "log" /\ Mismatch(t)
    /\ state' = "failed"
    /\ UNCHANGED <<store_, next_write_index_, num_elements_, writers, flusher, running_>>

(* pushValue: the slot is filled, the index read, the index written, the    *)
(* element counted.  The queue never refuses: that a thread waits while the *)
(* ring is full is the bound of this model (LFQueue has the full ring).     *)
fillSlot(t) ==
    /\ state = "alive" /\ pc[t] = "slot" /\ Outstanding < Size - 1
    /\ store_' = [store_ EXCEPT ![next_write_index_] = <<t, Head(out[t])>>]
    /\ pc' = [pc EXCEPT ![t] = "load"]
    /\ UNCHANGED <<next_write_index_, num_elements_, fmt, args, out, index, calls,
                   said, pushed, flusher, running_, state>>

loadIndex(t) ==
    /\ state = "alive" /\ pc[t] = "load"
    /\ index' = [index EXCEPT ![t] = next_write_index_]
    /\ pc' = [pc EXCEPT ![t] = "store"]
    /\ UNCHANGED <<store_, next_write_index_, num_elements_, fmt, args, out, calls,
                   said, pushed, flusher, running_, state>>

storeIndex(t) ==
    /\ state = "alive" /\ pc[t] = "store"
    /\ next_write_index_' = Succ(index[t])
    /\ pc' = [pc EXCEPT ![t] = "count"]
    /\ UNCHANGED <<store_, num_elements_, fmt, args, out, index, calls, said, pushed,
                   flusher, running_, state>>

countElement(t) ==
    /\ state = "alive" /\ pc[t] = "count"
    /\ num_elements_' = num_elements_ + 1
    /\ out' = [out EXCEPT ![t] = Tail(@)]
    /\ pushed' = [pushed EXCEPT ![t] = @ + 1]
    /\ pc' = [pc EXCEPT ![t] = IF Len(out[t]) > 1 THEN "slot" ELSE "log"]
    /\ UNCHANGED <<store_, next_write_index_, fmt, args, index, calls, said, flusher,
                   running_, state>>

pushValue(t) == fillSlot(t) \/ loadIndex(t) \/ storeIndex(t) \/ countElement(t)

-----------------------------------------------------------------------------
(* flushQueue(), in the logger's thread. *)

peekQueue ==
    /\ state # "failed"
    /\ \/ fpc = "while" /\ running_
       \/ fpc = "next"
    /\ next' = IF next_read_index_ = next_write_index_ THEN nullptr
                                                       ELSE next_read_index_
    /\ fpc' = "for"
    /\ UNCHANGED <<store_, next_write_index_, num_elements_, writers, file_,
                   next_read_index_, running_, state>>

(* Nothing more for now: flush, a millisecond's sleep. *)
sleep ==
    /\ state # "failed"
    /\ fpc = "for" /\ (num_elements_ = 0 \/ next = nullptr)
    /\ fpc' = "while"
    /\ UNCHANGED <<store_, next_write_index_, num_elements_, writers, next, file_,
                   next_read_index_, running_, state>>

writeElement ==
    /\ state # "failed"
    /\ fpc = "for" /\ num_elements_ # 0 /\ next # nullptr
    /\ file_' = Append(file_, store_[next])
    /\ fpc' = "index"
    /\ UNCHANGED <<store_, next_write_index_, num_elements_, writers, next,
                   next_read_index_, running_, state>>

updateReadIndex ==
    /\ state # "failed" /\ fpc = "index"
    /\ next_read_index_' = Succ(next_read_index_)
    /\ fpc' = "count"
    /\ UNCHANGED <<store_, next_write_index_, num_elements_, writers, next, file_,
                   running_, state>>

(* Faulty: the loop gives up the processor before it has counted down. *)
uncountNothing ==
    /\ state # "failed" /\ fpc = "count"
    /\ fpc' = "next"
    /\ UNCHANGED <<store_, next_write_index_, num_elements_, writers, next, file_,
                   next_read_index_, running_, state>>

(* The loop tests size() first, so that the ASSERT on it holds (LFQueue). *)
uncountElement ==
    /\ state # "failed" /\ fpc = "count"
    /\ num_elements_' = num_elements_ - 1
    /\ fpc' = "next"
    /\ UNCHANGED <<store_, next_write_index_, writers, next, file_,
                   next_read_index_, running_, state>>

flushQueue == peekQueue \/ sleep \/ writeElement \/ updateReadIndex \/ uncountElement

-----------------------------------------------------------------------------
(* The destructor.  The component a logger belongs to has stopped its       *)
(* thread; exchange_main's own is deleted by the handler of a signal, which *)
(* interrupts whatever main is doing and does not return to it.             *)
DeleteLogger ==
    /\ state = "alive"
    /\ Interrupts \/ \A t \in Threads : pc[t] = "idle"
    /\ state' = "draining"
    /\ UNCHANGED <<store_, next_write_index_, num_elements_, writers, flusher, running_>>

(* Faulty: the destructor does not wait for the queue. *)
drainedAtOnce ==
    /\ state = "draining"
    /\ running_' = FALSE /\ state' = "joining"
    /\ UNCHANGED <<store_, next_write_index_, num_elements_, writers, flusher>>

(* while (queue_.size()) sleep 1s;  running_ = false; *)
drained ==
    /\ state = "draining" /\ num_elements_ = 0
    /\ running_' = FALSE /\ state' = "joining"
    /\ UNCHANGED <<store_, next_write_index_, num_elements_, writers, flusher>>

(* logger_thread_->join(); file_.close(); *)
join ==
    /\ state = "joining" /\ fpc = "while" /\ ~running_
    /\ state' = "closed"
    /\ UNCHANGED <<store_, next_write_index_, num_elements_, writers, flusher, running_>>

Done == state \in {"closed", "failed"} /\ UNCHANGED logVars

Logging == \E t \in Threads : scan(t) \/ return(t) \/ fatal(t) \/ pushValue(t)
LogNext == \/ \E t \in Threads, form \in Forms : log(t, form)
           \/ Logging \/ flushQueue \/ DeleteLogger \/ drained \/ join \/ Done

LogSpec == LogInit /\ [][LogNext]_logVars

(* A call goes on, the logger's thread is never blocked, and the destructor *)
(* sleeps and looks again.  Nobody has to log or to end.                    *)
FairLogSpec ==
    /\ LogSpec /\ WF_logVars(flushQueue) /\ WF_logVars(drained) /\ WF_logVars(join)
    /\ \A t \in Threads : WF_logVars(scan(t) \/ return(t) \/ fatal(t) \/ pushValue(t))

-----------------------------------------------------------------------------
(* What the file holds of t's calls. *)
Logged(t) ==
    LET mine[i \in 0 .. Len(file_)] ==
          IF i = 0 THEN <<>>
          ELSE IF file_[i] # <<>> /\ file_[i][1] = t THEN Append(mine[i - 1], file_[i][2])
          ELSE mine[i - 1]
    IN  mine[Len(file_)]

(* The file holds what each thread logged, in order and nothing else; once  *)
(* it is closed it holds every element whose pushValue has returned, all of *)
(* a call that has, although the destructor looks at size() only, which is  *)
(* behind the indices (logging.h:163).                                      *)
FileIsLog ==
    /\ \A i \in DOMAIN file_ : file_[i] \in LogElement
    /\ \A t \in Threads :
        /\ IsPrefix(Logged(t), said[t])
        /\ state = "closed" => Len(Logged(t)) >= pushed[t]
        /\ state = "closed" /\ pc[t] = "idle" => Logged(t) = said[t]

(* The destructor returns: size() gets to 0 and the thread is not asleep    *)
(* for good (logging.h:163-168).                                            *)
DestructorReturns == state = "draining" ~> state = "closed"

(* No call of the system has more or fewer arguments than its format has    *)
(* "%" (logging.h:135 and :144).                                            *)
NeverFatal == state # "failed"
=============================================================================
