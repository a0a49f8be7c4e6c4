--------------------------- MODULE ProgramsProofs ---------------------------
(***************************************************************************)
(* The two programs never use an object they have deleted, wherever the    *)
(* end begins, as long as threads keep up with the sleeps (Prompt) and one *)
(* SIGINT at most is sent.  Nobody joins a thread, so the argument is over *)
(* positions: IInv says of every object, flag and thread what it is from   *)
(* where main and the handler are in their scripts, and an object's place  *)
(* of deletion comes after a sleep that comes after its flag is cleared.   *)
(* Both assumptions are needed: Programs_slow and Programs_twice are runs  *)
(* without one of them, and both end in a use of what is gone.             *)
(*                                                                         *)
(* The second part is about the logger every component is given: the file  *)
(* holds what its calls print, in order, if one thread calls it.           *)
(***************************************************************************)
EXTENDS Programs, Logger, FiniteSetTheorems, SequenceTheorems, WellFoundedInduction, TLAPS

Objects == Components \cup {"logger"}
Steps == [op : {"new", "run", "thread", "wait", "forever", "stop", "sleep", "free", "exit",
                "random", "silence", "responses", "updates"},
          c : Objects \cup {"none"}]

-----------------------------------------------------------------------------
(* What the two mains and the handler do, step by step.                     *)
LEMMA ExchangeMain ==
    /\ exchange_main \in Seq(Steps) /\ Len(exchange_main) = 17
    /\ exchange_main[1] = Do("new", "logger")
    /\ exchange_main[2] = Do("new", "matching_engine")
    /\ exchange_main[3] = Do("run", "matching_engine")
    /\ exchange_main[4] = Do("thread", "matching_engine")
    /\ exchange_main[5] = Do("wait", "matching_engine")
    /\ exchange_main[6] = Do("new", "publisher")
    /\ exchange_main[7] = Do("run", "publisher")
    /\ exchange_main[8] = Do("thread", "publisher")
    /\ exchange_main[9] = Do("wait", "publisher")
    /\ exchange_main[10] = Do("run", "synthesizer")
    /\ exchange_main[11] = Do("thread", "synthesizer")
    /\ exchange_main[12] = Do("wait", "synthesizer")
    /\ exchange_main[13] = Do("new", "order_server")
    /\ exchange_main[14] = Do("run", "order_server")
    /\ exchange_main[15] = Do("thread", "order_server")
    /\ exchange_main[16] = Do("wait", "order_server")
    /\ exchange_main[17] = Do("forever", "logger")
  BY SMT DEF exchange_main, New, Start, StartPublisher, Steps, Do, Objects, Components, Exchange

LEMMA SignalHandler ==
    /\ signal_handler \in Seq(Steps) /\ Len(signal_handler) = 16
    /\ signal_handler[1] = Do("sleep", "logger")
    /\ signal_handler[2] = Do("free", "logger")
    /\ signal_handler[3] = Do("stop", "matching_engine")
    /\ signal_handler[4] = Do("sleep", "matching_engine")
    /\ signal_handler[5] = Do("free", "matching_engine")
    /\ signal_handler[6] = Do("stop", "publisher")
    /\ signal_handler[7] = Do("stop", "synthesizer")
    /\ signal_handler[8] = Do("sleep", "publisher")
    /\ signal_handler[9] = Do("stop", "synthesizer")
    /\ signal_handler[10] = Do("free", "synthesizer")
    /\ signal_handler[11] = Do("free", "publisher")
    /\ signal_handler[12] = Do("stop", "order_server")
    /\ signal_handler[13] = Do("sleep", "order_server")
    /\ signal_handler[14] = Do("free", "order_server")
    /\ signal_handler[15] = Do("sleep", "none")
    /\ signal_handler[16] = Do("exit", "none")
  BY SMT DEF signal_handler, Delete, DeletePublisher, DeleteSynthesizer, Steps, Do,
             Objects, Components, Exchange

LEMMA TradingMain ==
    /\ trading_main \in Seq(Steps) /\ Len(trading_main) = 34
    /\ trading_main[1] = Do("new", "logger")
    /\ trading_main[2] = Do("new", "trade_engine")
    /\ trading_main[3] = Do("run", "trade_engine")
    /\ trading_main[4] = Do("thread", "trade_engine")
    /\ trading_main[5] = Do("wait", "trade_engine")
    /\ trading_main[6] = Do("new", "order_gateway")
    /\ trading_main[7] = Do("run", "order_gateway")
    /\ trading_main[8] = Do("thread", "order_gateway")
    /\ trading_main[9] = Do("wait", "order_gateway")
    /\ trading_main[10] = Do("new", "consumer")
    /\ trading_main[11] = Do("run", "consumer")
    /\ trading_main[12] = Do("thread", "consumer")
    /\ trading_main[13] = Do("wait", "consumer")
    /\ trading_main[14] = Do("sleep", "none")
    /\ trading_main[15] = Do("random", "trade_engine")
    /\ trading_main[16] = Do("silence", "trade_engine")
    /\ trading_main[17] = Do("responses", "trade_engine")
    /\ trading_main[18] = Do("updates", "trade_engine")
    /\ trading_main[19] = Do("stop", "trade_engine")
    /\ trading_main[20] = Do("stop", "consumer")
    /\ trading_main[21] = Do("stop", "order_gateway")
    /\ trading_main[22] = Do("sleep", "none")
    /\ trading_main[23] = Do("free", "logger")
    /\ trading_main[24] = Do("stop", "trade_engine")
    /\ trading_main[25] = Do("sleep", "trade_engine")
    /\ trading_main[26] = Do("free", "trade_engine")
    /\ trading_main[27] = Do("stop", "consumer")
    /\ trading_main[28] = Do("sleep", "consumer")
    /\ trading_main[29] = Do("free", "consumer")
    /\ trading_main[30] = Do("stop", "order_gateway")
    /\ trading_main[31] = Do("sleep", "order_gateway")
    /\ trading_main[32] = Do("free", "order_gateway")
    /\ trading_main[33] = Do("sleep", "none")
    /\ trading_main[34] = Do("exit", "none")
  BY SMTT(60) DEF trading_main, New, Start, StopEngine, Delete, Steps, Do, Objects, Components,
                  Trading

-----------------------------------------------------------------------------
(* Where main makes an object, sets its flag and starts its thread ...      *)
NewAt == [logger |-> 1, matching_engine |-> 2, publisher |-> 6, synthesizer |-> 6,
          order_server |-> 13, trade_engine |-> 2, order_gateway |-> 6, consumer |-> 10]
RunAt == [matching_engine |-> 3, publisher |-> 7, synthesizer |-> 10, order_server |-> 14,
          trade_engine |-> 3, order_gateway |-> 7, consumer |-> 11]
ThreadAt == [matching_engine |-> 4, publisher |-> 8, synthesizer |-> 11, order_server |-> 15,
             trade_engine |-> 4, order_gateway |-> 8, consumer |-> 12]

(* ... and where the handler, or main of the trading program, first clears  *)
(* the flag, has slept after that, and deletes the object.                  *)
StopAt == [matching_engine |-> 3, publisher |-> 6, synthesizer |-> 7, order_server |-> 12,
           trade_engine |-> 19, order_gateway |-> 21, consumer |-> 20]
SleepAt == [matching_engine |-> 4, publisher |-> 8, synthesizer |-> 8, order_server |-> 13,
            trade_engine |-> 22, order_gateway |-> 22, consumer |-> 22]
FreeAt == [matching_engine |-> 5, publisher |-> 11, synthesizer |-> 10, order_server |-> 14,
           trade_engine |-> 26, order_gateway |-> 32, consumer |-> 29,
           logger |-> IF program = "exchange" THEN 2 ELSE 23]

Own == IF program = "exchange" THEN Exchange ELSE Trading
Ending == IF program = "trading" THEN at[main] ELSE IF 1 \in Handlers THEN at[1] ELSE 0

LEMMA Order ==
    ASSUME NEW c \in Components
    PROVE  /\ NewAt[c] \in Nat /\ RunAt[c] \in Nat /\ ThreadAt[c] \in Nat
           /\ StopAt[c] \in Nat /\ SleepAt[c] \in Nat /\ FreeAt[c] \in Nat
           /\ 0 < NewAt[c] /\ NewAt[c] < RunAt[c] /\ RunAt[c] < ThreadAt[c]
           /\ 0 < StopAt[c] /\ StopAt[c] < SleepAt[c] /\ SleepAt[c] < FreeAt[c]
           /\ c \in Trading => ThreadAt[c] < 17 /\ 18 < StopAt[c]
  BY SMT DEF NewAt, RunAt, ThreadAt, StopAt, SleepAt, FreeAt, Components, Exchange, Trading

(* What a thread works with is there before it and goes after it.           *)
LEMMA UsesInOrder ==
    ASSUME NEW c \in Components, NEW o \in Uses(c)
    PROVE  /\ o \in Components /\ NewAt[o] = NewAt[c] /\ SleepAt[c] < FreeAt[o]
           /\ c \in Own => o \in Own
  BY SMT DEF NewAt, SleepAt, FreeAt, Uses, Components, Exchange, Trading, Own

(* What it means that x, the step k of a main, begins something ...         *)
BeginsAt(x, k, mine) ==
    /\ \A o \in mine \cup {"logger"} :
         NewAt[o] = k <=> /\ x.op = "new"
                          /\ \/ o = x.c
                             \/ o = "synthesizer" /\ x.c = "publisher"
    /\ \A c \in mine : RunAt[c] = k <=> x.op = "run" /\ x.c = c
    /\ \A c \in mine : ThreadAt[c] = k <=> x.op = "thread" /\ x.c = c
    /\ x.op \in {"run", "thread"} => x.c \in mine
    /\ x.op = "new" => x.c \in mine \cup {"logger"}

(* ... and x, the step k of a main or of a handler, ends something.         *)
EndsAt(x, k, mine) ==
    /\ \A o \in mine \cup {"logger"} : FreeAt[o] = k <=> x.op = "free" /\ x.c = o
    /\ x.op = "free" => x.c \in mine \cup {"logger"}
    /\ x.op = "stop" => x.c \in mine /\ StopAt[x.c] <= k /\ k < FreeAt[x.c]
    /\ \A c \in mine : StopAt[c] = k => x.op = "stop" /\ x.c = c
    /\ \A c \in mine : SleepAt[c] = k =>
         /\ x.op = "sleep"
         /\ x.c = "none" \/ (x.c \in mine /\ NewAt[x.c] = NewAt[c])

LEMMA ExchangeBegins ==
    \A k \in 1 .. 17 : BeginsAt(exchange_main[k], k, Exchange)
  <1> SUFFICES ASSUME NEW k \in 1 .. 17 PROVE BeginsAt(exchange_main[k], k, Exchange)
    OBVIOUS
  <1>x. PICK x : x = exchange_main[k]
    OBVIOUS
  <1>1. x.op = "new" => x.c \in Exchange \cup {"logger"}
    BY <1>x, ExchangeMain, SMTT(30) DEF Do, Exchange
  <1>2. x.op \in {"run", "thread"} => x.c \in Exchange
    BY <1>x, ExchangeMain, SMTT(30) DEF Do, Exchange
  <1>3. ASSUME NEW c \in Exchange PROVE RunAt[c] = k <=> x.op = "run" /\ x.c = c
    BY <1>x, ExchangeMain, SMTT(60) DEF Do, Exchange, RunAt
  <1>4. ASSUME NEW c \in Exchange PROVE ThreadAt[c] = k <=> x.op = "thread" /\ x.c = c
    BY <1>x, ExchangeMain, SMTT(60) DEF Do, Exchange, ThreadAt
  <1>5. ASSUME NEW o \in Exchange \cup {"logger"}
        PROVE  NewAt[o] = k <=> /\ x.op = "new"
                                /\ \/ o = x.c
                                   \/ o = "synthesizer" /\ x.c = "publisher"
    BY <1>x, ExchangeMain, SMTT(60) DEF Do, Exchange, NewAt
  <1> QED BY <1>x, <1>1, <1>2, <1>3, <1>4, <1>5 DEF BeginsAt

(* The 34 steps of the trading program's main, in stretches.                *)
LEMMA TradingStep ==
    ASSUME NEW k \in 1 .. 34, NEW x, x = trading_main[k]
    PROVE  /\ k \in 1 .. 7 =>
                \/ k = 1 /\ x = Do("new", "logger")
                \/ k = 2 /\ x = Do("new", "trade_engine")
                \/ k = 3 /\ x = Do("run", "trade_engine")
                \/ k = 4 /\ x = Do("thread", "trade_engine")
                \/ k = 5 /\ x = Do("wait", "trade_engine")
                \/ k = 6 /\ x = Do("new", "order_gateway")
                \/ k = 7 /\ x = Do("run", "order_gateway")
           /\ k \in 8 .. 13 =>
                \/ k = 8 /\ x = Do("thread", "order_gateway")
                \/ k = 9 /\ x = Do("wait", "order_gateway")
                \/ k = 10 /\ x = Do("new", "consumer")
                \/ k = 11 /\ x = Do("run", "consumer")
                \/ k = 12 /\ x = Do("thread", "consumer")
                \/ k = 13 /\ x = Do("wait", "consumer")
           /\ k \in 14 .. 20 =>
                \/ k = 14 /\ x = Do("sleep", "none")
                \/ k = 15 /\ x = Do("random", "trade_engine")
                \/ k = 16 /\ x = Do("silence", "trade_engine")
                \/ k = 17 /\ x = Do("responses", "trade_engine")
                \/ k = 18 /\ x = Do("updates", "trade_engine")
                \/ k = 19 /\ x = Do("stop", "trade_engine")
                \/ k = 20 /\ x = Do("stop", "consumer")
           /\ k \in 21 .. 27 =>
                \/ k = 21 /\ x = Do("stop", "order_gateway")
                \/ k = 22 /\ x = Do("sleep", "none")
                \/ k = 23 /\ x = Do("free", "logger")
                \/ k = 24 /\ x = Do("stop", "trade_engine")
                \/ k = 25 /\ x = Do("sleep", "trade_engine")
                \/ k = 26 /\ x = Do("free", "trade_engine")
                \/ k = 27 /\ x = Do("stop", "consumer")
           /\ k \in 28 .. 34 =>
                \/ k = 28 /\ x = Do("sleep", "consumer")
                \/ k = 29 /\ x = Do("free", "consumer")
                \/ k = 30 /\ x = Do("stop", "order_gateway")
                \/ k = 31 /\ x = Do("sleep", "order_gateway")
                \/ k = 32 /\ x = Do("free", "order_gateway")
                \/ k = 33 /\ x = Do("sleep", "none")
                \/ k = 34 /\ x = Do("exit", "none")
  <1>1. ASSUME k \in 1 .. 7
        PROVE  \/ k = 1 /\ x = Do("new", "logger")
               \/ k = 2 /\ x = Do("new", "trade_engine")
               \/ k = 3 /\ x = Do("run", "trade_engine")
               \/ k = 4 /\ x = Do("thread", "trade_engine")
               \/ k = 5 /\ x = Do("wait", "trade_engine")
               \/ k = 6 /\ x = Do("new", "order_gateway")
               \/ k = 7 /\ x = Do("run", "order_gateway")
    <2>1. k = 1 \/ k = 2 \/ k = 3 \/ k = 4 \/ k = 5 \/ k = 6 \/ k = 7
      BY <1>1
    <2> QED BY <2>1, TradingMain, SMTT(40)
  <1>2. ASSUME k \in 8 .. 13
        PROVE  \/ k = 8 /\ x = Do("thread", "order_gateway")
               \/ k = 9 /\ x = Do("wait", "order_gateway")
               \/ k = 10 /\ x = Do("new", "consumer")
               \/ k = 11 /\ x = Do("run", "consumer")
               \/ k = 12 /\ x = Do("thread", "consumer")
               \/ k = 13 /\ x = Do("wait", "consumer")
    <2>1. k = 8 \/ k = 9 \/ k = 10 \/ k = 11 \/ k = 12 \/ k = 13
      BY <1>2
    <2> QED BY <2>1, TradingMain, SMTT(40)
  <1>3. ASSUME k \in 14 .. 20
        PROVE  \/ k = 14 /\ x = Do("sleep", "none")
               \/ k = 15 /\ x = Do("random", "trade_engine")
               \/ k = 16 /\ x = Do("silence", "trade_engine")
               \/ k = 17 /\ x = Do("responses", "trade_engine")
               \/ k = 18 /\ x = Do("updates", "trade_engine")
               \/ k = 19 /\ x = Do("stop", "trade_engine")
               \/ k = 20 /\ x = Do("stop", "consumer")
    <2>1. k = 14 \/ k = 15 \/ k = 16 \/ k = 17 \/ k = 18 \/ k = 19 \/ k = 20
      BY <1>3
    <2> QED BY <2>1, TradingMain, SMTT(40)
  <1>4. ASSUME k \in 21 .. 27
        PROVE  \/ k = 21 /\ x = Do("stop", "order_gateway")
               \/ k = 22 /\ x = Do("sleep", "none")
               \/ k = 23 /\ x = Do("free", "logger")
               \/ k = 24 /\ x = Do("stop", "trade_engine")
               \/ k = 25 /\ x = Do("sleep", "trade_engine")
               \/ k = 26 /\ x = Do("free", "trade_engine")
               \/ k = 27 /\ x = Do("stop", "consumer")
    <2>1. k = 21 \/ k = 22 \/ k = 23 \/ k = 24 \/ k = 25 \/ k = 26 \/ k = 27
      BY <1>4
    <2> QED BY <2>1, TradingMain, SMTT(40)
  <1>5. ASSUME k \in 28 .. 34
        PROVE  \/ k = 28 /\ x = Do("sleep", "consumer")
               \/ k = 29 /\ x = Do("free", "consumer")
               \/ k = 30 /\ x = Do("stop", "order_gateway")
               \/ k = 31 /\ x = Do("sleep", "order_gateway")
               \/ k = 32 /\ x = Do("free", "order_gateway")
               \/ k = 33 /\ x = Do("sleep", "none")
               \/ k = 34 /\ x = Do("exit", "none")
    <2>1. k = 28 \/ k = 29 \/ k = 30 \/ k = 31 \/ k = 32 \/ k = 33 \/ k = 34
      BY <1>5
    <2> QED BY <2>1, TradingMain, SMTT(40)
  <1> QED BY <1>1, <1>2, <1>3, <1>4, <1>5

LEMMA TradingBegins ==
    \A k \in 1 .. 34 : BeginsAt(trading_main[k], k, Trading)
  <1> SUFFICES ASSUME NEW k \in 1 .. 34 PROVE BeginsAt(trading_main[k], k, Trading)
    OBVIOUS
  <1>x. PICK x : x = trading_main[k]
    OBVIOUS
  <1>1. ASSUME k \in 1 .. 7 PROVE BeginsAt(x, k, Trading)
    BY <1>x, <1>1, TradingStep, SMTT(60)
    DEF BeginsAt, Do, Trading, NewAt, RunAt, ThreadAt
  <1>2. ASSUME k \in 8 .. 13 PROVE BeginsAt(x, k, Trading)
    BY <1>x, <1>2, TradingStep, SMTT(60)
    DEF BeginsAt, Do, Trading, NewAt, RunAt, ThreadAt
  <1>3. ASSUME k \in 14 .. 20 PROVE BeginsAt(x, k, Trading)
    BY <1>x, <1>3, TradingStep, SMTT(60)
    DEF BeginsAt, Do, Trading, NewAt, RunAt, ThreadAt
  <1>4. ASSUME k \in 21 .. 27 PROVE BeginsAt(x, k, Trading)
    BY <1>x, <1>4, TradingStep, SMTT(60)
    DEF BeginsAt, Do, Trading, NewAt, RunAt, ThreadAt
  <1>5. ASSUME k \in 28 .. 34 PROVE BeginsAt(x, k, Trading)
    BY <1>x, <1>5, TradingStep, SMTT(60)
    DEF BeginsAt, Do, Trading, NewAt, RunAt, ThreadAt
  <1> QED BY <1>x, <1>1, <1>2, <1>3, <1>4, <1>5

LEMMA HandlerEnds ==
    program = "exchange" => \A k \in 1 .. 16 : EndsAt(signal_handler[k], k, Exchange)
  <1> SUFFICES ASSUME program = "exchange", NEW k \in 1 .. 16
               PROVE  EndsAt(signal_handler[k], k, Exchange)
    OBVIOUS
  <1>x. PICK x : x = signal_handler[k]
    OBVIOUS
  <1>1. x.op = "free" => x.c \in Exchange \cup {"logger"}
    BY <1>x, SignalHandler, SMTT(30) DEF Do, Exchange
  <1>2. x.op = "stop" => x.c \in Exchange /\ StopAt[x.c] <= k /\ k < FreeAt[x.c]
    BY <1>x, SignalHandler, SMTT(30) DEF Do, Exchange, StopAt, FreeAt
  <1>3. ASSUME NEW o \in Exchange \cup {"logger"} PROVE FreeAt[o] = k <=> x.op = "free" /\ x.c = o
    BY <1>x, SignalHandler, SMTT(60) DEF Do, Exchange, FreeAt
  <1>4. ASSUME NEW c \in Exchange PROVE StopAt[c] = k => x.op = "stop" /\ x.c = c
    BY <1>x, SignalHandler, SMTT(60) DEF Do, Exchange, StopAt
  <1>5. ASSUME NEW c \in Exchange, SleepAt[c] = k
        PROVE  /\ x.op = "sleep"
               /\ x.c = "none" \/ (x.c \in Exchange /\ NewAt[x.c] = NewAt[c])
    BY <1>x, <1>5, SignalHandler, SMTT(60) DEF Do, Exchange, NewAt, SleepAt
  <1> QED BY <1>x, <1>1, <1>2, <1>3, <1>4, <1>5 DEF EndsAt

LEMMA TradingEnds ==
    program = "trading" => \A k \in 1 .. 34 : EndsAt(trading_main[k], k, Trading)
  <1> SUFFICES ASSUME program = "trading", NEW k \in 1 .. 34
               PROVE  EndsAt(trading_main[k], k, Trading)
    OBVIOUS
  <1>x. PICK x : x = trading_main[k]
    OBVIOUS
  <1>1. ASSUME k \in 1 .. 7 PROVE EndsAt(x, k, Trading)
    BY <1>x, <1>1, TradingStep, SMTT(60)
    DEF EndsAt, Do, Trading, NewAt, StopAt, SleepAt, FreeAt
  <1>2. ASSUME k \in 8 .. 13 PROVE EndsAt(x, k, Trading)
    BY <1>x, <1>2, TradingStep, SMTT(60)
    DEF EndsAt, Do, Trading, NewAt, StopAt, SleepAt, FreeAt
  <1>3. ASSUME k \in 14 .. 20 PROVE EndsAt(x, k, Trading)
    BY <1>x, <1>3, TradingStep, SMTT(60)
    DEF EndsAt, Do, Trading, NewAt, StopAt, SleepAt, FreeAt
  <1>4. ASSUME k \in 21 .. 27 PROVE EndsAt(x, k, Trading)
    BY <1>x, <1>4, TradingStep, SMTT(60)
    DEF EndsAt, Do, Trading, NewAt, StopAt, SleepAt, FreeAt
  <1>5. ASSUME k \in 28 .. 34 PROVE EndsAt(x, k, Trading)
    BY <1>x, <1>5, TradingStep, SMTT(60)
    DEF EndsAt, Do, Trading, NewAt, StopAt, SleepAt, FreeAt
  <1> QED BY <1>x, <1>1, <1>2, <1>3, <1>4, <1>5

-----------------------------------------------------------------------------
(* Objects and flags are what the positions say, and a thread is behind     *)
(* where main has started it, until whoever ends it has slept.              *)
Positions == /\ program \in {"exchange", "trading"}
             /\ at \in [{main} \cup Handlers -> Nat] /\ at[main] > 0
             /\ program = "trading" => \A h \in Handlers : at[h] = 0

ObjectOf(o) == IF o \notin Own \cup {"logger"} \/ at[main] <= NewAt[o] THEN "none"
               ELSE IF Ending > FreeAt[o] THEN "deleted" ELSE "alive"

FlagOf(c) == c \in Own /\ at[main] > RunAt[c] /\ Ending <= StopAt[c]

ThreadsFollow ==
    \A c \in Components :
      /\ thread[c] # "none" => c \in Own /\ at[main] > ThreadAt[c]
      /\ c \in Own /\ Ending > SleepAt[c] => thread[c] \in {"none", "ended"}

IInv == /\ Positions
        /\ object = [o \in Objects |-> ObjectOf(o)]
        /\ run_ = [c \in Components |-> FlagOf(c)]
        /\ thread \in [Components -> {"none", "started", "announced", "test", "body", "ended"}]
        /\ ThreadsFollow
        /\ ~wild

LEMMA InitIInv == Init => IInv
  <1> SUFFICES ASSUME Init PROVE IInv
    OBVIOUS
  <1>1. Positions /\ at[main] = 1 /\ Ending <= 1
    BY DEF Init, Positions, main, Handlers, Ending
  <1>2. \A o \in Objects : ObjectOf(o) = "none"
    <2>1. \A o \in Objects : NewAt[o] >= 1
      BY SMT DEF NewAt, Objects, Components, Exchange, Trading
    <2> QED BY <1>1, <2>1 DEF ObjectOf
  <1>3. \A c \in Components : FlagOf(c) = FALSE
    BY <1>1, Order DEF FlagOf
  <1>4. object = [o \in Objects |-> "none"] /\ run_ = [c \in Components |-> FALSE]
    BY DEF Init, Objects
  <1>5. ThreadsFollow
    BY DEF Init, ThreadsFollow
  <1> QED BY <1>1, <1>2, <1>3, <1>4, <1>5 DEF Init, IInv

LEMMA IInvIsSafe == IInv => NoUseAfterFree
  <1> SUFFICES ASSUME IInv, NEW c \in Components, thread[c] \in {"announced", "test", "body"},
                      NEW o \in Uses(c)
               PROVE  object[o] = "alive"
    BY DEF NoUseAfterFree, IInv
  <1>1. c \in Own /\ at[main] > ThreadAt[c] /\ ~(Ending > SleepAt[c])
    BY DEF IInv, ThreadsFollow
  <1>2. o \in Own /\ o \in Objects /\ NewAt[o] = NewAt[c] /\ SleepAt[c] < FreeAt[o]
    BY <1>1, UsesInOrder DEF Objects
  <1>3. at[main] \in Nat /\ Ending \in Nat
    BY DEF IInv, Positions, Ending, main, Handlers
  <1>4. at[main] > NewAt[o] /\ ~(Ending > FreeAt[o])
    <2>1. o \in Components
      BY UsesInOrder
    <2>2. /\ NewAt[c] < RunAt[c] /\ RunAt[c] < ThreadAt[c]
          /\ NewAt[c] \in Nat /\ RunAt[c] \in Nat /\ ThreadAt[c] \in Nat /\ SleepAt[c] \in Nat
      BY Order
    <2>3. FreeAt[o] \in Nat
      BY <2>1, Order
    <2> QED BY <1>1, <1>2, <1>3, <2>2, <2>3
  <1>5. ObjectOf(o) = "alive"
    <2>1. NewAt[o] \in Nat
      BY UsesInOrder, Order
    <2> QED BY <1>2, <1>3, <1>4, <2>1 DEF ObjectOf
  <1> QED BY <1>2, <1>5 DEF IInv

-----------------------------------------------------------------------------
(* What the step that an activity is at begins or ends, and where that is.  *)
Begins(x) == BeginsAt(x, at[main], Own)
Ends(x) == EndsAt(x, Ending, Own)

LEMMA Where ==
    ASSUME MaxSignals \in Nat, MaxSignals <= 1, IInv, NEW a \in DOMAIN at, Running(a)
    PROVE  /\ at[a] \in Nat /\ at[main] \in Nat /\ Ending \in Nat
           /\ \/ /\ program = "exchange" /\ a = main /\ Ending = 0
                 /\ Begins(Now(a)) /\ Now(a).op \notin {"stop", "free", "sleep"}
              \/ /\ program = "exchange" /\ a = 1 /\ a # main /\ 1 \in Handlers /\ Ending = at[a]
                 /\ Ends(Now(a)) /\ Now(a).op \notin {"new", "run", "thread"}
              \/ /\ program = "trading" /\ a = main /\ Ending = at[main]
                 /\ Begins(Now(a)) /\ Ends(Now(a))
  <1>0. Positions /\ DOMAIN at = {main} \cup Handlers /\ Handlers = 1 .. MaxSignals /\ main = 0
    BY DEF IInv, Positions, Handlers, main
  <1>1. at[a] \in Nat /\ at[main] \in Nat /\ Ending \in Nat
    BY <1>0 DEF Positions, Ending
  <1>2. at[a] > 0 /\ at[a] <= Len(Script(a)) /\ Now(a) = Script(a)[at[a]]
        /\ (a = main => \A h \in Handlers : at[h] = 0)
    BY DEF Running, Begun, Now
  <1>3. CASE program = "exchange" /\ a = main
    <2>a. Script(a) = exchange_main /\ Len(exchange_main) = 17
      BY <1>3, ExchangeMain DEF Script
    <2>1. at[a] \in 1 .. 17 /\ Now(a) = exchange_main[at[main]]
      BY <1>1, <1>2, <1>3, <2>a
    <2>2. Begins(Now(a))
      BY <2>1, <1>3, ExchangeBegins DEF Begins, Own
    <2>3. Now(a).op \notin {"stop", "free", "sleep"}
      BY <2>1, <1>3, ExchangeMain, SMTT(30) DEF Do
    <2>4. Ending = 0
      BY <1>2, <1>3 DEF Ending
    <2> QED BY <1>1, <1>3, <2>2, <2>3, <2>4
  <1>4. CASE program = "exchange" /\ a # main
    <2>1. a = 1 /\ 1 \in Handlers
      BY <1>0, <1>4
    <2>a. Script(a) = signal_handler /\ Len(signal_handler) = 16
      BY <1>4, SignalHandler DEF Script
    <2>2. at[a] \in 1 .. 16 /\ Now(a) = signal_handler[at[a]] /\ Ending = at[a]
      BY <1>1, <1>2, <1>4, <2>1, <2>a DEF Ending
    <2>3. Ends(Now(a))
      BY <2>2, <1>4, HandlerEnds DEF Ends, Own
    <2>4. Now(a).op \notin {"new", "run", "thread"}
      BY <2>2, SignalHandler, SMTT(30) DEF Do
    <2> QED BY <1>1, <1>4, <2>1, <2>2, <2>3, <2>4
  <1>5. CASE program # "exchange"
    <2>1. program = "trading" /\ a = main
      BY <1>0, <1>2, <1>5 DEF Positions
    <2>a. Script(a) = trading_main /\ Len(trading_main) = 34
      BY <2>1, TradingMain DEF Script
    <2>2. at[a] \in 1 .. 34 /\ Now(a) = trading_main[at[main]] /\ Ending = at[main]
      BY <1>1, <1>2, <2>1, <2>a DEF Ending
    <2>3. Begins(Now(a)) /\ Ends(Now(a))
      BY <2>1, <2>2, TradingBegins, TradingEnds DEF Begins, Ends, Own
    <2> QED BY <1>1, <2>1, <2>2, <2>3
  <1> QED BY <1>3, <1>4, <1>5

(* What a step makes of the objects, the flags and the marks on the way.    *)
Creates(x, o) == /\ x.op = "new"
                 /\ \/ o = x.c
                    \/ o = "synthesizer" /\ x.c = "publisher"

Runs(x, c) == x.op = "run" /\ x.c = c
Starts(x, c) == x.op = "thread" /\ x.c = c
Stops(x, c) == x.op = "stop" /\ x.c = c
Frees(x, o) == x.op = "free" /\ x.c = o
Awaits(x, c) == /\ x.op = "sleep" /\ ~FlagOf(c)
                /\ \/ x.c = "none"
                   \/ x.c \in Objects /\ (ObjectOf(x.c) = "none" => ObjectOf(c) = "none")

LEMMA Moved ==
    ASSUME MaxSignals \in Nat, MaxSignals <= 1, IInv, NEW a \in DOMAIN at, Running(a),
           Advance(a), program' = program, NEW x, x = Now(a)
    PROVE  /\ Positions' /\ Own' = Own
           /\ \A o \in Objects :
                ObjectOf(o)' = IF Creates(x, o) THEN "alive"
                               ELSE IF Frees(x, o) /\ ObjectOf(o) # "none"
                                    THEN "deleted" ELSE ObjectOf(o)
           /\ \A o \in Objects : Frees(x, o) => ObjectOf(o) # "deleted"
           /\ \A c \in Components :
                /\ FlagOf(c)' <=> (Runs(x, c) \/ (FlagOf(c) /\ ~Stops(x, c)))
                /\ Stops(x, c) => ObjectOf(c) # "deleted"
                /\ (c \in Own /\ at'[main] > ThreadAt[c]) <=>
                  ((c \in Own /\ at[main] > ThreadAt[c]) \/ Starts(x, c))
                /\ (c \in Own /\ Ending' > SleepAt[c]) => (Ending > SleepAt[c] \/ Awaits(x, c))
  <1>0. /\ Positions /\ DOMAIN at = {main} \cup Handlers /\ Handlers = 1 .. MaxSignals /\ main = 0
        /\ at' = [at EXCEPT ![a] = @ + 1]
    BY DEF IInv, Positions, Handlers, main, Advance
  <1>1. at[a] \in Nat /\ at[main] \in Nat /\ Ending \in Nat
    BY Where
  <1>2. Own' = Own /\ Own \subseteq Components
    BY DEF Own, Components
  <1>3. FreeAt' = FreeAt
    BY DEF FreeAt
  <1>4. Positions'
    <2>1. at' \in [{main} \cup Handlers -> Nat] /\ at'[main] > 0
      BY <1>0, <1>1 DEF Positions
    <2>2. program = "trading" => \A h \in Handlers : at'[h] = 0
      <3>1. program = "trading" => a = main
        BY Where
      <3> QED BY <1>0, <3>1 DEF Positions
    <2> QED BY <1>0, <2>1, <2>2 DEF Positions, Handlers
  <1>5. PICK m \in Nat, n \in Nat, e \in Nat, f \in Nat :
          /\ m = at[main] /\ n = at'[main] /\ e = Ending /\ f = Ending'
          /\ \/ /\ n = m + 1 /\ f = e /\ e = 0
                /\ BeginsAt(x, m, Own) /\ x.op \notin {"stop", "free", "sleep"}
             \/ /\ n = m /\ f = e + 1
                /\ EndsAt(x, e, Own) /\ x.op \notin {"new", "run", "thread"}
             \/ /\ n = m + 1 /\ f = e + 1 /\ e = m /\ Own = Trading
                /\ BeginsAt(x, m, Own) /\ EndsAt(x, e, Own)
    <2>1. CASE program = "exchange" /\ a = main
      <3>1. Ending = 0 /\ Begins(x) /\ x.op \notin {"stop", "free", "sleep"}
        BY <2>1, Where
      <3>2. at'[main] = at[main] + 1 /\ Ending' = Ending
        BY <1>0, <1>1, <2>1 DEF Ending, Handlers, Positions
      <3> QED BY <1>1, <3>1, <3>2 DEF Begins
    <2>2. CASE program = "exchange" /\ a # main
      <3>1. a = 1 /\ 1 \in Handlers /\ Ending = at[a] /\ Ends(x)
            /\ x.op \notin {"new", "run", "thread"}
        BY <2>2, Where
      <3>2. at'[main] = at[main] /\ Ending' = Ending + 1
        BY <1>0, <1>1, <2>2, <3>1 DEF Ending, Handlers, Positions
      <3> QED BY <1>1, <3>1, <3>2 DEF Ends
    <2>3. CASE program # "exchange"
      <3>1. a = main /\ Ending = at[main] /\ Begins(x) /\ Ends(x) /\ program = "trading"
        BY <2>3, Where
      <3>2. at'[main] = at[main] + 1 /\ Ending' = Ending + 1 /\ Own = Trading
        BY <1>0, <1>1, <3>1 DEF Ending, Handlers, Positions, Own
      <3> QED BY <1>1, <3>1, <3>2 DEF Ends, Begins
    <2> QED BY <2>1, <2>2, <2>3
  <1>6. ASSUME NEW o \in Own \cup {"logger"}
        PROVE  NewAt[o] \in Nat /\ FreeAt[o] \in Nat /\ FreeAt[o] > 0
    BY SMT DEF Own, Exchange, Trading, NewAt, FreeAt
  <1>7. ASSUME NEW o \in Objects
        PROVE  /\ ObjectOf(o)' = IF Creates(x, o) THEN "alive"
                               ELSE IF Frees(x, o) /\ ObjectOf(o) # "none"
                                    THEN "deleted" ELSE ObjectOf(o)
               /\ Frees(x, o) => ObjectOf(o) # "deleted"
    <2>1. CASE o \notin Own \cup {"logger"}
      <3>1. ObjectOf(o) = "none" /\ ObjectOf(o)' = "none"
        BY <1>2, <2>1 DEF ObjectOf
      <3>2. ~Creates(x, o)
        BY <1>5, <2>1 DEF BeginsAt, Creates, Own, Exchange, Trading
      <3> QED BY <3>1, <3>2
    <2>2. CASE o \in Own \cup {"logger"}
      <3>1. /\ NewAt[o] \in Nat /\ FreeAt[o] \in Nat /\ FreeAt[o] > 0
        BY <1>6, <2>2
      <3>2. /\ ObjectOf(o) = IF m <= NewAt[o] THEN "none"
                             ELSE IF e > FreeAt[o] THEN "deleted" ELSE "alive"
            /\ ObjectOf(o)' = IF n <= NewAt[o] THEN "none"
                             ELSE IF f > FreeAt[o] THEN "deleted" ELSE "alive"
        BY <1>2, <1>3, <1>5, <2>2 DEF ObjectOf
      <3>3. CASE n = m + 1 /\ f = e /\ e = 0 /\ BeginsAt(x, m, Own)
                 /\ x.op \notin {"stop", "free", "sleep"}
        <4>1. NewAt[o] = m <=> Creates(x, o)
          BY <2>2, <3>3 DEF BeginsAt, Creates
        <4> QED BY <3>1, <3>2, <3>3, <4>1 DEF Frees
      <3>4. CASE n = m /\ f = e + 1 /\ EndsAt(x, e, Own) /\ x.op \notin {"new", "run", "thread"}
        <4>1. FreeAt[o] = e <=> Frees(x, o)
          BY <2>2, <3>4 DEF EndsAt, Stops, Frees
        <4>2. ~Creates(x, o)
          BY <3>4 DEF Creates
        <4> QED BY <3>1, <3>2, <3>4, <4>1, <4>2
      <3>5. CASE n = m + 1 /\ f = e + 1 /\ e = m /\ Own = Trading
                 /\ BeginsAt(x, m, Own) /\ EndsAt(x, e, Own)
        <4>1. NewAt[o] = m <=> Creates(x, o)
          BY <2>2, <3>5 DEF BeginsAt, Creates
        <4>2. FreeAt[o] = e <=> Frees(x, o)
          BY <2>2, <3>5 DEF EndsAt, Stops, Frees
        <4>3. NewAt[o] < FreeAt[o]
          BY <2>2, <3>5, SMT DEF Trading, NewAt, FreeAt
        <4> QED BY <3>1, <3>2, <3>5, <4>1, <4>2, <4>3
      <3> QED BY <1>5, <3>3, <3>4, <3>5
    <2> QED BY <2>1, <2>2
  <1>8. ASSUME NEW c \in Components
        PROVE  /\ FlagOf(c)' <=> (Runs(x, c) \/ (FlagOf(c) /\ ~Stops(x, c)))
               /\ Stops(x, c) => ObjectOf(c) # "deleted"
               /\ (c \in Own /\ at'[main] > ThreadAt[c]) <=>
                  ((c \in Own /\ at[main] > ThreadAt[c]) \/ Starts(x, c))
               /\ (c \in Own /\ Ending' > SleepAt[c]) => (Ending > SleepAt[c] \/ Awaits(x, c))
    <2>1. CASE c \notin Own
      <3>1. FlagOf(c) = FALSE /\ FlagOf(c)' = FALSE /\ ObjectOf(c) \in {"none", "deleted", "alive"}
        BY <1>2, <2>1 DEF FlagOf, ObjectOf
      <3>2. x.op \in {"run", "thread", "stop"} => x.c # c
        BY <1>5, <2>1 DEF BeginsAt, EndsAt
      <3> QED BY <2>1, <3>1, <3>2 DEF Runs, Starts, Stops
    <2>2. CASE c \in Own
      <3>1. /\ NewAt[c] \in Nat /\ RunAt[c] \in Nat /\ ThreadAt[c] \in Nat
            /\ StopAt[c] \in Nat /\ SleepAt[c] \in Nat /\ FreeAt[c] \in Nat
            /\ 0 < NewAt[c] /\ NewAt[c] < RunAt[c] /\ RunAt[c] < ThreadAt[c]
            /\ 0 < StopAt[c] /\ StopAt[c] < SleepAt[c] /\ SleepAt[c] < FreeAt[c]
            /\ c \in Trading => ThreadAt[c] < 17 /\ 18 < StopAt[c]
        BY Order
      <3>2. /\ FlagOf(c) <=> m > RunAt[c] /\ e <= StopAt[c]
            /\ FlagOf(c)' <=> n > RunAt[c] /\ f <= StopAt[c]
        BY <1>2, <1>5, <2>2 DEF FlagOf
      <3>3. ObjectOf(c) = IF m <= NewAt[c] THEN "none"
                             ELSE IF e > FreeAt[c] THEN "deleted" ELSE "alive"
        BY <1>5, <2>2 DEF ObjectOf
      <3>0. m = at[main] /\ n = at'[main] /\ e = Ending /\ f = Ending'
        BY <1>5
      <3>4. CASE n = m + 1 /\ f = e /\ e = 0 /\ BeginsAt(x, m, Own)
                 /\ x.op \notin {"stop", "free", "sleep"}
        <4>0. n = m + 1 /\ f = e /\ e = 0 /\ x.op \notin {"stop", "free", "sleep"}
          BY <3>4
        <4>1. /\ RunAt[c] = m <=> Runs(x, c)
              /\ ThreadAt[c] = m <=> Starts(x, c)
          BY <2>2, <3>4 DEF BeginsAt, Runs, Starts, Stops
        <4>7. FlagOf(c)' <=> (Runs(x, c) \/ (FlagOf(c) /\ ~Stops(x, c)))
          BY <3>1, <3>2, <4>0, <4>1 DEF Stops
        <4>8. Stops(x, c) => ObjectOf(c) # "deleted"
          BY <3>1, <3>3, <4>0
        <4>9. (c \in Own /\ at'[main] > ThreadAt[c]) <=>
                  ((c \in Own /\ at[main] > ThreadAt[c]) \/ Starts(x, c))
          BY <3>0, <2>2, <3>1, <4>0, <4>1
        <4>10. (c \in Own /\ Ending' > SleepAt[c]) => (Ending > SleepAt[c] \/ Awaits(x, c))
          BY <3>0, <2>2, <3>1, <4>0
        <4> QED BY <4>7, <4>8, <4>9, <4>10
      <3>5. CASE n = m /\ f = e + 1 /\ EndsAt(x, e, Own) /\ x.op \notin {"new", "run", "thread"}
        <4>0. n = m /\ f = e + 1 /\ x.op \notin {"new", "run", "thread"}
          BY <3>5
        <4>2. Stops(x, c) => StopAt[c] <= e /\ e < FreeAt[c]
          BY <2>2, <3>5 DEF EndsAt, Stops, Frees
        <4>3. StopAt[c] = e => Stops(x, c)
          BY <2>2, <3>5 DEF EndsAt, Stops, Frees
        <4>4. SleepAt[c] = e =>
                (x.op = "sleep" /\ (x.c = "none" \/ (x.c \in Own /\ NewAt[x.c] = NewAt[c])))
          BY <2>2, <3>5 DEF EndsAt, Stops, Frees
        <4>5. SleepAt[c] = e => Awaits(x, c)
          <5> SUFFICES ASSUME SleepAt[c] = e PROVE Awaits(x, c)
            OBVIOUS
          <5>0. ~(e <= StopAt[c])
            BY <3>1
          <5>z. ~FlagOf(c)
            BY ONLY <3>2, <5>0
          <5>y. x.op = "sleep" /\ (x.c = "none" \/ (x.c \in Own /\ NewAt[x.c] = NewAt[c]))
            BY <4>4
          <5>a. x.op = "sleep" /\ ~FlagOf(c)
            BY <5>y, <5>z
          <5>b. CASE x.c = "none"
            BY <5>a, <5>b DEF Awaits
          <5>c. CASE x.c # "none"
            <6>1. x.c \in Own /\ NewAt[x.c] = NewAt[c]
              BY <5>y, <5>c
            <6>2. ObjectOf(x.c) = "none" => m <= NewAt[x.c]
              BY <1>5, <6>1 DEF ObjectOf
            <6>3. x.c \in Objects /\ (ObjectOf(x.c) = "none" => ObjectOf(c) = "none")
              BY <1>2, <3>3, <6>1, <6>2 DEF Objects
            <6> QED BY <5>a, <6>3 DEF Awaits
          <5> QED BY <5>b, <5>c
        <4>7. FlagOf(c)' <=> (Runs(x, c) \/ (FlagOf(c) /\ ~Stops(x, c)))
          BY <3>1, <3>2, <4>0, <4>2, <4>3 DEF Runs
        <4>8. Stops(x, c) => ObjectOf(c) # "deleted"
          BY <3>1, <3>3, <4>0, <4>2
        <4>9. (c \in Own /\ at'[main] > ThreadAt[c]) <=>
                  ((c \in Own /\ at[main] > ThreadAt[c]) \/ Starts(x, c))
          BY <3>0, <2>2, <3>1, <4>0 DEF Starts
        <4>10. (c \in Own /\ Ending' > SleepAt[c]) => (Ending > SleepAt[c] \/ Awaits(x, c))
          BY <3>0, <2>2, <3>1, <4>0, <4>5
        <4> QED BY <4>7, <4>8, <4>9, <4>10
      <3>6. CASE n = m + 1 /\ f = e + 1 /\ e = m /\ Own = Trading
                 /\ BeginsAt(x, m, Own) /\ EndsAt(x, e, Own)
        <4>0. n = m + 1 /\ f = e + 1 /\ e = m
          BY <3>6
        <4>1. /\ RunAt[c] = m <=> Runs(x, c)
              /\ ThreadAt[c] = m <=> Starts(x, c)
          BY <2>2, <3>6 DEF BeginsAt, Runs, Starts, Stops
        <4>2. Stops(x, c) => StopAt[c] <= e /\ e < FreeAt[c]
          BY <2>2, <3>6 DEF EndsAt, Stops, Frees
        <4>3. StopAt[c] = e => Stops(x, c)
          BY <2>2, <3>6 DEF EndsAt, Stops, Frees
        <4>4. SleepAt[c] = e =>
                (x.op = "sleep" /\ (x.c = "none" \/ (x.c \in Own /\ NewAt[x.c] = NewAt[c])))
          BY <2>2, <3>6 DEF EndsAt, Stops, Frees
        <4>5. SleepAt[c] = e => Awaits(x, c)
          <5> SUFFICES ASSUME SleepAt[c] = e PROVE Awaits(x, c)
            OBVIOUS
          <5>0. ~(e <= StopAt[c])
            BY <3>1
          <5>z. ~FlagOf(c)
            BY ONLY <3>2, <5>0
          <5>y. x.op = "sleep" /\ (x.c = "none" \/ (x.c \in Own /\ NewAt[x.c] = NewAt[c]))
            BY <4>4
          <5>a. x.op = "sleep" /\ ~FlagOf(c)
            BY <5>y, <5>z
          <5>b. CASE x.c = "none"
            BY <5>a, <5>b DEF Awaits
          <5>c. CASE x.c # "none"
            <6>1. x.c \in Own /\ NewAt[x.c] = NewAt[c]
              BY <5>y, <5>c
            <6>2. ObjectOf(x.c) = "none" => m <= NewAt[x.c]
              BY <1>5, <6>1 DEF ObjectOf
            <6>3. x.c \in Objects /\ (ObjectOf(x.c) = "none" => ObjectOf(c) = "none")
              BY <1>2, <3>3, <6>1, <6>2 DEF Objects
            <6> QED BY <5>a, <6>3 DEF Awaits
          <5> QED BY <5>b, <5>c
        <4>6. ThreadAt[c] < StopAt[c]
          BY <2>2, <3>1, <3>6
        <4>7. FlagOf(c)' <=> (Runs(x, c) \/ (FlagOf(c) /\ ~Stops(x, c)))
          BY <3>1, <3>2, <4>0, <4>1, <4>2, <4>3, <4>6
        <4>8. Stops(x, c) => ObjectOf(c) # "deleted"
          BY <3>1, <3>3, <4>0, <4>2
        <4>9. (c \in Own /\ at'[main] > ThreadAt[c]) <=>
                  ((c \in Own /\ at[main] > ThreadAt[c]) \/ Starts(x, c))
          BY <3>0, <2>2, <3>1, <4>0, <4>1
        <4>10. (c \in Own /\ Ending' > SleepAt[c]) => (Ending > SleepAt[c] \/ Awaits(x, c))
          BY <3>0, <2>2, <3>1, <4>0, <4>5
        <4> QED BY <4>7, <4>8, <4>9, <4>10
      <3> QED BY <1>5, <3>4, <3>5, <3>6
    <2> QED BY <2>1, <2>2
  <1> QED BY <1>2, <1>4, <1>7, <1>8

-----------------------------------------------------------------------------
(* An object that has not been made has no flag set and no thread.          *)
LEMMA Unmade ==
    ASSUME IInv, NEW c \in Components, object[c] = "none"
    PROVE  run_[c] = FALSE /\ thread[c] = "none"
  <1>1. at[main] \in Nat /\ ObjectOf(c) = "none"
    BY DEF IInv, Positions, Objects
  <1>2. c \notin Own \/ at[main] <= NewAt[c]
    BY <1>1, Order DEF ObjectOf, Components, Exchange, Trading
  <1>3. NewAt[c] \in Nat /\ RunAt[c] \in Nat /\ ThreadAt[c] \in Nat
        /\ NewAt[c] < RunAt[c] /\ RunAt[c] < ThreadAt[c]
    BY Order
  <1>4. c \notin Own \/ ~(at[main] > RunAt[c])
    BY <1>1, <1>2, <1>3
  <1>5. c \notin Own \/ ~(at[main] > ThreadAt[c])
    BY <1>1, <1>2, <1>3
  <1>6. FlagOf(c) = FALSE
    BY <1>4 DEF FlagOf
  <1> QED BY <1>5, <1>6 DEF IInv, ThreadsFollow

(* The kinds of names the steps are about, and that no thread is started    *)
(* once its end has begun.                                                  *)
LEMMA Whose ==
    ASSUME MaxSignals \in Nat, MaxSignals <= 1, IInv, NEW a \in DOMAIN at, Running(a), Advance(a),
           program' = program
    PROVE  /\ Now(a).op = "new" => Now(a).c \in Objects
           /\ Now(a).op \in {"run", "thread", "stop"} => Now(a).c \in Components
           /\ Now(a).op = "free" => Now(a).c \in Objects
           /\ \A c \in Components : Starts(Now(a), c) => ~(Ending' > SleepAt[c])
  <1>x. PICK x : x = Now(a)
    OBVIOUS
  <1>0. /\ Positions /\ DOMAIN at = {main} \cup Handlers /\ Handlers = 1 .. MaxSignals /\ main = 0
        /\ at' = [at EXCEPT ![a] = @ + 1]
    BY DEF IInv, Positions, Handlers, main, Advance
  <1>1. Own \subseteq Components /\ Own \cup {"logger"} \subseteq Objects
    BY DEF Own, Components, Objects
  <1>2. /\ at[main] \in Nat /\ Ending \in Nat
        /\ \/ /\ program = "exchange" /\ a = main /\ Ending = 0
              /\ Begins(x) /\ x.op \notin {"stop", "free", "sleep"}
           \/ /\ program = "exchange" /\ a # main /\ Ends(x) /\ x.op \notin {"new", "run", "thread"}
           \/ /\ program = "trading" /\ a = main /\ Ending = at[main]
              /\ Begins(x) /\ Ends(x)
    BY Where, <1>x
  <1>3. Begins(x) => /\ x.op = "new" => x.c \in Objects
                     /\ x.op \in {"run", "thread"} => x.c \in Components
    BY <1>1 DEF Begins, BeginsAt
  <1>4. Ends(x) => /\ x.op = "stop" => x.c \in Components
                   /\ x.op = "free" => x.c \in Objects
    BY <1>1 DEF Ends, EndsAt
  <1>5. ASSUME NEW c \in Components, Starts(x, c) PROVE ~(Ending' > SleepAt[c])
    <2>1. /\ ThreadAt[c] \in Nat /\ StopAt[c] \in Nat /\ SleepAt[c] \in Nat
          /\ StopAt[c] < SleepAt[c] /\ (c \in Trading => ThreadAt[c] < 17 /\ 18 < StopAt[c])
      BY Order
    <2>2. CASE program = "exchange"
      <3>1. a = main /\ Ending = 0
        BY <1>2, <1>5, <2>2 DEF Starts
      <3>2. Ending' = Ending
        BY <1>0, <2>2, <3>1 DEF Ending, Handlers, Positions
      <3> QED BY <2>1, <3>1, <3>2
    <2>3. CASE program # "exchange"
      <3>1. a = main /\ Ending = at[main] /\ Begins(x) /\ program = "trading"
        BY <1>2, <2>3
      <3>2. Ending' = at[main] + 1
        BY <1>0, <3>1 DEF Ending, Handlers, Positions
      <3>3. c \in Own /\ ThreadAt[c] = at[main] /\ c \in Trading
        BY <1>5, <3>1 DEF Begins, BeginsAt, Starts, Own
      <3> QED BY <2>1, <3>2, <3>3
    <2> QED BY <2>2, <2>3
  <1>6. /\ x.op = "new" => x.c \in Objects
        /\ x.op \in {"run", "thread", "stop"} => x.c \in Components
        /\ x.op = "free" => x.c \in Objects
    BY <1>2, <1>3, <1>4
  <1> QED BY <1>x, <1>5, <1>6

States == {"none", "started", "announced", "test", "body", "ended"}

(* A step by an activity keeps the invariant when it does to objects and    *)
(* flags what the script says, and to threads no more than start one.       *)
LEMMA StepKeeps ==
    ASSUME MaxSignals \in Nat, MaxSignals <= 1, IInv, NEW a \in DOMAIN at, Running(a), Advance(a),
           program' = program, NEW x, x = Now(a),
           object' = [o \in Objects |->
                        IF Creates(x, o) THEN "alive"
                        ELSE IF Frees(x, o) /\ object[o] # "none" THEN "deleted" ELSE object[o]],
           run_' = [c \in Components |-> Runs(x, c) \/ (run_[c] /\ ~Stops(x, c))],
           thread' \in [Components -> States],
           \A c \in Components : thread'[c] = thread[c] \/ Starts(x, c),
           \A c \in Components : Awaits(x, c) => thread'[c] \in {"none", "ended"},
           wild' = FALSE
    PROVE  IInv'
  <1>1. Positions' /\ Own' = Own
    BY Moved
  <1>2. \A o \in Objects : ObjectOf(o)' = object'[o]
    <2> SUFFICES ASSUME NEW o \in Objects PROVE ObjectOf(o)' = object'[o]
      OBVIOUS
    <2>1. object[o] = ObjectOf(o)
      BY DEF IInv
    <2>2. ObjectOf(o)' = IF Creates(x, o) THEN "alive"
                         ELSE IF Frees(x, o) /\ ObjectOf(o) # "none" THEN "deleted" ELSE ObjectOf(o)
      BY Moved
    <2> QED BY <2>1, <2>2
  <1>3. \A c \in Components : FlagOf(c)' = run_'[c]
    <2> SUFFICES ASSUME NEW c \in Components PROVE FlagOf(c)' = run_'[c]
      OBVIOUS
    <2>1. run_[c] = FlagOf(c) /\ FlagOf(c) \in BOOLEAN /\ FlagOf(c)' \in BOOLEAN
      BY DEF IInv, FlagOf
    <2>2. FlagOf(c)' <=> (Runs(x, c) \/ (FlagOf(c) /\ ~Stops(x, c)))
      BY Moved
    <2>3. run_'[c] = (Runs(x, c) \/ (run_[c] /\ ~Stops(x, c)))
      OBVIOUS
    <2> QED BY <2>1, <2>2, <2>3
  <1>4. ThreadsFollow'
    <2> SUFFICES ASSUME NEW c \in Components
                 PROVE  /\ thread'[c] # "none" => c \in Own' /\ at'[main] > ThreadAt[c]
                        /\ c \in Own' /\ Ending' > SleepAt[c] => thread'[c] \in {"none", "ended"}
      BY DEF ThreadsFollow, ThreadAt, SleepAt
    <2>1. /\ (c \in Own /\ at'[main] > ThreadAt[c]) <=>
                  ((c \in Own /\ at[main] > ThreadAt[c]) \/ Starts(x, c))
          /\ (c \in Own /\ Ending' > SleepAt[c]) => (Ending > SleepAt[c] \/ Awaits(x, c))
      BY Moved
    <2>2. /\ thread[c] # "none" => c \in Own /\ at[main] > ThreadAt[c]
          /\ c \in Own /\ Ending > SleepAt[c] => thread[c] \in {"none", "ended"}
      BY DEF IInv, ThreadsFollow
    <2>3. Starts(x, c) => ~(Ending' > SleepAt[c])
      BY Whose
    <2>4. thread'[c] = thread[c] \/ Starts(x, c)
      OBVIOUS
    <2>5. Awaits(x, c) => thread'[c] \in {"none", "ended"}
      OBVIOUS
    <2> QED BY <1>1, <2>1, <2>2, <2>3, <2>4, <2>5
  <1>5. object' = [o \in Objects |-> ObjectOf(o)']
    BY <1>2
  <1>6. run_' = [c \in Components |-> FlagOf(c)']
    BY <1>3
  <1> QED BY <1>1, <1>4, <1>5, <1>6 DEF IInv, States

-----------------------------------------------------------------------------
(* The steps of main and of the handler, one by one.                        *)
Few == MaxSignals \in Nat /\ MaxSignals <= 1

LEMMA Typed == ASSUME IInv
               PROVE  /\ object \in [Objects -> {"none", "alive", "deleted"}]
                      /\ run_ \in [Components -> BOOLEAN]
                      /\ thread \in [Components -> States] /\ wild = FALSE
  BY DEF IInv, States, ObjectOf, FlagOf

LEMMA CreateKeeps == ASSUME Few, IInv, NEW a \in DOMAIN at, Create(a) PROVE IInv'
  <1>x. PICK x : x = Now(a)
    OBVIOUS
  <1>1. /\ Running(a) /\ x.op = "new" /\ Advance(a) /\ program' = program
        /\ run_' = run_ /\ thread' = thread /\ wild' = wild
    BY <1>x DEF Create, Step
  <1>2. /\ object \in [Objects -> {"none", "alive", "deleted"}]
        /\ run_ \in [Components -> BOOLEAN] /\ thread \in [Components -> States] /\ wild = FALSE
    BY Typed
  <1>3. object' = [o \in Objects |->
                     IF Creates(x, o) THEN "alive"
                     ELSE IF Frees(x, o) /\ object[o] # "none" THEN "deleted" ELSE object[o]]
    <2>1. object' = [o \in Objects |->
             IF o \in {x.c} \cup IF x.c = "publisher" THEN {"synthesizer"} ELSE {}
             THEN "alive" ELSE object[o]]
      BY <1>x, <1>2 DEF Create
    <2>2. \A o \in Objects : Creates(x, o) <=> o \in {x.c} \cup IF x.c = "publisher" THEN {"synthesizer"} ELSE {}
      BY <1>1 DEF Creates
    <2>3. \A o \in Objects : ~Frees(x, o)
      BY <1>1 DEF Frees
    <2> QED BY <2>1, <2>2, <2>3
  <1>4. \A c \in Components : ~Runs(x, c) /\ ~Stops(x, c) /\ ~Starts(x, c) /\ ~Awaits(x, c)
    BY <1>1 DEF Runs, Stops, Starts, Awaits
  <1>5. run_' = [c \in Components |-> Runs(x, c) \/ (run_[c] /\ ~Stops(x, c))]
    BY <1>1, <1>2, <1>4
  <1> QED BY <1>x, <1>1, <1>2, <1>3, <1>4, <1>5, StepKeeps DEF Few

(* What a step that makes or deletes nothing needs to show.                 *)
LEMMA PlainKeeps ==
    ASSUME Few, IInv, NEW a \in DOMAIN at, Running(a), Advance(a), program' = program,
           NEW x, x = Now(a), x.op # "new", \A o \in Objects : Frees(x, o) => object[o] = "none",
           object' = object, wild' = wild,
           \A c \in Components : run_'[c] = (Runs(x, c) \/ (run_[c] /\ ~Stops(x, c))),
           run_' \in [Components -> BOOLEAN],
           thread' \in [Components -> States],
           \A c \in Components : thread'[c] = thread[c] \/ Starts(x, c),
           \A c \in Components : Awaits(x, c) => thread'[c] \in {"none", "ended"}
    PROVE  IInv'
  <1>1. object = [o \in Objects |-> object[o]] /\ wild = FALSE
    BY DEF IInv
  <1>2. \A o \in Objects : ~Creates(x, o)
    BY DEF Creates
  <1>3. object' = [o \in Objects |->
                     IF Creates(x, o) THEN "alive"
                     ELSE IF Frees(x, o) /\ object[o] # "none" THEN "deleted" ELSE object[o]]
    BY <1>1, <1>2
  <1>4. run_' = [c \in Components |-> Runs(x, c) \/ (run_[c] /\ ~Stops(x, c))]
    OBVIOUS
  <1> QED BY <1>1, <1>3, <1>4, StepKeeps DEF Few

LEMMA SetRunKeeps == ASSUME Few, IInv, NEW a \in DOMAIN at, SetRun(a) PROVE IInv'
  <1>x. PICK x : x = Now(a)
    OBVIOUS
  <1>1. /\ Running(a) /\ x.op = "run" /\ Advance(a) /\ program' = program
        /\ object' = object /\ thread' = thread /\ wild' = wild
        /\ run_' = [run_ EXCEPT ![x.c] = TRUE]
    BY <1>x DEF SetRun, Step
  <1>2. /\ \A o \in Objects : ~Frees(x, o)
        /\ \A c \in Components : ~Starts(x, c) /\ ~Awaits(x, c) /\ ~Stops(x, c)
        /\ \A c \in Components : Runs(x, c) <=> x.c = c
    BY <1>1 DEF Frees, Starts, Awaits, Stops, Runs
  <1>3. \A c \in Components : run_'[c] = IF x.c = c THEN TRUE ELSE run_[c]
    BY <1>1, Typed
  <1>4. \A c \in Components : run_'[c] = (Runs(x, c) \/ (run_[c] /\ ~Stops(x, c)))
    BY <1>2, <1>3, Typed
  <1>5. run_' \in [Components -> BOOLEAN]
    BY <1>1, Typed
  <1> QED BY <1>x, <1>1, <1>2, <1>4, <1>5, Typed, PlainKeeps

(* Steps that change nothing but the position, when that is right.          *)
LEMMA QuietKeeps ==
    ASSUME Few, IInv, NEW a \in DOMAIN at, Running(a), Advance(a), program' = program,
           UNCHANGED <<object, run_, thread, wild>>,
           NEW x, x = Now(a), x.op \notin {"new", "run", "thread"},
           \A o \in Objects : Frees(x, o) => object[o] = "none",
           \A c \in Components : Stops(x, c) => run_[c] = FALSE,
           \A c \in Components : Awaits(x, c) => thread[c] \in {"none", "ended"}
    PROVE  IInv'
  <1>1. \A c \in Components : ~Runs(x, c) /\ ~Starts(x, c)
    BY DEF Runs, Starts
  <1>2. \A c \in Components : run_'[c] = (Runs(x, c) \/ (run_[c] /\ ~Stops(x, c)))
    BY <1>1, Typed
  <1> QED BY <1>2, Typed, PlainKeeps

LEMMA CreateThreadKeeps == ASSUME Few, IInv, NEW a \in DOMAIN at, CreateThread(a) PROVE IInv'
  <1>x. PICK x : x = Now(a)
    OBVIOUS
  <1>1. /\ Running(a) /\ x.op = "thread" /\ Advance(a) /\ program' = program
        /\ object' = object /\ run_' = run_ /\ wild' = wild
        /\ thread' = [thread EXCEPT ![x.c] = "started"]
    BY <1>x DEF CreateThread, Step
  <1>2. /\ \A o \in Objects : ~Frees(x, o)
        /\ \A c \in Components : ~Awaits(x, c) /\ ~Stops(x, c) /\ ~Runs(x, c)
        /\ \A c \in Components : Starts(x, c) <=> x.c = c
    BY <1>1 DEF Frees, Starts, Awaits, Stops, Runs
  <1>3. \A c \in Components : thread'[c] = thread[c] \/ Starts(x, c)
    BY <1>1, <1>2, Typed
  <1>4. thread' \in [Components -> States]
    BY <1>1, Typed DEF States
  <1>5. \A c \in Components : run_'[c] = (Runs(x, c) \/ (run_[c] /\ ~Stops(x, c)))
    BY <1>1, <1>2, Typed
  <1> QED BY <1>x, <1>1, <1>2, <1>3, <1>4, <1>5, Typed, PlainKeeps

LEMMA ReturnThreadKeeps == ASSUME Few, IInv, NEW a \in DOMAIN at, ReturnThread(a) PROVE IInv'
  <1>1. /\ Running(a) /\ Now(a).op = "wait" /\ Advance(a) /\ program' = program
        /\ UNCHANGED <<object, run_, thread, wild>>
    BY DEF ReturnThread, Step
  <1>2. /\ \A o \in Objects : ~Frees(Now(a), o)
        /\ \A c \in Components : ~Awaits(Now(a), c) /\ ~Stops(Now(a), c)
    BY <1>1 DEF Frees, Awaits, Stops
  <1> QED BY <1>1, <1>2, QuietKeeps

LEMMA ExitKeeps == ASSUME Few, IInv, NEW a \in DOMAIN at, Exit(a) PROVE IInv'
  <1>1. /\ Running(a) /\ Now(a).op = "exit" /\ Advance(a) /\ program' = program
        /\ UNCHANGED <<object, run_, thread, wild>>
    BY DEF Exit, Step
  <1>2. /\ \A o \in Objects : ~Frees(Now(a), o)
        /\ \A c \in Components : ~Awaits(Now(a), c) /\ ~Stops(Now(a), c)
    BY <1>1 DEF Frees, Awaits, Stops
  <1> QED BY <1>1, <1>2, QuietKeeps

LEMMA SkipKeeps == ASSUME Few, IInv, NEW a \in DOMAIN at, Skip(a) PROVE IInv'
  <1>x. PICK x : x = Now(a)
    OBVIOUS
  <1>1. /\ Running(a) /\ x.op \in {"stop", "sleep", "free"} /\ Advance(a) /\ program' = program
        /\ x.c # "none" /\ object[x.c] = "none" /\ UNCHANGED <<object, run_, thread, wild>>
    BY <1>x DEF Skip
  <1>2. \A o \in Objects : Frees(x, o) => object[o] = "none"
    BY <1>1 DEF Frees
  <1>3. \A c \in Components : Stops(x, c) => run_[c] = FALSE
    BY <1>1, Unmade DEF Stops
  <1>4. ASSUME NEW c \in Components, Awaits(x, c) PROVE thread[c] = "none"
    <2>1. x.c \in Objects /\ (ObjectOf(x.c) = "none" => ObjectOf(c) = "none")
      BY <1>1, <1>4 DEF Awaits
    <2>2. object[c] = "none"
      BY <1>1, <2>1 DEF IInv, Objects
    <2> QED BY <2>2, Unmade
  <1> QED BY <1>x, <1>1, <1>2, <1>3, <1>4, QuietKeeps

LEMMA StopKeeps == ASSUME Few, IInv, NEW a \in DOMAIN at, Stop(a) PROVE IInv'
  <1>x. PICK x : x = Now(a)
    OBVIOUS
  <1>1. /\ Running(a) /\ x.op = "stop" /\ Advance(a) /\ program' = program
        /\ object' = object /\ thread' = thread
        /\ run_' = [run_ EXCEPT ![x.c] = FALSE]
        /\ wild' = (wild \/ object[x.c] = "deleted")
    BY <1>x DEF Stop, Step
  <1>2. /\ \A o \in Objects : ~Frees(x, o)
        /\ \A c \in Components : ~Starts(x, c) /\ ~Awaits(x, c) /\ ~Runs(x, c)
        /\ \A c \in Components : Stops(x, c) <=> x.c = c
    BY <1>1 DEF Frees, Starts, Awaits, Stops, Runs
  <1>3. \A c \in Components : run_'[c] = IF x.c = c THEN FALSE ELSE run_[c]
    BY <1>1, Typed
  <1>4. \A c \in Components : run_'[c] = (Runs(x, c) \/ (run_[c] /\ ~Stops(x, c)))
    BY <1>2, <1>3, Typed
  <1>5. run_' \in [Components -> BOOLEAN]
    BY <1>1, Typed
  <1>6. x.c \in Components /\ object[x.c] # "deleted"
    <2>1. x.c \in Components
      BY <1>x, <1>1, Whose DEF Few
    <2>2. ObjectOf(x.c) # "deleted"
      BY <1>x, <1>1, <1>2, <2>1, Moved DEF Few
    <2> QED BY <2>1, <2>2 DEF IInv, Objects
  <1>7. wild' = wild
    BY <1>1, <1>6, Typed
  <1> QED BY <1>x, <1>1, <1>2, <1>4, <1>5, <1>7, Typed, PlainKeeps

(* Who has been told to end has ended when a sleep is over.                 *)
LEMMA SleepKeeps == ASSUME Few, Prompt, IInv, NEW a \in DOMAIN at, Sleep(a) PROVE IInv'
  <1>x. PICK x : x = Now(a)
    OBVIOUS
  <1>1. /\ Running(a) /\ x.op = "sleep" /\ Advance(a) /\ program' = program
        /\ UNCHANGED <<object, run_, thread, wild>> /\ CaughtUp
    BY <1>x DEF Sleep, Step
  <1>2. /\ \A o \in Objects : ~Frees(x, o)
        /\ \A c \in Components : ~Stops(x, c)
    BY <1>1 DEF Frees, Stops
  <1>3. ASSUME NEW c \in Components, Awaits(x, c) PROVE thread[c] \in {"none", "ended"}
    <2>1. run_[c] = FALSE
      BY <1>3, Typed DEF Awaits, IInv
    <2> QED BY <1>1, <2>1, Typed DEF CaughtUp, States
  <1> QED BY <1>x, <1>1, <1>2, <1>3, QuietKeeps

LEMMA FreeKeeps == ASSUME Few, IInv, NEW a \in DOMAIN at, Free(a) PROVE IInv'
  <1>x. PICK x : x = Now(a)
    OBVIOUS
  <1>1. /\ Running(a) /\ x.op = "free" /\ Advance(a) /\ program' = program
        /\ run_' = run_ /\ thread' = thread /\ object[x.c] # "none"
        /\ object' = [object EXCEPT ![x.c] = "deleted"]
        /\ wild' = (wild \/ object[x.c] = "deleted")
    BY <1>x DEF Free, Step
  <1>2. x.c \in Objects /\ object[x.c] # "deleted"
    <2>1. x.c \in Objects
      BY <1>x, <1>1, Whose DEF Few
    <2>2. ObjectOf(x.c) # "deleted"
      BY <1>x, <1>1, <2>1, Moved DEF Few, Frees
    <2> QED BY <2>1, <2>2 DEF IInv
  <1>3. object' = [o \in Objects |->
                     IF Creates(x, o) THEN "alive"
                     ELSE IF Frees(x, o) /\ object[o] # "none" THEN "deleted" ELSE object[o]]
    <2>1. \A o \in Objects : ~Creates(x, o) /\ (Frees(x, o) <=> x.c = o)
      BY <1>1 DEF Creates, Frees
    <2> QED BY <1>1, <1>2, <2>1, Typed
  <1>4. \A c \in Components : ~Runs(x, c) /\ ~Stops(x, c) /\ ~Starts(x, c) /\ ~Awaits(x, c)
    BY <1>1 DEF Runs, Stops, Starts, Awaits
  <1>5. run_' = [c \in Components |-> Runs(x, c) \/ (run_[c] /\ ~Stops(x, c))]
    BY <1>1, <1>4, Typed
  <1>6. /\ thread' \in [Components -> States] /\ wild' = FALSE
        /\ \A c \in Components : thread'[c] = thread[c] \/ Starts(x, c)
        /\ \A c \in Components : Awaits(x, c) => thread'[c] \in {"none", "ended"}
    BY <1>1, <1>2, <1>4, Typed DEF IInv
  <1> QED
    <2>1. Running(a) /\ Advance(a) /\ program' = program
      BY <1>1
    <2> QED BY ONLY Few, IInv, a \in DOMAIN at, <1>x, <2>1, <1>3, <1>5, <1>6, StepKeeps DEF Few

LEMMA OfMainKeeps ==
    ASSUME Few, Prompt, IInv, EndRandom \/ Silent \/ SeeNoResponses PROVE IInv'
  <1>1. /\ main \in DOMAIN at /\ Running(main) /\ Now(main).op \in {"random", "silence", "responses"}
        /\ Advance(main) /\ program' = program /\ UNCHANGED <<object, run_, thread, wild>>
    BY DEF EndRandom, Silent, SeeNoResponses, Step, IInv, Positions
  <1>2. /\ \A o \in Objects : ~Frees(Now(main), o)
        /\ \A c \in Components : ~Awaits(Now(main), c) /\ ~Stops(Now(main), c)
    BY <1>1 DEF Frees, Awaits, Stops
  <1> QED BY <1>1, <1>2, QuietKeeps

(* A step that leaves objects and flags alone, and after which main and who *)
(* ends the program are past the same marks as before.                      *)
LEMMA SamePlaces ==
    ASSUME IInv, Positions', program' = program, UNCHANGED <<object, run_, wild>>,
           thread' \in [Components -> States],
           \A o \in Own \cup {"logger"} :
             /\ at'[main] <= NewAt[o] <=> at[main] <= NewAt[o]
             /\ Ending' > FreeAt[o] <=> Ending > FreeAt[o],
           \A c \in Own : /\ at'[main] > RunAt[c] <=> at[main] > RunAt[c]
                          /\ Ending' <= StopAt[c] <=> Ending <= StopAt[c]
                          /\ at'[main] > ThreadAt[c] <=> at[main] > ThreadAt[c]
                          /\ Ending' > SleepAt[c] <=> Ending > SleepAt[c],
           \A c \in Components : /\ thread[c] \in {"none", "ended"} => thread'[c] = thread[c]
                                 /\ thread[c] = "none" => thread'[c] = "none"
    PROVE  IInv'
  <1>1. Own' = Own /\ FreeAt' = FreeAt
    BY DEF Own, FreeAt
  <1>2. \A o \in Objects : ObjectOf(o)' = ObjectOf(o)
    <2> SUFFICES ASSUME NEW o \in Objects PROVE ObjectOf(o)' = ObjectOf(o)
      OBVIOUS
    <2>1. CASE o \in Own \cup {"logger"}
      <3>1. /\ at'[main] <= NewAt[o] <=> at[main] <= NewAt[o]
            /\ Ending' > FreeAt[o] <=> Ending > FreeAt[o]
        BY <2>1
      <3> QED BY <1>1, <3>1 DEF ObjectOf
    <2>2. CASE o \notin Own \cup {"logger"}
      BY <1>1, <2>2 DEF ObjectOf
    <2> QED BY <2>1, <2>2
  <1>3. \A c \in Components : FlagOf(c)' = FlagOf(c)
    <2> SUFFICES ASSUME NEW c \in Components PROVE FlagOf(c)' = FlagOf(c)
      OBVIOUS
    <2>1. CASE c \in Own
      <3>1. /\ at'[main] > RunAt[c] <=> at[main] > RunAt[c]
            /\ Ending' <= StopAt[c] <=> Ending <= StopAt[c]
        BY <2>1
      <3> QED BY <1>1, <3>1 DEF FlagOf
    <2>2. CASE c \notin Own
      BY <1>1, <2>2 DEF FlagOf
    <2> QED BY <2>1, <2>2
  <1>4. ThreadsFollow'
    <2> SUFFICES ASSUME NEW c \in Components
                 PROVE  /\ thread'[c] # "none" => c \in Own' /\ at'[main] > ThreadAt[c]
                        /\ c \in Own' /\ Ending' > SleepAt[c] => thread'[c] \in {"none", "ended"}
      BY DEF ThreadsFollow, ThreadAt, SleepAt
    <2>1. /\ thread[c] # "none" => c \in Own /\ at[main] > ThreadAt[c]
          /\ c \in Own /\ Ending > SleepAt[c] => thread[c] \in {"none", "ended"}
      BY DEF IInv, ThreadsFollow
    <2>2. c \in Own => /\ at'[main] > ThreadAt[c] <=> at[main] > ThreadAt[c]
                       /\ Ending' > SleepAt[c] <=> Ending > SleepAt[c]
      OBVIOUS
    <2>3. /\ thread[c] \in {"none", "ended"} => thread'[c] = thread[c]
          /\ thread[c] = "none" => thread'[c] = "none"
      OBVIOUS
    <2> QED BY <1>1, <2>1, <2>2, <2>3
  <1>5. object' = [o \in Objects |-> ObjectOf(o)']
    BY <1>2 DEF IInv
  <1>6. run_' = [c \in Components |-> FlagOf(c)']
    BY <1>3 DEF IInv
  <1> QED BY <1>4, <1>5, <1>6 DEF IInv, States

LEMMA InPlaceKeeps ==
    ASSUME IInv, UNCHANGED <<program, at, object, run_, wild>>,
           thread' \in [Components -> States],
           \A c \in Components : thread[c] \in {"none", "ended"} => thread'[c] = thread[c]
    PROVE  IInv'
  <1>1. Positions' /\ Ending' = Ending
    BY DEF IInv, Positions, Ending
  <1> QED BY <1>1, SamePlaces

(* Main looks at the responses once more: it is past every start and before *)
(* every stop.                                                              *)
LEMMA SeeNoUpdatesKeeps == ASSUME Few, IInv, SeeNoUpdates PROVE IInv'
  <1>1. /\ main \in DOMAIN at /\ Running(main) /\ Now(main).op = "updates"
        /\ at' = [at EXCEPT ![main] = IF inbox["consumer"] = 0 THEN @ + 1 ELSE @ - 1]
        /\ program' = program /\ UNCHANGED <<object, run_, thread, wild>>
    BY DEF SeeNoUpdates, IInv, Positions
  <1>2. CASE inbox["consumer"] = 0
    <2>1. Advance(main)
      BY <1>1, <1>2 DEF Advance
    <2>2. /\ \A o \in Objects : ~Frees(Now(main), o)
          /\ \A c \in Components : ~Awaits(Now(main), c) /\ ~Stops(Now(main), c)
      BY <1>1 DEF Frees, Awaits, Stops
    <2> QED BY <1>1, <2>1, <2>2, QuietKeeps
  <1>3. CASE inbox["consumer"] # 0
    <2>0. Positions /\ DOMAIN at = {main} \cup Handlers /\ Handlers = 1 .. MaxSignals /\ main = 0
      BY DEF IInv, Positions, Handlers, main
    <2>1. at[main] \in Nat /\ at[main] > 0 /\ at[main] <= Len(Script(main))
      BY <1>1, <2>0 DEF Running, Begun, Positions
    <2>u. Script(main)[at[main]].op = "updates"
      BY <1>1 DEF Now
    <2>2. program # "exchange"
      <3> SUFFICES ASSUME program = "exchange" PROVE FALSE
        OBVIOUS
      <3>1. Script(main) = exchange_main
        BY DEF Script
      <3>2. PICK k : k = at[main]
        OBVIOUS
      <3>0. Len(Script(main)) = 17
        BY <3>1, ExchangeMain
      <3>3. k \in 1 .. 17
        BY ONLY <2>1, <3>0, <3>2
      <3>4. exchange_main[k].op = "updates"
        BY <2>u, <3>1, <3>2
      <3> QED BY <3>3, <3>4, ExchangeMain, SMTT(30) DEF Do
    <2>3. program = "trading" /\ Own = Trading
      BY <2>0, <2>2 DEF Positions, Own
    <2>4. at[main] = 18
      <3>1. Script(main) = trading_main
        BY <2>3 DEF Script
      <3>2. PICK k : k = at[main]
        OBVIOUS
      <3>0. Len(Script(main)) = 34
        BY <3>1, TradingMain
      <3>3. k \in 1 .. 34
        BY ONLY <2>1, <3>0, <3>2
      <3>4. trading_main[k].op = "updates"
        BY <2>u, <3>1, <3>2
      <3>5. k = 18
        BY <3>3, <3>4, TradingStep, SMTT(60) DEF Do
      <3> QED BY <3>2, <3>5
    <2>5. at'[main] = 17 /\ Ending = 18 /\ Ending' = 17
      BY <1>1, <1>3, <2>0, <2>3, <2>4 DEF Ending
    <2>6. Positions'
      BY <1>1, <1>3, <2>0, <2>4, <2>5 DEF Positions, Handlers
    <2>7. /\ \A o \in Trading \cup {"logger"} : NewAt[o] \in 0 .. 16 /\ FreeAt[o] \in 19 .. 40
          /\ \A c \in Trading : /\ RunAt[c] \in 0 .. 16 /\ ThreadAt[c] \in 0 .. 16
                                /\ StopAt[c] \in 19 .. 40 /\ SleepAt[c] \in 19 .. 40
      BY <2>3, SMT DEF Trading, NewAt, FreeAt, RunAt, ThreadAt, StopAt, SleepAt
    <2>8. \A o \in Own \cup {"logger"} : /\ at'[main] <= NewAt[o] <=> at[main] <= NewAt[o]
                                         /\ Ending' > FreeAt[o] <=> Ending > FreeAt[o]
      BY <2>3, <2>4, <2>5, <2>7
    <2>9. \A c \in Own : /\ at'[main] > RunAt[c] <=> at[main] > RunAt[c]
                         /\ Ending' <= StopAt[c] <=> Ending <= StopAt[c]
                         /\ at'[main] > ThreadAt[c] <=> at[main] > ThreadAt[c]
                         /\ Ending' > SleepAt[c] <=> Ending > SleepAt[c]
      BY <2>3, <2>4, <2>5, <2>7
    <2> QED BY <1>1, <2>6, <2>8, <2>9, Typed, SamePlaces
  <1> QED BY <1>2, <1>3

(* The handler begins, and has done nothing yet.                            *)
LEMMA SignalKeeps == ASSUME Few, IInv, NEW h \in Handlers, Signal(h) PROVE IInv'
  <1>0. Positions /\ DOMAIN at = {main} \cup Handlers /\ Handlers = 1 .. MaxSignals /\ main = 0
    BY DEF IInv, Positions, Handlers, main
  <1>1. h = 1
    BY <1>0 DEF Few
  <1>2. /\ program = "exchange" /\ at[h] = 0 /\ at' = [at EXCEPT ![h] = 1] /\ thread' = thread
        /\ program' = program /\ UNCHANGED <<object, run_, wild>>
    BY <1>1 DEF Signal
  <1>3. at'[main] = at[main] /\ Ending = 0 /\ Ending' = 1
    BY <1>0, <1>1, <1>2 DEF Ending, Positions
  <1>4. Positions'
    BY <1>0, <1>2, <1>3 DEF Positions, Handlers
  <1>5. /\ \A o \in Exchange \cup {"logger"} : FreeAt[o] \in 1 .. 40
        /\ \A c \in Exchange : StopAt[c] \in 1 .. 40 /\ SleepAt[c] \in 1 .. 40
    BY <1>2, SMT DEF Exchange, FreeAt, StopAt, SleepAt
  <1>6. Own = Exchange
    BY <1>2 DEF Own
  <1>7. \A o \in Own \cup {"logger"} : /\ at'[main] <= NewAt[o] <=> at[main] <= NewAt[o]
                                       /\ Ending' > FreeAt[o] <=> Ending > FreeAt[o]
    BY <1>3, <1>5, <1>6
  <1>8. \A c \in Own : /\ at'[main] > RunAt[c] <=> at[main] > RunAt[c]
                       /\ Ending' <= StopAt[c] <=> Ending <= StopAt[c]
                       /\ at'[main] > ThreadAt[c] <=> at[main] > ThreadAt[c]
                       /\ Ending' > SleepAt[c] <=> Ending > SleepAt[c]
    BY <1>3, <1>5, <1>6
  <1> QED BY <1>2, <1>4, <1>7, <1>8, Typed, SamePlaces

LEMMA ThreadKeeps == ASSUME IInv, NEW c \in Components, Thread(c) PROVE IInv'
  <1>1. CASE Announce(c)
    <2>1. /\ UNCHANGED <<program, at, object, run_, wild>> /\ thread[c] = "started"
          /\ thread' = [thread EXCEPT ![c] = "announced"]
      BY <1>1 DEF Announce
    <2> QED BY <2>1, Typed, InPlaceKeeps DEF States
  <1>2. CASE EnterRun(c)
    <2>1. /\ UNCHANGED <<program, at, object, run_, wild>> /\ thread[c] = "announced"
          /\ thread' = [thread EXCEPT ![c] = "test"]
      BY <1>2 DEF EnterRun
    <2> QED BY <2>1, Typed, InPlaceKeeps DEF States
  <1>3. CASE TestRun(c)
    <2>1. /\ UNCHANGED <<program, at, object, run_, wild>> /\ thread[c] = "test"
          /\ thread' = [thread EXCEPT ![c] = IF run_[c] THEN "body" ELSE "ended"]
      BY <1>3 DEF TestRun
    <2> QED BY <2>1, Typed, InPlaceKeeps DEF States
  <1>4. CASE Body(c)
    <2>1. /\ UNCHANGED <<program, at, object, run_, wild>> /\ thread[c] = "body"
          /\ thread' = [thread EXCEPT ![c] = "test"]
      BY <1>4 DEF Body
    <2> QED BY <2>1, Typed, InPlaceKeeps DEF States
  <1> QED BY <1>1, <1>2, <1>3, <1>4 DEF Thread

LEMMA NextKeeps == ASSUME Few, Prompt, IInv, [Next]_vars PROVE IInv'
  <1>1. ASSUME NEW a \in DOMAIN at, Activity(a) PROVE IInv'
    BY <1>1, CreateKeeps, SetRunKeeps, CreateThreadKeeps, ReturnThreadKeeps, SkipKeeps,
       StopKeeps, SleepKeeps, FreeKeeps, ExitKeeps DEF Activity
  <1>2. CASE Main
    BY <1>2, OfMainKeeps, SeeNoUpdatesKeeps DEF Main
  <1>3. CASE SendRandom
    <2>1. UNCHANGED <<program, at, object, run_, thread, wild>>
      BY <1>3 DEF SendRandom
    <2> QED BY <2>1, Typed, InPlaceKeeps
  <1>4. ASSUME NEW h \in Handlers, Signal(h) PROVE IInv'
    BY <1>4, SignalKeeps
  <1>5. ASSUME NEW c \in Components, Thread(c) PROVE IInv'
    BY <1>5, ThreadKeeps
  <1>6. CASE UNCHANGED vars
    <2>1. UNCHANGED <<program, at, object, run_, thread, wild>>
      BY <1>6 DEF vars
    <2> QED BY <2>1, Typed, InPlaceKeeps
  <1> QED BY <1>1, <1>2, <1>3, <1>4, <1>5, <1>6 DEF Next, Ended

-----------------------------------------------------------------------------
(* Objects, flags and threads are always what the position of main and of   *)
(* the handler says (exchange_main.cpp:12-40, trading_main.cpp): an object  *)
(* is deleted only after its thread has been told to end and a sleep has    *)
(* passed.                                                                  *)
THEOREM IInvAlways == Prompt /\ MaxSignals <= 1 => (Spec => []IInv)
  <1> SUFFICES ASSUME Prompt, MaxSignals <= 1 PROVE Spec => []IInv
    OBVIOUS
  <1>0. Few
    BY ProgramAssumption DEF Few
  <1>1. IInv /\ [Next]_vars => IInv'
    BY <1>0, NextKeeps
  <1> QED BY <1>1, InitIInv, PTL DEF Spec

(* No thread works with an object that has been deleted, and none is        *)
(* deleted twice or told to stop after that, wherever in the start or the   *)
(* loops the end begins, when threads keep up with the sleeps and one       *)
(* SIGINT is sent (matching_engine.cpp:17-29, market_data_publisher.h:24).  *)
THEOREM ProgramsSafe == Prompt /\ MaxSignals <= 1 => (Spec => []NoUseAfterFree)
  <1> SUFFICES ASSUME Prompt, MaxSignals <= 1 PROVE Spec => []NoUseAfterFree
    OBVIOUS
  <1>1. Spec => []IInv
    BY IInvAlways
  <1> QED BY <1>1, IInvIsSafe, PTL

-----------------------------------------------------------------------------
(* A logger with one thread that logs.                                      *)
Chars == {"f", "h", ":", "42", "x", "%", "!"}

LogTypes ==
    /\ store_ \in [0 .. Size - 1 -> {<<>>} \cup LogElement]
    /\ next_write_index_ \in 0 .. Size - 1 /\ next_read_index_ \in 0 .. Size - 1
    /\ num_elements_ \in Int
    /\ pc \in [Threads -> {"idle", "log", "slot", "load", "store", "count"}]
    /\ fmt \in [Threads -> Seq(Chars \cup {"%%"})] /\ args \in [Threads -> Seq(Seq(Chars))]
    /\ out \in [Threads -> Seq(Chars)] /\ index \in [Threads -> Nat]
    /\ said \in [Threads -> Seq(Chars)] /\ pushed \in [Threads -> Nat]
    /\ fpc \in {"while", "next", "for", "index", "count"} /\ file_ \in Seq(LogElement)

(* What is left to print, r, of a call with the format f and arguments a    *)
(* left of it.                                                              *)
Left(f, a, r) ==
    \/ f = <<>> /\ r = <<>>
    \/ f = <<"%">> /\ a = << <<"42">> >> /\ r = <<"42">>
    \/ f = <<":", "%">> /\ a = << <<"42">> >> /\ r = <<":", "42">>
    \/ /\ f = <<"%", ":", "%">> /\ a = << <<"f", "h">>, <<"42">> >>
       /\ r = <<"f", "h", ":", "42">>
    \/ f = <<"%%">> /\ a = <<>> /\ r = <<"%">>
    \/ f = <<"x", "%%">> /\ a = <<>> /\ r = <<"x", "%">>
    \/ f = <<"!">> /\ r = <<"!">>
    \/ f = <<"%", "!">> /\ a = << <<"f">>, <<"42">> >> /\ r = <<"f", "!">>

(* How many elements the index counts as written, and as read, and how many *)
(* num_elements_ has counted down.                                          *)
Stored(t) == IF pc[t] = "count" THEN pushed[t] + 1 ELSE pushed[t]
Taken == IF fpc = "index" THEN Len(file_) - 1 ELSE Len(file_)
Uncounted == IF fpc \in {"index", "count"} THEN Len(file_) - 1 ELSE Len(file_)

(* The slot i places behind the read index. *)
Behind(i) == IF next_read_index_ + i < Size THEN next_read_index_ + i
             ELSE next_read_index_ + i - Size

(* Indices and counter are as far apart as those numbers, and the ring      *)
(* holds what is said between them.                                         *)
LogRing(t) ==
    /\ Taken >= 0 /\ Taken <= Stored(t) /\ Stored(t) - Taken < Size
    /\ next_write_index_ = Behind(Stored(t) - Taken)
    /\ num_elements_ = pushed[t] - Uncounted /\ Uncounted >= 0
    /\ Len(file_) <= pushed[t]
    /\ \A i \in 0 .. Stored(t) - Taken - 1 : store_[Behind(i)] = <<t, said[t][Taken + i + 1]>>

(* The element being pushed, what is left of its value and of its call are  *)
(* what is said behind what has been pushed.                                *)
Writing(t) ==
    /\ pc[t] \in {"slot", "load", "store", "count"} <=> out[t] # <<>>
    /\ pc[t] = "idle" => fmt[t] = <<>>
    /\ pc[t] \in {"load", "store"} => /\ Stored(t) - Taken < Size - 1
                                      /\ store_[next_write_index_] = <<t, Head(out[t])>>
    /\ pc[t] = "store" => index[t] = next_write_index_
    /\ pushed[t] <= Len(said[t])
    /\ \E r \in Seq(Chars) : /\ Left(fmt[t], args[t], r)
                             /\ out[t] \o r = SubSeq(said[t], pushed[t] + 1, Len(said[t]))

Flushing(t) ==
    /\ \A k \in 1 .. Len(file_) : file_[k] = <<t, said[t][k]>>
    /\ fpc = "for" /\ next # nullptr => next = next_read_index_ /\ Taken < Stored(t)
    /\ state \in {"joining", "closed"} => num_elements_ = 0

LogInv == LogTypes /\ \A t \in Threads : LogRing(t) /\ Writing(t) /\ Flushing(t)

-----------------------------------------------------------------------------
(* Induction over 0 .. n, for a set in the place of a predicate. *)
LEMMA UpTo ==
    ASSUME NEW n \in Nat, NEW T, 0 \in T, \A k \in 1 .. n : k - 1 \in T => k \in T
    PROVE  0 .. n \subseteq T
  <1> DEFINE U == {k \in 0 .. n : k \notin T}
  <1> SUFFICES ASSUME U # {} PROVE FALSE
    OBVIOUS
  <1>1. U \subseteq Nat /\ U # {}
    OBVIOUS
  <1> HIDE DEF U
  <1>2. PICK t \in U : \A u \in U : ~(<<u, t>> \in OpToRel(<, Nat))
    BY <1>1, WFMin, NatLessThanWellFounded, Zenon
  <1>3. \A u \in U : ~(u < t)
    BY <1>1, <1>2, Zenon DEF OpToRel
  <1>4. t \in 0 .. n /\ t \notin T /\ t # 0
    BY DEF U
  <1>5. t \in 1 .. n /\ t - 1 \in 0 .. n /\ t - 1 < t
    BY <1>4
  <1>6. t - 1 \in U
    BY <1>4, <1>5 DEF U
  <1> QED BY <1>3, <1>5, <1>6


-----------------------------------------------------------------------------
(* Short sequences, put together. *)
LEMMA Join11 == ASSUME NEW a, NEW b PROVE <<a>> \o <<b>> = <<a, b>>
  <1> DEFINE l == <<a>> \o <<b>>
             r == <<a, b>>
  <1>1. l \in Seq({a, b}) /\ r \in Seq({a, b}) /\ Len(l) = 2 /\ Len(r) = 2
    OBVIOUS
  <1>2. \A i \in 1 .. 2 : l[i] = r[i]
    OBVIOUS
  <1> HIDE DEF l, r
  <1>3. l = r
    BY <1>1, <1>2, SeqEqual
  <1> QED BY <1>3 DEF l, r

LEMMA Join21 == ASSUME NEW a, NEW b, NEW c PROVE <<a, b>> \o <<c>> = <<a, b, c>>
  <1> DEFINE l == <<a, b>> \o <<c>>
             r == <<a, b, c>>
  <1>1. l \in Seq({a, b, c}) /\ r \in Seq({a, b, c}) /\ Len(l) = 3 /\ Len(r) = 3
    OBVIOUS
  <1>2. \A i \in 1 .. 3 : l[i] = r[i]
    <2>1. l[1] = a /\ l[2] = b /\ l[3] = c
      OBVIOUS
    <2> QED BY <2>1
  <1> HIDE DEF l, r
  <1>3. l = r
    BY <1>1, <1>2, SeqEqual
  <1> QED BY <1>3 DEF l, r

LEMMA Join31 ==
    ASSUME NEW a, NEW b, NEW c, NEW d PROVE <<a, b, c>> \o <<d>> = <<a, b, c, d>>
  <1> DEFINE l == <<a, b, c>> \o <<d>>
             r == <<a, b, c, d>>
  <1>1. l \in Seq({a, b, c, d}) /\ r \in Seq({a, b, c, d}) /\ Len(l) = 4 /\ Len(r) = 4
    OBVIOUS
  <1>2. \A i \in 1 .. 4 : l[i] = r[i]
    <2>1. l[1] = a /\ l[2] = b /\ l[3] = c /\ l[4] = d
      OBVIOUS
    <2> QED BY <2>1
  <1> HIDE DEF l, r
  <1>3. l = r
    BY <1>1, <1>2, SeqEqual
  <1> QED BY <1>3 DEF l, r

LEMMA Join22 ==
    ASSUME NEW a, NEW b, NEW c, NEW d PROVE <<a, b>> \o <<c, d>> = <<a, b, c, d>>
  <1> DEFINE l == <<a, b>> \o <<c, d>>
             r == <<a, b, c, d>>
  <1>1. l \in Seq({a, b, c, d}) /\ r \in Seq({a, b, c, d}) /\ Len(l) = 4 /\ Len(r) = 4
    OBVIOUS
  <1>2. \A i \in 1 .. 4 : l[i] = r[i]
    <2>1. l[1] = a /\ l[2] = b /\ l[3] = c /\ l[4] = d
      OBVIOUS
    <2> QED BY <2>1
  <1> HIDE DEF l, r
  <1>3. l = r
    BY <1>1, <1>2, SeqEqual
  <1> QED BY <1>3 DEF l, r


-----------------------------------------------------------------------------
LEMMA SuccSlot ==
    ASSUME NEW i \in 0 .. Size - 1
    PROVE  Succ(i) = IF i + 1 = Size THEN 0 ELSE i + 1
  BY LoggerAssumption, SMT DEF Succ

LEMMA Distance ==
    ASSUME NEW w \in 0 .. Size - 1, NEW r \in 0 .. Size - 1
    PROVE  (w - r) % Size = IF w >= r THEN w - r ELSE w - r + Size
  BY LoggerAssumption, SMT

LEMMA BehindIs ==
    ASSUME next_read_index_ \in 0 .. Size - 1, NEW i \in 0 .. Size - 1
    PROVE  Behind(i) \in 0 .. Size - 1
  BY LoggerAssumption DEF Behind

LEMMA BehindZero ==
    ASSUME next_read_index_ \in 0 .. Size - 1 PROVE Behind(0) = next_read_index_
  <1>1. next_read_index_ + 0 = next_read_index_ /\ next_read_index_ < Size
    BY LoggerAssumption
  <1> QED BY <1>1, Zenon DEF Behind

LEMMA Wrap ==
    ASSUME next_read_index_ \in 0 .. Size - 1, NEW d \in 0 .. Size - 1
    PROVE  (Behind(d) - next_read_index_) % Size = d
  <1>1. Behind(d) \in 0 .. Size - 1
    BY BehindIs
  <1>2. (Behind(d) - next_read_index_) % Size = IF Behind(d) >= next_read_index_ THEN Behind(d) - next_read_index_ ELSE Behind(d) - next_read_index_ + Size
    BY <1>1, Distance
  <1> QED BY <1>2, LoggerAssumption DEF Behind

LEMMA SuccBehind ==
    ASSUME next_read_index_ \in 0 .. Size - 1, NEW d \in 0 .. Size - 2
    PROVE  Succ(Behind(d)) = Behind(d + 1) /\ Behind(d + 1) \in 0 .. Size - 1
  <1>1. Behind(d) \in 0 .. Size - 1
    BY BehindIs, LoggerAssumption
  <1>2. Succ(Behind(d)) = IF Behind(d) + 1 = Size THEN 0 ELSE Behind(d) + 1
    BY <1>1, SuccSlot
  <1> QED BY <1>2, LoggerAssumption DEF Behind

(* Two places less than a ring apart are different slots. *)
LEMMA Apart ==
    ASSUME next_read_index_ \in 0 .. Size - 1,
           NEW i \in 0 .. Size - 1, NEW j \in 0 .. Size - 1, Behind(i) = Behind(j)
    PROVE  i = j
  BY LoggerAssumption DEF Behind

-----------------------------------------------------------------------------
(* What the forms of call are meant to print. *)
Percents(form, i) == Cardinality({j \in 1 .. i : Call[form].fmt[j] = "%"})
Token(form, i) == IF Call[form].fmt[i] = "%" THEN Call[form].args[Percents(form, i)]
                  ELSE IF Call[form].fmt[i] = "%%" THEN <<"%">> ELSE <<Call[form].fmt[i]>>

(* w is what is printed up to each token of the format, of which it has n.  *)
Printing(form, n, w) ==
    /\ n = Len(Call[form].fmt) /\ w = [i \in 0 .. n |-> w[i]] /\ w[0] = <<>>
    /\ \A i \in 1 .. n : w[i] = w[i - 1] \o Token(form, i)

LEMMA PrintedIs ==
    ASSUME NEW form, NEW n \in Nat, NEW w, Printing(form, n, w)
    PROVE  Printed(form) = w[n]
  <1> USE DEF Printing
  <1> DEFINE F(g) == [i \in 0 .. Len(Call[form].fmt) |->
                        IF i = 0 THEN <<>>
                        ELSE g[i - 1] \o (IF Call[form].fmt[i] = "%"
                                          THEN Call[form].args[Cardinality({j \in 1 .. i : Call[form].fmt[j] = "%"})]
                                          ELSE IF Call[form].fmt[i] = "%%" THEN <<"%">> ELSE <<Call[form].fmt[i]>>)]
             G(g) == [i \in 0 .. n |-> IF i = 0 THEN <<>> ELSE g[i - 1] \o Token(form, i)]
             text == CHOOSE g : g = F(g)
             T == {i \in 0 .. n : text[i] = w[i]}
  <1>1. \A g : F(g) = G(g)
    BY DEF Token, Percents
  <1>2. w = G(w)
    <2>1. ASSUME NEW i \in 0 .. n PROVE w[i] = IF i = 0 THEN <<>> ELSE w[i - 1] \o Token(form, i)
      <3>1. i = 0 \/ i \in 1 .. n
        OBVIOUS
      <3> QED BY <3>1
    <2>2. [i \in 0 .. n |-> w[i]] = G(w)
      BY <2>1
    <2> QED BY <2>2
  <1>3. w = F(w)
    <2> HIDE DEF F, G
    <2> QED BY <1>1, <1>2
  <1>4. Printed(form) = text[Len(Call[form].fmt)]
    BY DEF Printed
  <1>5. text = F(text)
    <2> HIDE DEF F
    <2> QED BY <1>3
  <1>6. text = G(text)
    <2> HIDE DEF text, F, G
    <2> QED BY <1>1, <1>5
  <1> HIDE DEF text, F
  <1>7. 0 \in T
    <2>1. text[0] = <<>>
      BY <1>6
    <2> QED BY <2>1
  <1>8. ASSUME NEW k \in 1 .. n, k - 1 \in T PROVE k \in T
    <2>1. k \in 0 .. n /\ k # 0 /\ text[k - 1] = w[k - 1]
      BY <1>8
    <2>2. text[k] = text[k - 1] \o Token(form, k)
      BY <1>6, <2>1
    <2> QED BY <2>1, <2>2
  <1> HIDE DEF T
  <1>9. 0 .. n \subseteq T
    BY <1>7, <1>8, UpTo
  <1> QED BY <1>4, <1>9 DEF T


LEMMA UsualCall ==
    /\ Call["usual"].fmt = <<"%", ":", "%">> /\ Call["usual"].args = << <<"f", "h">>, <<"42">> >>
    /\ Printed("usual") = <<"f", "h", ":", "42">>
  <1>1. Call["usual"].fmt = <<"%", ":", "%">> /\ Call["usual"].args = << <<"f", "h">>, <<"42">> >>
    BY DEF Call
  <1>2. Percents("usual", 1) = 1 /\ Percents("usual", 3) = 2
    <2>1. {j \in 1 .. 1 : Call["usual"].fmt[j] = "%"} = {1}
      BY <1>1
    <2>2. {j \in 1 .. 3 : Call["usual"].fmt[j] = "%"} = {1} \cup {3}
      BY <1>1
    <2>3. Cardinality({1}) = 1 /\ IsFiniteSet({1})
      BY FS_Singleton
    <2>4. Cardinality({1} \cup {3}) = 2
      BY <2>3, FS_AddElement
    <2> QED BY <2>1, <2>2, <2>3, <2>4 DEF Percents
  <1>3. /\ Token("usual", 1) = <<"f", "h">> /\ Token("usual", 2) = <<":">>
        /\ Token("usual", 3) = <<"42">>
    BY <1>1, <1>2 DEF Token
  <1>4. PICK w : w = [i \in 0 .. 3 |-> IF i = 0 THEN <<>>
                                     ELSE IF i = 1 THEN <<"f", "h">>
                                     ELSE IF i = 2 THEN <<"f", "h", ":">>
                                     ELSE <<"f", "h", ":", "42">>]
    OBVIOUS
  <1>5. /\ <<>> \o <<"f", "h">> = <<"f", "h">> /\ <<"f", "h">> \o <<":">> = <<"f", "h", ":">>
        /\ <<"f", "h", ":">> \o <<"42">> = <<"f", "h", ":", "42">>
    BY Join21, Join31
  <1>6. w[0] = <<>> /\ w[1] = <<"f", "h">> /\ w[2] = <<"f", "h", ":">> /\ w[3] = <<"f", "h", ":", "42">>
    BY <1>4
  <1>7. \A i \in 1 .. 3 : w[i] = w[i - 1] \o Token("usual", i)
    <2>1. w[1] = w[0] \o Token("usual", 1) /\ w[2] = w[1] \o Token("usual", 2) /\ w[3] = w[2] \o Token("usual", 3)
      BY <1>3, <1>5, <1>6
    <2>2. ASSUME NEW i \in 1 .. 3 PROVE w[i] = w[i - 1] \o Token("usual", i)
      <3>1. i = 1 \/ i = 2 \/ i = 3
        OBVIOUS
      <3>2. CASE i = 1
        BY <2>1, <3>2
      <3>3. CASE i = 2
        <4>1. i - 1 = 1
          BY <3>3
        <4> QED BY <2>1, <3>3, <4>1, Zenon
      <3>4. CASE i = 3
        <4>1. i - 1 = 2
          BY <3>4
        <4> QED BY <2>1, <3>4, <4>1, Zenon
      <3> QED BY <3>1, <3>2, <3>3, <3>4
    <2> QED BY <2>2
  <1>8. /\ w = [i \in 0 .. 3 |-> w[i]]
        /\ 3 = Len(Call["usual"].fmt)
        /\ 3 \in Nat
    BY <1>1, <1>4
  <1>9. Printed("usual") = w[3]
    <2>1. Printing("usual", 3, w)
      BY <1>6, <1>7, <1>8 DEF Printing
    <2>2. 3 \in Nat
      OBVIOUS
    <2> QED BY <2>1, <2>2, PrintedIs, Zenon
  <1> QED BY <1>1, <1>6, <1>9

LEMMA PercentCall ==
    /\ Call["percent"].fmt = <<"x", "%%">> /\ Call["percent"].args = <<>>
    /\ Printed("percent") = <<"x", "%">>
  <1>1. Call["percent"].fmt = <<"x", "%%">> /\ Call["percent"].args = <<>>
    BY DEF Call
  <1>2. Token("percent", 1) = <<"x">> /\ Token("percent", 2) = <<"%">>
    BY <1>1 DEF Token
  <1>3. PICK w : w = [i \in 0 .. 2 |-> IF i = 0 THEN <<>>
                                     ELSE IF i = 1 THEN <<"x">>
                                     ELSE <<"x", "%">>]
    OBVIOUS
  <1>4. <<>> \o <<"x">> = <<"x">> /\ <<"x">> \o <<"%">> = <<"x", "%">>
    BY Join11
  <1>5. w[0] = <<>> /\ w[1] = <<"x">> /\ w[2] = <<"x", "%">>
    BY <1>3
  <1>6. \A i \in 1 .. 2 : w[i] = w[i - 1] \o Token("percent", i)
    <2>1. w[1] = w[0] \o Token("percent", 1) /\ w[2] = w[1] \o Token("percent", 2)
      BY <1>2, <1>4, <1>5
    <2>2. ASSUME NEW i \in 1 .. 2 PROVE w[i] = w[i - 1] \o Token("percent", i)
      <3>1. i = 1 \/ i = 2
        OBVIOUS
      <3>2. CASE i = 1
        BY <2>1, <3>2
      <3>3. CASE i = 2
        <4>1. i - 1 = 1
          BY <3>3
        <4> QED BY <2>1, <3>3, <4>1, Zenon
      <3> QED BY <3>1, <3>2, <3>3
    <2> QED BY <2>2
  <1>7. /\ w = [i \in 0 .. 2 |-> w[i]]
        /\ 2 = Len(Call["percent"].fmt)
        /\ 2 \in Nat
    BY <1>1, <1>3
  <1>8. Printed("percent") = w[2]
    <2>1. Printing("percent", 2, w)
      BY <1>5, <1>6, <1>7 DEF Printing
    <2>2. 2 \in Nat
      OBVIOUS
    <2> QED BY <2>1, <2>2, PrintedIs, Zenon
  <1> QED BY <1>1, <1>5, <1>8

LEMMA DefaultCall ==
    /\ Call["default"].fmt = <<"%", "!">> /\ Call["default"].args = << <<"f">>, <<"42">> >>
    /\ Printed("default") = <<"f", "!">>
  <1>1. Call["default"].fmt = <<"%", "!">> /\ Call["default"].args = << <<"f">>, <<"42">> >>
    BY DEF Call
  <1>2. Percents("default", 1) = 1
    <2>1. {j \in 1 .. 1 : Call["default"].fmt[j] = "%"} = {1}
      BY <1>1
    <2> QED BY <2>1, FS_Singleton DEF Percents
  <1>3. Token("default", 1) = <<"f">> /\ Token("default", 2) = <<"!">>
    BY <1>1, <1>2 DEF Token
  <1>4. PICK w : w = [i \in 0 .. 2 |-> IF i = 0 THEN <<>>
                                     ELSE IF i = 1 THEN <<"f">>
                                     ELSE <<"f", "!">>]
    OBVIOUS
  <1>5. <<>> \o <<"f">> = <<"f">> /\ <<"f">> \o <<"!">> = <<"f", "!">>
    BY Join11
  <1>6. w[0] = <<>> /\ w[1] = <<"f">> /\ w[2] = <<"f", "!">>
    BY <1>4
  <1>7. \A i \in 1 .. 2 : w[i] = w[i - 1] \o Token("default", i)
    <2>1. w[1] = w[0] \o Token("default", 1) /\ w[2] = w[1] \o Token("default", 2)
      BY <1>3, <1>5, <1>6
    <2>2. ASSUME NEW i \in 1 .. 2 PROVE w[i] = w[i - 1] \o Token("default", i)
      <3>1. i = 1 \/ i = 2
        OBVIOUS
      <3>2. CASE i = 1
        BY <2>1, <3>2
      <3>3. CASE i = 2
        <4>1. i - 1 = 1
          BY <3>3
        <4> QED BY <2>1, <3>3, <4>1, Zenon
      <3> QED BY <3>1, <3>2, <3>3
    <2> QED BY <2>2
  <1>8. /\ w = [i \in 0 .. 2 |-> w[i]]
        /\ 2 = Len(Call["default"].fmt)
        /\ 2 \in Nat
    BY <1>1, <1>4
  <1>9. Printed("default") = w[2]
    <2>1. Printing("default", 2, w)
      BY <1>6, <1>7, <1>8 DEF Printing
    <2>2. 2 \in Nat
      OBVIOUS
    <2> QED BY <2>1, <2>2, PrintedIs, Zenon
  <1> QED BY <1>1, <1>6, <1>9

(* A call is the whole of its format and arguments at first, and a step of  *)
(* the scan takes the next value off what is left.                          *)
LEMMA WholeIsLeft ==
    ASSUME NEW form \in Forms
    PROVE  /\ Left(Call[form].fmt, Call[form].args, Printed(form))
           /\ Call[form].fmt \in Seq(Chars \cup {"%%"}) /\ Call[form].args \in Seq(Seq(Chars))
           /\ Printed(form) \in Seq(Chars)
  <1>1. form = "usual" \/ form = "percent" \/ form = "default"
    BY FormAssumption DEF Call
  <1>2. CASE form = "usual"
    <2> DEFINE f == <<"%", ":", "%">>
               a == << <<"f", "h">>, <<"42">> >>
               r == <<"f", "h", ":", "42">>
    <2>1. Left(f, a, r)
      BY DEF Left
    <2>2. f \in Seq(Chars \cup {"%%"}) /\ r \in Seq(Chars)
      BY DEF Chars
    <2>3. <<"f", "h">> \in Seq(Chars) /\ <<"42">> \in Seq(Chars)
      BY DEF Chars
    <2>4. a \in Seq(Seq(Chars))
      BY <2>3
    <2>5. Call[form].fmt = f /\ Call[form].args = a /\ Printed(form) = r
      BY <1>2, UsualCall, Zenon
    <2> HIDE DEF f, a, r
    <2> QED BY <2>1, <2>2, <2>4, <2>5, Zenon
  <1>3. CASE form = "percent"
    <2> DEFINE f == <<"x", "%%">>
               r == <<"x", "%">>
    <2>1. Left(f, <<>>, r)
      BY DEF Left
    <2>2. f \in Seq(Chars \cup {"%%"}) /\ r \in Seq(Chars) /\ <<>> \in Seq(Seq(Chars))
      BY DEF Chars
    <2>3. Call[form].fmt = f /\ Call[form].args = <<>> /\ Printed(form) = r
      BY <1>3, PercentCall, Zenon
    <2> HIDE DEF f, r
    <2> QED BY <2>1, <2>2, <2>3, Zenon
  <1>4. CASE form = "default"
    <2> DEFINE f == <<"%", "!">>
               a == << <<"f">>, <<"42">> >>
               r == <<"f", "!">>
    <2>1. Left(f, a, r)
      BY DEF Left
    <2>2. f \in Seq(Chars \cup {"%%"}) /\ r \in Seq(Chars)
      BY DEF Chars
    <2>3. <<"f">> \in Seq(Chars) /\ <<"42">> \in Seq(Chars)
      BY DEF Chars
    <2>4. a \in Seq(Seq(Chars))
      BY <2>3
    <2>5. Call[form].fmt = f /\ Call[form].args = a /\ Printed(form) = r
      BY <1>4, DefaultCall, Zenon
    <2> HIDE DEF f, a, r
    <2> QED BY <2>1, <2>2, <2>4, <2>5, Zenon
  <1> QED BY <1>1, <1>2, <1>3, <1>4

(* What is left after a token that stands for the value v. *)
Scanned(f, a, v, r) ==
    \E rest \in Seq(Chars) :
        /\ Left(Tail(f), IF Head(f) = "%" THEN Tail(a) ELSE a, rest)
        /\ r = v \o rest

LEMMA ScanTakesValue ==
    ASSUME NEW f, NEW a, NEW r, f # <<>>, ~(Head(f) = "%" /\ a = <<>>), Left(f, a, r),
           NEW v, v = (CASE Head(f) = "%" -> Head(a) [] Head(f) = "%%" -> <<"%">>
                         [] OTHER -> <<Head(f)>>)
    PROVE  Scanned(f, a, v, r) /\ v \in Seq(Chars) /\ v # <<>>
  <1>1. CASE f = <<"%">> /\ a = << <<"42">> >> /\ r = <<"42">>
    <2>1. Head(f) = "%" /\ Tail(f) = <<>> /\ v = <<"42">>
      BY <1>1
    <2>2. Left(<<>>, Tail(a), <<>>)
      BY DEF Left
    <2>3. r = v \o <<>> /\ <<>> \in Seq(Chars)
      BY <1>1, <2>1
    <2>4. <<"42">> \in Seq(Chars) /\ <<"42">> # <<>>
      BY DEF Chars
    <2> QED BY <2>1, <2>2, <2>3, <2>4, Zenon DEF Scanned
  <1>2. CASE f = <<":", "%">> /\ a = << <<"42">> >> /\ r = <<":", "42">>
    <2>1. Head(f) = ":" /\ Head(f) # "%" /\ Tail(f) = <<"%">> /\ v = <<":">>
      BY <1>2
    <2>2. Left(<<"%">>, a, <<"42">>)
      BY <1>2 DEF Left
    <2>3. r = v \o <<"42">> /\ <<"42">> \in Seq(Chars)
      BY <1>2, <2>1, Join11 DEF Chars
    <2>4. <<":">> \in Seq(Chars) /\ <<":">> # <<>>
      BY DEF Chars
    <2> QED BY <2>1, <2>2, <2>3, <2>4, Zenon DEF Scanned
  <1>3. CASE /\ f = <<"%", ":", "%">> /\ a = << <<"f", "h">>, <<"42">> >>
             /\ r = <<"f", "h", ":", "42">>
    <2>1. Head(f) = "%" /\ Tail(f) = <<":", "%">> /\ v = <<"f", "h">> /\ Tail(a) = << <<"42">> >>
      BY <1>3
    <2>2. Left(<<":", "%">>, Tail(a), <<":", "42">>)
      BY <2>1 DEF Left
    <2>3. r = v \o <<":", "42">> /\ <<":", "42">> \in Seq(Chars)
      BY <1>3, <2>1, Join22 DEF Chars
    <2>4. <<"f", "h">> \in Seq(Chars) /\ <<"f", "h">> # <<>>
      BY DEF Chars
    <2> QED BY <2>1, <2>2, <2>3, <2>4, Zenon DEF Scanned
  <1>4. CASE f = <<"%%">> /\ a = <<>> /\ r = <<"%">>
    <2>1. Head(f) = "%%" /\ Head(f) # "%" /\ Tail(f) = <<>> /\ v = <<"%">>
      BY <1>4
    <2>2. Left(<<>>, a, <<>>)
      BY DEF Left
    <2>3. r = v \o <<>> /\ <<>> \in Seq(Chars)
      BY <1>4, <2>1
    <2>4. <<"%">> \in Seq(Chars) /\ <<"%">> # <<>>
      BY DEF Chars
    <2> QED BY <2>1, <2>2, <2>3, <2>4, Zenon DEF Scanned
  <1>5. CASE f = <<"x", "%%">> /\ a = <<>> /\ r = <<"x", "%">>
    <2>1. Head(f) = "x" /\ Head(f) # "%" /\ Tail(f) = <<"%%">> /\ v = <<"x">>
      BY <1>5
    <2>2. Left(<<"%%">>, a, <<"%">>)
      BY <1>5 DEF Left
    <2>3. r = v \o <<"%">> /\ <<"%">> \in Seq(Chars)
      BY <1>5, <2>1, Join11 DEF Chars
    <2>4. <<"x">> \in Seq(Chars) /\ <<"x">> # <<>>
      BY DEF Chars
    <2> QED BY <2>1, <2>2, <2>3, <2>4, Zenon DEF Scanned
  <1>6. CASE f = <<"!">> /\ r = <<"!">>
    <2>1. Head(f) = "!" /\ Head(f) # "%" /\ Tail(f) = <<>> /\ v = <<"!">>
      BY <1>6
    <2>2. Left(<<>>, a, <<>>)
      BY DEF Left
    <2>3. r = v \o <<>> /\ <<>> \in Seq(Chars)
      BY <1>6, <2>1
    <2>4. <<"!">> \in Seq(Chars) /\ <<"!">> # <<>>
      BY DEF Chars
    <2> QED BY <2>1, <2>2, <2>3, <2>4, Zenon DEF Scanned
  <1>7. CASE f = <<"%", "!">> /\ a = << <<"f">>, <<"42">> >> /\ r = <<"f", "!">>
    <2>1. Head(f) = "%" /\ Tail(f) = <<"!">> /\ v = <<"f">>
      BY <1>7
    <2>2. Left(<<"!">>, Tail(a), <<"!">>)
      BY DEF Left
    <2>3. r = v \o <<"!">> /\ <<"!">> \in Seq(Chars)
      BY <1>7, <2>1, Join11 DEF Chars
    <2>4. <<"f">> \in Seq(Chars) /\ <<"f">> # <<>>
      BY DEF Chars
    <2> QED BY <2>1, <2>2, <2>3, <2>4, Zenon DEF Scanned
  <1> QED BY <1>1, <1>2, <1>3, <1>4, <1>5, <1>6, <1>7, Zenon DEF Left

-----------------------------------------------------------------------------
(* What of a sequence is behind its n-th element. *)
LEMMA BehindAll ==
    ASSUME NEW S, NEW s \in Seq(S), NEW p \in Seq(S)
    PROVE  SubSeq(s \o p, Len(s) + 1, Len(s \o p)) = p
  <1> DEFINE l == SubSeq(s \o p, Len(s) + 1, Len(s \o p))
  <1>1. /\ s \o p \in Seq(S) /\ Len(s \o p) = Len(s) + Len(p)
        /\ \A i \in 1 .. Len(p) : (s \o p)[Len(s) + i] = p[i]
    BY ConcatProperties
  <1>2. \A i \in Len(s) + 1 .. Len(s \o p) : (s \o p)[i] \in S
    BY <1>1
  <1>3. /\ l \in Seq(S) /\ Len(l) = IF Len(s) + 1 <= Len(s \o p) THEN Len(s \o p) - (Len(s) + 1) + 1 ELSE 0
        /\ \A i \in 1 .. Len(s \o p) - (Len(s) + 1) + 1 : l[i] = (s \o p)[Len(s) + 1 + i - 1]
    <2>1. Len(s) + 1 \in Int /\ Len(s \o p) \in Int
      BY <1>1
    <2>2. PICK m, n \in Int : m = Len(s) + 1 /\ n = Len(s \o p)
      BY <2>1, Zenon
    <2>3. \A i \in m .. n : (s \o p)[i] \in S
      BY <1>2, <2>2, Zenon
    <2>4. /\ SubSeq(s \o p, m, n) \in Seq(S)
          /\ Len(SubSeq(s \o p, m, n)) = IF m <= n THEN n - m + 1 ELSE 0
          /\ \A i \in 1 .. n - m + 1 : SubSeq(s \o p, m, n)[i] = (s \o p)[m + i - 1]
      BY <2>2, <2>3, SubSeqProperties
    <2> QED BY <2>2, <2>4, Zenon
  <1> HIDE DEF l
  <1>4. Len(l) = Len(p)
    BY <1>1, <1>3
  <1>5. ASSUME NEW i \in 1 .. Len(p) PROVE l[i] = p[i]
    <2>1. i \in 1 .. Len(s \o p) - (Len(s) + 1) + 1 /\ Len(s) + 1 + i - 1 = Len(s) + i
      BY <1>1
    <2>2. l[i] = (s \o p)[Len(s) + 1 + i - 1]
      BY <1>3, <2>1, Zenon
    <2>3. (s \o p)[Len(s) + i] = p[i]
      BY <1>1, Zenon
    <2> QED BY <2>1, <2>2, <2>3, Zenon
  <1>6. l = p
    BY <1>3, <1>4, <1>5, SeqEqual
  <1> QED BY <1>6 DEF l

LEMMA NothingBehind ==
    ASSUME NEW S, NEW s \in Seq(S), NEW n \in 0 .. Len(s), SubSeq(s, n + 1, Len(s)) = <<>>
    PROVE  n = Len(s)
  <1>1. n + 1 \in Int /\ Len(s) \in Int /\ \A i \in n + 1 .. Len(s) : s[i] \in S
    OBVIOUS
  <1>2. Len(SubSeq(s, n + 1, Len(s))) = IF n + 1 <= Len(s) THEN Len(s) - (n + 1) + 1 ELSE 0
    BY <1>1, SubSeqProperties, Zenon
  <1>3. Len(SubSeq(s, n + 1, Len(s))) = 0
    <2>1. Len(<<>>) = 0
      OBVIOUS
    <2> QED BY <2>1, Zenon
  <1> QED BY <1>2, <1>3

LEMMA OneFurther ==
    ASSUME NEW S, NEW s \in Seq(S), NEW n \in 0 .. Len(s), NEW o \in Seq(S), NEW r \in Seq(S),
           o # <<>>, o \o r = SubSeq(s, n + 1, Len(s))
    PROVE  /\ n + 1 <= Len(s) /\ Head(o) = s[n + 1]
           /\ Tail(o) \o r = SubSeq(s, n + 2, Len(s))
  <1>1. Len(o) > 0 /\ Len(o) \in Nat /\ Len(r) \in Nat /\ Len(o \o r) = Len(o) + Len(r)
    <2>1. \A q \in Seq(S) : Len(q) \in Nat /\ (q # <<>> => Len(q) > 0)
      OBVIOUS
    <2>2. Len(o \o r) = Len(o) + Len(r)
      BY ConcatProperties, Zenon
    <2> QED BY <2>1, <2>2, Zenon
  <1>2. n + 1 <= Len(s)
    <2> SUFFICES ASSUME Len(s) < n + 1 PROVE FALSE
      OBVIOUS
    <2>1. SubSeq(s, n + 1, Len(s)) = <<>>
      BY SubSeqEmpty
    <2> QED BY <1>1, <2>1
  <1>3. n + 1 \in 1 .. Len(s) /\ Len(s) \in n + 1 .. Len(s) /\ n + 1 + 1 = n + 2
    BY <1>2
  <1>4. /\ Head(SubSeq(s, n + 1, Len(s))) = s[n + 1]
        /\ Tail(SubSeq(s, n + 1, Len(s))) = SubSeq(s, n + 1 + 1, Len(s))
    BY <1>3, HeadTailOfSubSeq, Zenon
  <1>5. Head(o \o r) = Head(o) /\ Tail(o \o r) = Tail(o) \o r
    <2> DEFINE l == Tail(o \o r)
               k == Tail(o) \o r
    <2>1. o \o r \in Seq(S) /\ o \o r # <<>>
          /\ \A i \in 1 .. Len(o) + Len(r) : (o \o r)[i] = IF i <= Len(o) THEN o[i] ELSE r[i - Len(o)]
      <3>1. \A q \in Seq(S) : Len(q) > 0 => q # <<>>
        OBVIOUS
      <3>2. o \o r \in Seq(S) /\ \A i \in 1 .. Len(o) + Len(r) :
                                  (o \o r)[i] = IF i <= Len(o) THEN o[i] ELSE r[i - Len(o)]
        BY ConcatProperties, Zenon
      <3>3. Len(o \o r) > 0
        BY <1>1
      <3> QED BY <3>1, <3>2, <3>3, Zenon
    <2>2. /\ l \in Seq(S) /\ Len(l) = Len(o \o r) - 1
          /\ \A i \in 1 .. Len(l) : l[i] = (o \o r)[i + 1]
      BY <2>1, HeadTailProperties
    <2>3. /\ Tail(o) \in Seq(S) /\ Len(Tail(o)) = Len(o) - 1
          /\ \A i \in 1 .. Len(Tail(o)) : Tail(o)[i] = o[i + 1]
      BY HeadTailProperties
    <2>4. /\ k \in Seq(S) /\ Len(k) = Len(Tail(o)) + Len(r)
          /\ \A i \in 1 .. Len(Tail(o)) + Len(r) :
                k[i] = IF i <= Len(Tail(o)) THEN Tail(o)[i] ELSE r[i - Len(Tail(o))]
      BY <2>3, ConcatProperties
    <2> HIDE DEF l, k
    <2>5. ASSUME NEW i \in 1 .. Len(l) PROVE l[i] = k[i]
      <3>1. Len(l) = Len(o) + Len(r) - 1 /\ Len(o) \in Nat /\ Len(r) \in Nat
            /\ Len(Tail(o)) = Len(o) - 1
        <4>1. Len(l) = Len(o \o r) - 1 /\ Len(Tail(o)) = Len(o) - 1
          BY <2>2, <2>3, Zenon
        <4> QED BY <1>1, <4>1
      <3>2. i \in 1 .. Len(o) + Len(r) - 1 /\ i + 1 \in 1 .. Len(o) + Len(r)
            /\ i \in 1 .. Len(Tail(o)) + Len(r)
        BY <3>1
      <3>3. /\ l[i] = (o \o r)[i + 1]
            /\ (o \o r)[i + 1] = IF i + 1 <= Len(o) THEN o[i + 1] ELSE r[(i + 1) - Len(o)]
            /\ k[i] = IF i <= Len(Tail(o)) THEN Tail(o)[i] ELSE r[i - Len(Tail(o))]
        BY <2>1, <2>2, <2>4, <3>2, Zenon
      <3>4. CASE i <= Len(o) - 1
        <4>1. i \in 1 .. Len(Tail(o)) /\ i + 1 <= Len(o) /\ i <= Len(Tail(o))
          BY <3>1, <3>2, <3>4
        <4>2. Tail(o)[i] = o[i + 1]
          BY <2>3, <4>1, Zenon
        <4> QED BY <3>3, <4>1, <4>2, Zenon
      <3>5. CASE i > Len(o) - 1
        <4>1. ~(i + 1 <= Len(o)) /\ ~(i <= Len(Tail(o))) /\ (i + 1) - Len(o) = i - Len(Tail(o))
          BY <3>1, <3>2, <3>5
        <4> QED BY <3>3, <4>1, Zenon
      <3> QED BY <3>1, <3>2, <3>4, <3>5
    <2>6. Len(l) = Len(k)
      BY <1>1, <2>2, <2>3, <2>4
    <2>7. l = k
      BY <2>2, <2>4, <2>5, <2>6, SeqEqual
    <2>8. Head(o \o r) = Head(o)
      BY <1>1, <2>1
    <2> QED BY <2>7, <2>8 DEF l, k
  <1> QED BY <1>2, <1>3, <1>4, <1>5

-----------------------------------------------------------------------------
(* What LogInv says of the one thread. *)
LEMMA OneThread ==
    ASSUME NEW t, Threads = {t}, LogInv
    PROVE  /\ t \in Threads /\ LogTypes /\ LogRing(t) /\ Writing(t) /\ Flushing(t)
           /\ pc[t] \in {"idle", "log", "slot", "load", "store", "count"}
           /\ fmt[t] \in Seq(Chars \cup {"%%"}) /\ args[t] \in Seq(Seq(Chars))
           /\ out[t] \in Seq(Chars) /\ said[t] \in Seq(Chars)
           /\ index[t] \in Nat /\ pushed[t] \in Nat /\ pushed[t] \in 0 .. Len(said[t])
           /\ Stored(t) \in Nat /\ Taken \in Nat /\ Stored(t) - Taken \in 0 .. Size - 1
           /\ Stored(t) <= Len(said[t])
  <1>1. t \in Threads /\ LogTypes /\ LogRing(t) /\ Writing(t) /\ Flushing(t)
    BY DEF LogInv
  <1>2. /\ pc[t] \in {"idle", "log", "slot", "load", "store", "count"}
        /\ fmt[t] \in Seq(Chars \cup {"%%"}) /\ args[t] \in Seq(Seq(Chars))
        /\ out[t] \in Seq(Chars) /\ said[t] \in Seq(Chars)
        /\ index[t] \in Nat /\ pushed[t] \in Nat
    BY <1>1 DEF LogTypes
  <1>3. pushed[t] \in 0 .. Len(said[t])
    BY <1>1, <1>2 DEF Writing
  <1>4. Stored(t) \in Nat /\ Taken \in Int /\ Len(file_) \in Nat
    BY <1>1, <1>2 DEF Stored, Taken, LogTypes
  <1>5. Taken \in Nat /\ Stored(t) - Taken \in 0 .. Size - 1
    BY <1>1, <1>4, LoggerAssumption DEF LogRing
  <1>6. Stored(t) <= Len(said[t])
    <2>1. CASE pc[t] = "count"
      <3>1. PICK r \in Seq(Chars) : out[t] \o r = SubSeq(said[t], pushed[t] + 1, Len(said[t]))
        BY <1>1 DEF Writing
      <3>2. out[t] # <<>>
        BY <1>1, <2>1 DEF Writing
      <3>3. pushed[t] + 1 <= Len(said[t])
        BY <1>2, <1>3, <3>1, <3>2, OneFurther
      <3> QED BY <2>1, <3>3 DEF Stored
    <2>2. CASE pc[t] # "count"
      BY <1>3, <2>2 DEF Stored
    <2> QED BY <2>1, <2>2
  <1> QED BY <1>1, <1>2, <1>3, <1>4, <1>5, <1>6

(* The invariant is that of the one thread. *)
LEMMA ItsAll ==
    ASSUME NEW t, Threads = {t}, LogTypes', LogRing(t)', Writing(t)', Flushing(t)'
    PROVE  LogInv'
  BY DEF LogInv

(* Nothing of the queue and the file changes, and what is said only grows.  *)
LEMMA RingStays ==
    ASSUME NEW t, Threads = {t}, LogInv,
           UNCHANGED <<store_, next_write_index_, next_read_index_, num_elements_, pushed, file_>>,
           Stored(t)' = Stored(t), Taken' = Taken, Uncounted' = Uncounted,
           \A k \in 1 .. Len(said[t]) : said'[t][k] = said[t][k]
    PROVE  LogRing(t)' /\ \A k \in 1 .. Len(file_') : file_'[k] = <<t, said'[t][k]>>
  <1>1. /\ LogTypes /\ LogRing(t) /\ Flushing(t) /\ Stored(t) \in Nat /\ Taken \in Nat
        /\ Stored(t) <= Len(said[t]) /\ pushed[t] \in 0 .. Len(said[t])
    BY OneThread
  <1>2. \A i : Behind(i)' = Behind(i)
    BY DEF Behind
  <1>3. ASSUME NEW i \in 0 .. Stored(t) - Taken - 1
        PROVE  store_[Behind(i)] = <<t, said'[t][Taken + i + 1]>>
    <2>1. Taken + i + 1 \in 1 .. Len(said[t])
      BY <1>1
    <2>2. store_[Behind(i)] = <<t, said[t][Taken + i + 1]>>
      BY <1>1 DEF LogRing
    <2> QED BY <2>1, <2>2
  <1>4. LogRing(t)'
    BY <1>1, <1>2, <1>3 DEF LogRing
  <1>5. Len(file_) <= Len(said[t]) /\ Len(file_) \in Nat
    BY <1>1 DEF LogRing, LogTypes
  <1> QED BY <1>1, <1>4, <1>5 DEF Flushing

-----------------------------------------------------------------------------
(* Every step of the writing thread keeps the invariant. *)
LEMMA LogKeeps ==
    ASSUME NEW t, Threads = {t}, LogInv, NEW form \in Forms, log(t, form)
    PROVE  LogInv'
  <1> DEFINE p == Printed(form)
  <1>0. p \in Seq(Chars) /\ Call[form].fmt \in Seq(Chars \cup {"%%"})
        /\ Call[form].args \in Seq(Seq(Chars)) /\ Left(Call[form].fmt, Call[form].args, p)
    BY WholeIsLeft
  <1> HIDE DEF p
  <1>1. /\ t \in Threads /\ LogTypes /\ LogRing(t) /\ Writing(t) /\ Flushing(t)
        /\ out[t] \in Seq(Chars) /\ said[t] \in Seq(Chars) /\ pushed[t] \in 0 .. Len(said[t])
    BY OneThread
  <1>2. /\ fmt' = [fmt EXCEPT ![t] = Call[form].fmt] /\ args' = [args EXCEPT ![t] = Call[form].args]
        /\ said' = [said EXCEPT ![t] = said[t] \o p] /\ pc' = [pc EXCEPT ![t] = "log"]
        /\ pc[t] = "idle" /\ state = "alive"
        /\ UNCHANGED <<store_, next_write_index_, next_read_index_, num_elements_, out, index,
                       pushed, fpc, next, file_, running_, state>>
    BY DEF log, p, flusher
  <1>3. /\ said[t] \o p \in Seq(Chars) /\ Len(said[t] \o p) = Len(said[t]) + Len(p)
        /\ \A k \in 1 .. Len(said[t]) : (said[t] \o p)[k] = said[t][k]
    <2>1. said[t] \o p \in Seq(Chars) /\ Len(said[t] \o p) = Len(said[t]) + Len(p)
          /\ \A k \in 1 .. Len(said[t]) + Len(p) : (said[t] \o p)[k] =
                IF k <= Len(said[t]) THEN said[t][k] ELSE p[k - Len(said[t])]
      BY <1>0, <1>1, ConcatProperties
    <2>2. Len(p) \in Nat /\ Len(said[t]) \in Nat
      BY <1>0, <1>1
    <2> QED BY <2>1, <2>2
  <1>4. LogTypes'
    BY <1>0, <1>1, <1>2, <1>3 DEF LogTypes
  <1>5. /\ pc'[t] = "log" /\ fmt'[t] = Call[form].fmt /\ args'[t] = Call[form].args
        /\ said'[t] = said[t] \o p /\ out'[t] = out[t] /\ pushed'[t] = pushed[t]
    BY <1>1, <1>2 DEF LogTypes
  <1>6. Stored(t)' = Stored(t) /\ Taken' = Taken /\ Uncounted' = Uncounted
    BY <1>2, <1>5 DEF Stored, Taken, Uncounted
  <1>7. LogRing(t)' /\ \A k \in 1 .. Len(file_') : file_'[k] = <<t, said'[t][k]>>
    <2>1. \A k \in 1 .. Len(said[t]) : said'[t][k] = said[t][k]
      BY <1>3, <1>5, Zenon
    <2> QED BY <1>2, <1>6, <2>1, RingStays
  <1>8. out[t] = <<>> /\ fmt[t] = <<>>
    BY <1>1, <1>2 DEF Writing
  <1>9. pushed[t] = Len(said[t])
    <2>1. PICK r \in Seq(Chars) : /\ Left(fmt[t], args[t], r)
                                  /\ out[t] \o r = SubSeq(said[t], pushed[t] + 1, Len(said[t]))
      BY <1>1 DEF Writing
    <2>2. r = <<>>
      BY <1>8, <2>1 DEF Left
    <2>3. SubSeq(said[t], pushed[t] + 1, Len(said[t])) = <<>>
      BY <1>8, <2>1, <2>2
    <2> QED BY <1>1, <2>3, NothingBehind
  <1>10. out'[t] \o p = SubSeq(said'[t], pushed'[t] + 1, Len(said'[t]))
    <2>1. SubSeq(said[t] \o p, Len(said[t]) + 1, Len(said[t] \o p)) = p
      BY <1>0, <1>1, BehindAll
    <2>2. <<>> \o p = p
      BY <1>0
    <2> QED BY <1>5, <1>8, <1>9, <2>1, <2>2, Zenon
  <1>11. Writing(t)'
    <2>1. \E r \in Seq(Chars) : /\ Left(fmt'[t], args'[t], r)
                                /\ out'[t] \o r = SubSeq(said'[t], pushed'[t] + 1, Len(said'[t]))
      BY <1>0, <1>5, <1>10
    <2>2. pushed'[t] <= Len(said'[t])
      BY <1>0, <1>1, <1>3, <1>5
    <2> QED BY <1>5, <1>8, <2>1, <2>2 DEF Writing, Left
  <1>12. Flushing(t)'
    BY <1>1, <1>2, <1>6, <1>7 DEF Flushing
  <1> QED BY <1>4, <1>7, <1>11, <1>12, ItsAll

LEMMA ScanKeeps == ASSUME NEW t, Threads = {t}, LogInv, scan(t) PROVE LogInv'
  <1>1. /\ t \in Threads /\ LogTypes /\ LogRing(t) /\ Writing(t) /\ Flushing(t)
        /\ fmt[t] \in Seq(Chars \cup {"%%"}) /\ args[t] \in Seq(Seq(Chars))
        /\ out[t] \in Seq(Chars) /\ said[t] \in Seq(Chars) /\ pushed[t] \in 0 .. Len(said[t])
    BY OneThread
  <1> DEFINE v == Value(t)
             a == IF Head(fmt[t]) = "%" THEN Tail(args[t]) ELSE args[t]
  <1>2. /\ fmt' = [fmt EXCEPT ![t] = Tail(fmt[t])] /\ args' = [args EXCEPT ![t] = a]
        /\ out' = [out EXCEPT ![t] = v] /\ pc' = [pc EXCEPT ![t] = "slot"]
        /\ pc[t] = "log" /\ state = "alive" /\ fmt[t] # <<>> /\ ~(Head(fmt[t]) = "%" /\ args[t] = <<>>)
        /\ UNCHANGED <<store_, next_write_index_, next_read_index_, num_elements_, said, index,
                       pushed, fpc, next, file_, running_, state>>
    BY DEF scan, Mismatch, flusher
  <1>3. v = (CASE Head(fmt[t]) = "%" -> Head(args[t]) [] Head(fmt[t]) = "%%" -> <<"%">>
               [] OTHER -> <<Head(fmt[t])>>)
    BY DEF Value
  <1>4. PICK r \in Seq(Chars) : /\ Left(fmt[t], args[t], r)
                                /\ out[t] \o r = SubSeq(said[t], pushed[t] + 1, Len(said[t]))
    BY <1>1 DEF Writing
  <1> HIDE DEF v
  <1>5. Scanned(fmt[t], args[t], v, r) /\ v \in Seq(Chars) /\ v # <<>>
    BY <1>2, <1>3, <1>4, ScanTakesValue, Zenon
  <1>6. PICK rest \in Seq(Chars) : Left(Tail(fmt[t]), a, rest) /\ r = v \o rest
    BY <1>5 DEF Scanned
  <1>7. Tail(fmt[t]) \in Seq(Chars \cup {"%%"}) /\ a \in Seq(Seq(Chars))
    BY <1>1, <1>2
  <1> HIDE DEF a
  <1>8. LogTypes'
    BY <1>1, <1>2, <1>5, <1>7 DEF LogTypes
  <1>9. /\ pc'[t] = "slot" /\ fmt'[t] = Tail(fmt[t]) /\ args'[t] = a
        /\ said'[t] = said[t] /\ out'[t] = v /\ pushed'[t] = pushed[t]
    BY <1>1, <1>2 DEF LogTypes
  <1>10. Stored(t)' = Stored(t) /\ Taken' = Taken /\ Uncounted' = Uncounted
    BY <1>2, <1>9 DEF Stored, Taken, Uncounted
  <1>11. LogRing(t)' /\ \A k \in 1 .. Len(file_') : file_'[k] = <<t, said'[t][k]>>
    BY <1>2, <1>9, <1>10, RingStays
  <1>12. v \o rest = SubSeq(said[t], pushed[t] + 1, Len(said[t]))
    <2>1. out[t] = <<>>
      BY <1>1, <1>2 DEF Writing
    <2>2. <<>> \o r = r
      OBVIOUS
    <2> QED BY <1>4, <1>6, <2>1, <2>2, Zenon
  <1>13. Writing(t)'
    <2>1. \E q \in Seq(Chars) : /\ Left(fmt'[t], args'[t], q)
                                /\ out'[t] \o q = SubSeq(said'[t], pushed'[t] + 1, Len(said'[t]))
      BY <1>6, <1>9, <1>12, Zenon
    <2>2. pushed'[t] <= Len(said'[t])
      BY <1>1, <1>9
    <2> QED BY <1>5, <1>9, <2>1, <2>2 DEF Writing
  <1>14. Flushing(t)'
    BY <1>1, <1>2, <1>10, <1>11 DEF Flushing
  <1> QED BY <1>8, <1>11, <1>13, <1>14, ItsAll

LEMMA ReturnKeeps == ASSUME NEW t, Threads = {t}, LogInv, return(t) PROVE LogInv'
  <1>1. /\ t \in Threads /\ LogTypes /\ LogRing(t) /\ Writing(t) /\ Flushing(t)
    BY OneThread
  <1>2. /\ pc' = [pc EXCEPT ![t] = "idle"] /\ pc[t] = "log" /\ state = "alive" /\ fmt[t] = <<>>
        /\ UNCHANGED <<store_, next_write_index_, next_read_index_, num_elements_, fmt, args, out,
                       said, index, pushed, fpc, next, file_, running_, state>>
    BY DEF return, flusher
  <1>3. LogTypes'
    BY <1>1, <1>2 DEF LogTypes
  <1>4. pc'[t] = "idle"
    BY <1>1, <1>2 DEF LogTypes
  <1>5. Stored(t)' = Stored(t) /\ Taken' = Taken /\ Uncounted' = Uncounted
    BY <1>2, <1>4 DEF Stored, Taken, Uncounted
  <1>6. LogRing(t)' /\ \A k \in 1 .. Len(file_') : file_'[k] = <<t, said'[t][k]>>
    BY <1>2, <1>5, RingStays
  <1>7. Writing(t)'
    BY <1>1, <1>2, <1>4 DEF Writing
  <1>8. Flushing(t)'
    BY <1>1, <1>2, <1>5, <1>6 DEF Flushing
  <1> QED BY <1>3, <1>6, <1>7, <1>8, ItsAll

LEMMA FatalKeeps == ASSUME NEW t, Threads = {t}, LogInv, fatal(t) PROVE LogInv'
  <1>1. /\ t \in Threads /\ LogTypes /\ LogRing(t) /\ Writing(t) /\ Flushing(t)
    BY OneThread
  <1>2. /\ state' = "failed"
        /\ UNCHANGED <<store_, next_write_index_, next_read_index_, num_elements_, pc, fmt, args,
                       out, said, index, pushed, fpc, next, file_, running_>>
    BY DEF fatal, flusher, writers
  <1>3. LogTypes'
    BY <1>1, <1>2 DEF LogTypes
  <1>4. Stored(t)' = Stored(t) /\ Taken' = Taken /\ Uncounted' = Uncounted
    BY <1>2 DEF Stored, Taken, Uncounted
  <1>5. LogRing(t)' /\ \A k \in 1 .. Len(file_') : file_'[k] = <<t, said'[t][k]>>
    BY <1>2, <1>4, RingStays
  <1>6. Writing(t)'
    BY <1>1, <1>2, <1>4 DEF Writing
  <1>7. Flushing(t)'
    BY <1>1, <1>2, <1>4, <1>5 DEF Flushing
  <1> QED BY <1>3, <1>5, <1>6, <1>7, ItsAll

(* A slot is filled that nobody reads: it is as far behind the read index   *)
(* as elements wait.                                                        *)
LEMMA FillSlotKeeps == ASSUME NEW t, Threads = {t}, LogInv, fillSlot(t) PROVE LogInv'
  <1>1. /\ t \in Threads /\ LogTypes /\ LogRing(t) /\ Writing(t) /\ Flushing(t)
        /\ out[t] \in Seq(Chars) /\ Stored(t) \in Nat /\ Taken \in Nat
        /\ Stored(t) - Taken \in 0 .. Size - 1
    BY OneThread
  <1> DEFINE e == <<t, Head(out[t])>>
  <1>2. /\ store_' = [store_ EXCEPT ![next_write_index_] = e] /\ pc' = [pc EXCEPT ![t] = "load"]
        /\ pc[t] = "slot" /\ state = "alive" /\ Outstanding < Size - 1
        /\ UNCHANGED <<next_write_index_, next_read_index_, num_elements_, fmt, args, out,
                       said, index, pushed, fpc, next, file_, running_, state>>
    BY DEF fillSlot, flusher
  <1>3. e \in LogElement
    <2>1. out[t] # <<>>
      BY <1>1, <1>2 DEF Writing
    <2>2. Head(out[t]) \in Chars
      BY <1>1, <2>1
    <2> QED BY <1>1, <2>2 DEF LogElement, Chars
  <1> HIDE DEF e
  <1>4. LogTypes'
    BY <1>1, <1>2, <1>3 DEF LogTypes
  <1>5. /\ pc'[t] = "load" /\ next_write_index_ \in 0 .. Size - 1 /\ next_read_index_ \in 0 .. Size - 1
        /\ store_'[next_write_index_] = e
        /\ \A s \in 0 .. Size - 1 : s # next_write_index_ => store_'[s] = store_[s]
    BY <1>1, <1>2 DEF LogTypes
  <1>6. Stored(t)' = Stored(t) /\ Taken' = Taken /\ Uncounted' = Uncounted /\ \A i : Behind(i)' = Behind(i)
    BY <1>2, <1>5 DEF Stored, Taken, Uncounted, Behind
  <1>7. Stored(t) - Taken < Size - 1
    <2>1. next_write_index_ = Behind(Stored(t) - Taken)
      BY <1>1 DEF LogRing
    <2>2. Outstanding = Stored(t) - Taken
      BY <1>1, <1>5, <2>1, Wrap DEF Outstanding
    <2> QED BY <1>2, <2>2
  <1>8. ASSUME NEW i \in 0 .. Stored(t) - Taken - 1
        PROVE  store_'[Behind(i)] = <<t, said[t][Taken + i + 1]>>
    <2>1. i \in 0 .. Size - 1 /\ i # Stored(t) - Taken
      <3>1. \A d \in 0 .. Size - 1 : \A j \in 0 .. d - 1 : j \in 0 .. Size - 1 /\ j # d
        BY LoggerAssumption
      <3> QED BY <1>1, <3>1
    <2>2. Behind(i) \in 0 .. Size - 1
      BY <1>5, <2>1, BehindIs
    <2>3. Behind(i) # next_write_index_
      BY <1>1, <1>5, <2>1, Apart DEF LogRing
    <2>4. store_[Behind(i)] = <<t, said[t][Taken + i + 1]>>
      BY <1>1 DEF LogRing
    <2> QED BY <1>5, <2>2, <2>3, <2>4
  <1>9. LogRing(t)'
    BY <1>1, <1>2, <1>6, <1>8 DEF LogRing
  <1>10. Writing(t)'
    BY <1>1, <1>2, <1>5, <1>6, <1>7 DEF Writing, e
  <1>11. Flushing(t)'
    BY <1>1, <1>2, <1>6 DEF Flushing
  <1> QED BY <1>4, <1>9, <1>10, <1>11, ItsAll

LEMMA LoadIndexKeeps == ASSUME NEW t, Threads = {t}, LogInv, loadIndex(t) PROVE LogInv'
  <1>1. /\ t \in Threads /\ LogTypes /\ LogRing(t) /\ Writing(t) /\ Flushing(t)
    BY OneThread
  <1>2. /\ index' = [index EXCEPT ![t] = next_write_index_] /\ pc' = [pc EXCEPT ![t] = "store"]
        /\ pc[t] = "load" /\ state = "alive"
        /\ UNCHANGED <<store_, next_write_index_, next_read_index_, num_elements_, fmt, args, out,
                       said, pushed, fpc, next, file_, running_, state>>
    BY DEF loadIndex, flusher
  <1>3. LogTypes'
    BY <1>1, <1>2 DEF LogTypes
  <1>4. pc'[t] = "store" /\ index'[t] = next_write_index_
    BY <1>1, <1>2 DEF LogTypes
  <1>5. Stored(t)' = Stored(t) /\ Taken' = Taken /\ Uncounted' = Uncounted
    BY <1>2, <1>4 DEF Stored, Taken, Uncounted
  <1>6. LogRing(t)' /\ \A k \in 1 .. Len(file_') : file_'[k] = <<t, said'[t][k]>>
    BY <1>2, <1>5, RingStays
  <1>7. Writing(t)'
    BY <1>1, <1>2, <1>4, <1>5 DEF Writing
  <1>8. Flushing(t)'
    BY <1>1, <1>2, <1>5, <1>6 DEF Flushing
  <1> QED BY <1>3, <1>6, <1>7, <1>8, ItsAll

(* The index is the one loaded: no other thread has written it.             *)
LEMMA StoreIndexKeeps == ASSUME NEW t, Threads = {t}, LogInv, storeIndex(t) PROVE LogInv'
  <1>1. /\ t \in Threads /\ LogTypes /\ LogRing(t) /\ Writing(t) /\ Flushing(t)
        /\ out[t] \in Seq(Chars) /\ said[t] \in Seq(Chars) /\ pushed[t] \in 0 .. Len(said[t])
        /\ Stored(t) \in Nat /\ Taken \in Nat /\ Stored(t) - Taken \in 0 .. Size - 1
    BY OneThread
  <1>2. /\ next_write_index_' = Succ(index[t]) /\ pc' = [pc EXCEPT ![t] = "count"]
        /\ pc[t] = "store" /\ state = "alive"
        /\ UNCHANGED <<store_, next_read_index_, num_elements_, fmt, args, out, index,
                       said, pushed, fpc, next, file_, running_, state>>
    BY DEF storeIndex, flusher
  <1>3. /\ Stored(t) - Taken < Size - 1 /\ store_[next_write_index_] = <<t, Head(out[t])>>
        /\ index[t] = next_write_index_ /\ out[t] # <<>>
    BY <1>1, <1>2 DEF Writing
  <1>4. next_write_index_ = Behind(Stored(t) - Taken) /\ next_write_index_ \in 0 .. Size - 1
        /\ next_read_index_ \in 0 .. Size - 1
    BY <1>1 DEF LogRing, LogTypes
  <1>5. next_write_index_' = Behind(Stored(t) - Taken + 1) /\ next_write_index_' \in 0 .. Size - 1
    <2>1. Stored(t) - Taken \in 0 .. Size - 2
      BY <1>1, <1>3, LoggerAssumption
    <2>2. Succ(Behind(Stored(t) - Taken)) = Behind(Stored(t) - Taken + 1)
          /\ Behind(Stored(t) - Taken + 1) \in 0 .. Size - 1
      BY <1>4, <2>1, SuccBehind
    <2> QED BY <1>2, <1>3, <1>4, <2>2, Zenon
  <1>6. LogTypes'
    BY <1>1, <1>2, <1>5 DEF LogTypes
  <1>7. pc'[t] = "count"
    BY <1>1, <1>2 DEF LogTypes
  <1>8. Stored(t) = pushed[t] /\ Stored(t)' = Stored(t) + 1 /\ Taken' = Taken /\ Uncounted' = Uncounted
        /\ \A i : Behind(i)' = Behind(i)
    BY <1>2, <1>7 DEF Stored, Taken, Uncounted, Behind
  <1>9. Head(out[t]) = said[t][pushed[t] + 1]
    <2>1. PICK r \in Seq(Chars) : out[t] \o r = SubSeq(said[t], pushed[t] + 1, Len(said[t]))
      BY <1>1 DEF Writing
    <2> QED BY <1>1, <1>3, <2>1, OneFurther
  <1>10. ASSUME NEW i \in 0 .. Stored(t)' - Taken' - 1
         PROVE  store_[Behind(i)] = <<t, said[t][Taken + i + 1]>>
    <2>1. CASE i \in 0 .. Stored(t) - Taken - 1
      BY <1>1, <2>1 DEF LogRing
    <2>2. CASE i = Stored(t) - Taken
      <3>1. Taken + i + 1 = pushed[t] + 1
        BY <1>1, <1>8, <2>2
      <3>2. store_[Behind(i)] = <<t, Head(out[t])>>
        BY <1>3, <1>4, <2>2, Zenon
      <3> QED BY <1>9, <3>1, <3>2, Zenon
    <2>3. Stored(t)' - Taken' - 1 = Stored(t) - Taken /\ Stored(t) - Taken \in Nat
      BY <1>1, <1>8
    <2>4. \A d \in Nat : \A j \in 0 .. d : j \in 0 .. d - 1 \/ j = d
      OBVIOUS
    <2> QED BY <2>1, <2>2, <2>3, <2>4, Zenon
  <1>11. LogRing(t)'
    <2>1. Stored(t)' - Taken' = Stored(t) - Taken + 1 /\ Taken' <= Stored(t)' /\ Stored(t)' - Taken' < Size
      <3>1. Size \in Nat
        BY LoggerAssumption
      <3>2. \A s, k \in Nat : s - k \in 0 .. Size - 1 /\ s - k < Size - 1
                => (s + 1) - k = s - k + 1 /\ k <= s + 1 /\ (s + 1) - k < Size
        BY <3>1
      <3> QED BY <1>1, <1>3, <1>8, <3>2
    <2>2. /\ num_elements_' = pushed'[t] - Uncounted' /\ Uncounted' >= 0 /\ Len(file_') <= pushed'[t]
          /\ Taken' >= 0
      BY <1>1, <1>2, <1>8 DEF LogRing
    <2> QED BY <1>2, <1>5, <1>8, <1>10, <2>1, <2>2 DEF LogRing
  <1>12. Writing(t)'
    BY <1>1, <1>2, <1>3, <1>7 DEF Writing
  <1>13. Flushing(t)'
    BY <1>1, <1>2, <1>8 DEF Flushing
  <1> QED BY <1>6, <1>11, <1>12, <1>13, ItsAll

LEMMA CountElementKeeps == ASSUME NEW t, Threads = {t}, LogInv, countElement(t) PROVE LogInv'
  <1>1. /\ t \in Threads /\ LogTypes /\ LogRing(t) /\ Writing(t) /\ Flushing(t)
        /\ out[t] \in Seq(Chars) /\ said[t] \in Seq(Chars) /\ pushed[t] \in 0 .. Len(said[t])
        /\ Stored(t) \in Nat /\ Taken \in Nat /\ Stored(t) - Taken \in 0 .. Size - 1
    BY OneThread
  <1> DEFINE c == IF Len(out[t]) > 1 THEN "slot" ELSE "log"
  <1>2. /\ num_elements_' = num_elements_ + 1 /\ out' = [out EXCEPT ![t] = Tail(out[t])]
        /\ pushed' = [pushed EXCEPT ![t] = pushed[t] + 1] /\ pc' = [pc EXCEPT ![t] = c]
        /\ pc[t] = "count" /\ state = "alive"
        /\ UNCHANGED <<store_, next_write_index_, next_read_index_, fmt, args, index,
                       said, fpc, next, file_, running_, state>>
    BY DEF countElement, flusher
  <1>3. out[t] # <<>>
    BY <1>1, <1>2 DEF Writing
  <1>4. Tail(out[t]) \in Seq(Chars) /\ (Tail(out[t]) # <<>> <=> Len(out[t]) > 1)
    <2>1. \A q \in Seq(Chars) : q # <<>> => Tail(q) \in Seq(Chars) /\ Len(Tail(q)) = Len(q) - 1
                                             /\ Len(q) \in Nat
      BY HeadTailProperties
    <2>2. \A q \in Seq(Chars) : q # <<>> <=> Len(q) > 0
      OBVIOUS
    <2>3. Tail(out[t]) \in Seq(Chars) /\ Len(Tail(out[t])) = Len(out[t]) - 1 /\ Len(out[t]) \in Nat
      BY <1>1, <1>3, <2>1
    <2>4. Tail(out[t]) # <<>> <=> Len(Tail(out[t])) > 0
      BY <2>2, <2>3, Zenon
    <2>5. Len(Tail(out[t])) > 0 <=> Len(out[t]) > 1
      BY <2>3
    <2> QED BY <2>3, <2>4, <2>5, Zenon
  <1>5. LogTypes'
    <2>1. num_elements_' \in Int
      BY <1>1, <1>2 DEF LogTypes
    <2>2. pc' \in [Threads -> {"idle", "log", "slot", "load", "store", "count"}]
      BY <1>1, <1>2 DEF LogTypes
    <2>3. out' \in [Threads -> Seq(Chars)] /\ pushed' \in [Threads -> Nat]
      <3>1. pushed[t] + 1 \in Nat
        BY <1>1
      <3> QED BY <1>1, <1>2, <1>4, <3>1 DEF LogTypes
    <2> QED BY <1>1, <1>2, <2>1, <2>2, <2>3 DEF LogTypes
  <1>6. pc'[t] = c /\ out'[t] = Tail(out[t]) /\ pushed'[t] = pushed[t] + 1
    BY <1>1, <1>2 DEF LogTypes
  <1>7. Stored(t)' = Stored(t) /\ Taken' = Taken /\ Uncounted' = Uncounted
        /\ \A i : Behind(i)' = Behind(i)
    BY <1>2, <1>6 DEF Stored, Taken, Uncounted, Behind
  <1>8. LogRing(t)'
    <2>1. num_elements_' = pushed'[t] - Uncounted' /\ Len(file_') <= pushed'[t]
      <3>1. Len(file_) \in Nat /\ Uncounted \in Int /\ pushed[t] \in Nat
        BY <1>1 DEF LogTypes, Uncounted
      <3>2. num_elements_ = pushed[t] - Uncounted /\ Len(file_) <= pushed[t]
        BY <1>1 DEF LogRing
      <3>3. num_elements_ + 1 = (pushed[t] + 1) - Uncounted /\ Len(file_) <= pushed[t] + 1
        BY <3>1, <3>2
      <3> QED BY <1>2, <1>6, <1>7, <3>3, Zenon
    <2> QED BY <1>1, <1>2, <1>7, <2>1 DEF LogRing
  <1>9. Writing(t)'
    <2>1. PICK r \in Seq(Chars) : /\ Left(fmt[t], args[t], r)
                                  /\ out[t] \o r = SubSeq(said[t], pushed[t] + 1, Len(said[t]))
      BY <1>1 DEF Writing
    <2>2. /\ pushed[t] + 1 <= Len(said[t])
          /\ Tail(out[t]) \o r = SubSeq(said[t], pushed[t] + 2, Len(said[t]))
      BY <1>1, <1>3, <2>1, OneFurther
    <2>3. pushed'[t] + 1 = pushed[t] + 2
      BY <1>1, <1>6
    <2>4. out'[t] \o r = SubSeq(said'[t], pushed'[t] + 1, Len(said'[t]))
      BY <1>2, <1>6, <2>2, <2>3, Zenon
    <2>5. \E q \in Seq(Chars) : /\ Left(fmt'[t], args'[t], q)
                                /\ out'[t] \o q = SubSeq(said'[t], pushed'[t] + 1, Len(said'[t]))
      BY <1>2, <2>1, <2>4, Zenon
    <2>6. pushed'[t] <= Len(said'[t])
      BY <1>2, <1>6, <2>2, Zenon
    <2>7. pc'[t] \in {"slot", "load", "store", "count"} <=> out'[t] # <<>>
      BY <1>4, <1>6
    <2>8. pc'[t] \in {"slot", "log"}
      BY <1>6
    <2> QED BY <2>5, <2>6, <2>7, <2>8 DEF Writing
  <1>10. Flushing(t)'
    BY <1>1, <1>2, <1>7 DEF Flushing
  <1> QED BY <1>5, <1>8, <1>9, <1>10, ItsAll

-----------------------------------------------------------------------------
(* Every step of the logger's thread keeps the invariant. *)

(* The writing thread sees nothing of them: what is free only grows.        *)
LEMMA WritingStays ==
    ASSUME NEW t, Threads = {t}, LogInv,
           UNCHANGED <<next_write_index_, store_, pc, fmt, args, out, said, index, pushed>>,
           Taken' >= Taken, Taken' \in Nat
    PROVE  Writing(t)' /\ Stored(t)' = Stored(t)
  <1>1. /\ t \in Threads /\ LogTypes /\ Writing(t) /\ Stored(t) \in Nat /\ Taken \in Nat
    BY OneThread
  <1>2. Stored(t)' = Stored(t)
    BY DEF Stored
  <1>3. Stored(t) - Taken < Size - 1 => Stored(t) - Taken' < Size - 1
    <2>1. Size \in Nat
      BY LoggerAssumption
    <2> QED BY <1>1, <2>1
  <1>4. Writing(t)'
    BY <1>1, <1>2, <1>3 DEF Writing
  <1> QED BY <1>2, <1>4

LEMMA PeekKeeps == ASSUME NEW t, Threads = {t}, LogInv, peekQueue PROVE LogInv'
  <1>1. /\ t \in Threads /\ LogTypes /\ LogRing(t) /\ Writing(t) /\ Flushing(t)
        /\ Stored(t) \in Nat /\ Taken \in Nat
    BY OneThread
  <1>2. /\ fpc \in {"while", "next"} /\ fpc' = "for"
        /\ next' = IF next_read_index_ = next_write_index_ THEN nullptr ELSE next_read_index_
        /\ UNCHANGED <<store_, next_write_index_, next_read_index_, num_elements_, pc, fmt, args,
                       out, said, index, pushed, file_, running_, state>>
    BY DEF peekQueue, writers
  <1>3. LogTypes'
    BY <1>1, <1>2 DEF LogTypes
  <1>4. Stored(t)' = Stored(t) /\ Taken' = Taken /\ Uncounted' = Uncounted
    BY <1>2 DEF Stored, Taken, Uncounted
  <1>5. LogRing(t)' /\ \A k \in 1 .. Len(file_') : file_'[k] = <<t, said'[t][k]>>
    BY <1>2, <1>4, RingStays
  <1>6. Writing(t)'
    BY <1>1, <1>2, <1>4, WritingStays
  <1>7. next_read_index_ # next_write_index_ => Taken < Stored(t)
    <2>1. CASE Stored(t) = Taken
      <3>1. Stored(t) - Taken = 0
        BY <1>1, <2>1
      <3>2. next_write_index_ = Behind(0)
        BY <1>1, <3>1 DEF LogRing
      <3>3. Behind(0) = next_read_index_
        BY <1>1, BehindZero DEF LogTypes
      <3> QED BY <3>2, <3>3, Zenon
    <2>2. CASE Stored(t) # Taken
      BY <1>1, <2>2 DEF LogRing
    <2> QED BY <2>1, <2>2
  <1>8. Flushing(t)'
    BY <1>1, <1>2, <1>4, <1>5, <1>7 DEF Flushing
  <1> QED BY <1>3, <1>5, <1>6, <1>8, ItsAll

LEMMA SleepKeepsLog == ASSUME NEW t, Threads = {t}, LogInv, sleep PROVE LogInv'
  <1>1. /\ t \in Threads /\ LogTypes /\ LogRing(t) /\ Writing(t) /\ Flushing(t) /\ Taken \in Nat
    BY OneThread
  <1>2. /\ fpc = "for" /\ fpc' = "while"
        /\ UNCHANGED <<store_, next_write_index_, next_read_index_, num_elements_, pc, fmt, args,
                       out, said, index, pushed, next, file_, running_, state>>
    BY DEF sleep, writers
  <1>3. LogTypes'
    BY <1>1, <1>2 DEF LogTypes
  <1>4. Stored(t)' = Stored(t) /\ Taken' = Taken /\ Uncounted' = Uncounted
    BY <1>2 DEF Stored, Taken, Uncounted
  <1>5. LogRing(t)' /\ \A k \in 1 .. Len(file_') : file_'[k] = <<t, said'[t][k]>>
    BY <1>2, <1>4, RingStays
  <1>6. Writing(t)'
    BY <1>1, <1>2, <1>4, WritingStays
  <1>7. Flushing(t)'
    BY <1>1, <1>2, <1>5 DEF Flushing
  <1> QED BY <1>3, <1>5, <1>6, <1>7, ItsAll

(* What is written is the element said next.                                *)
LEMMA WriteKeeps == ASSUME NEW t, Threads = {t}, LogInv, writeElement PROVE LogInv'
  <1>1. /\ t \in Threads /\ LogTypes /\ LogRing(t) /\ Writing(t) /\ Flushing(t)
        /\ said[t] \in Seq(Chars) /\ pushed[t] \in 0 .. Len(said[t])
        /\ Stored(t) \in Nat /\ Taken \in Nat /\ Stored(t) <= Len(said[t])
    BY OneThread
  <1> DEFINE e == store_[next]
  <1>2. /\ fpc = "for" /\ fpc' = "index" /\ num_elements_ # 0 /\ next # nullptr
        /\ file_' = Append(file_, e)
        /\ UNCHANGED <<store_, next_write_index_, next_read_index_, num_elements_, pc, fmt, args,
                       out, said, index, pushed, next, running_, state>>
    BY DEF writeElement, writers
  <1>3. Taken = Len(file_) /\ Uncounted = Len(file_) /\ Len(file_) \in Nat
    BY <1>1, <1>2 DEF Taken, Uncounted, LogTypes
  <1>4. next = next_read_index_ /\ Taken < Stored(t) /\ next_read_index_ \in 0 .. Size - 1
    BY <1>1, <1>2 DEF Flushing, LogTypes
  <1>5. e = <<t, said[t][Len(file_) + 1]>>
    <2>1. 0 \in 0 .. Stored(t) - Taken - 1 /\ Taken + 0 + 1 = Len(file_) + 1
      BY <1>1, <1>3, <1>4
    <2>2. Behind(0) = next_read_index_
      BY <1>4, BehindZero
    <2>3. store_[Behind(0)] = <<t, said[t][Taken + 0 + 1]>>
      BY <1>1, <2>1, Zenon DEF LogRing
    <2> QED BY <1>4, <2>1, <2>2, <2>3, Zenon
  <1>6. e \in LogElement
    <2>1. Len(file_) + 1 \in 1 .. Len(said[t])
      BY <1>1, <1>3, <1>4
    <2>2. said[t][Len(file_) + 1] \in Chars
      BY <1>1, <2>1
    <2> QED BY <1>1, <1>5, <2>2 DEF LogElement, Chars
  <1> HIDE DEF e
  <1>7. /\ file_' \in Seq(LogElement) /\ Len(file_') = Len(file_) + 1 /\ file_'[Len(file_) + 1] = e
        /\ \A k \in 1 .. Len(file_) : file_'[k] = file_[k]
    <2>1. file_ \in Seq(LogElement)
      BY <1>1 DEF LogTypes
    <2> QED BY <1>2, <1>6, <2>1, AppendProperties
  <1>8. LogTypes'
    BY <1>1, <1>2, <1>7 DEF LogTypes
  <1>9. Taken' = Taken /\ Uncounted' = Uncounted /\ \A i : Behind(i)' = Behind(i)
    BY <1>2, <1>3, <1>7 DEF Taken, Uncounted, Behind
  <1>10. Writing(t)' /\ Stored(t)' = Stored(t)
    BY <1>1, <1>2, <1>9, WritingStays
  <1>11. LogRing(t)'
    <2>1. Len(file_) + 1 <= pushed[t]
      <3>1. num_elements_ = pushed[t] - Len(file_) /\ Len(file_) <= pushed[t] /\ pushed[t] \in Nat
        BY <1>1, <1>3 DEF LogRing
      <3> QED BY <1>2, <1>3, <3>1
    <2> QED BY <1>1, <1>2, <1>7, <1>9, <1>10, <2>1 DEF LogRing
  <1>12. \A k \in 1 .. Len(file_') : file_'[k] = <<t, said'[t][k]>>
    <2>1. ASSUME NEW k \in 1 .. Len(file_') PROVE file_'[k] = <<t, said[t][k]>>
      <3>1. CASE k = Len(file_) + 1
        BY <1>5, <1>7, <3>1, Zenon
      <3>2. CASE k \in 1 .. Len(file_)
        BY <1>1, <1>7, <3>2 DEF Flushing
      <3> QED BY <1>3, <1>7, <3>1, <3>2
    <2> QED BY <1>2, <2>1
  <1>13. Flushing(t)'
    BY <1>1, <1>2, <1>12 DEF Flushing
  <1> QED BY <1>8, <1>10, <1>11, <1>13, ItsAll

LEMMA ReadIndexKeeps == ASSUME NEW t, Threads = {t}, LogInv, updateReadIndex PROVE LogInv'
  <1>1. /\ t \in Threads /\ LogTypes /\ LogRing(t) /\ Writing(t) /\ Flushing(t)
        /\ pushed[t] \in Nat /\ Stored(t) \in Nat /\ Taken \in Nat
        /\ Stored(t) - Taken \in 0 .. Size - 1
    BY OneThread
  <1>2. /\ fpc = "index" /\ fpc' = "count" /\ next_read_index_' = Succ(next_read_index_)
        /\ UNCHANGED <<store_, next_write_index_, num_elements_, pc, fmt, args, out, said, index,
                       pushed, next, file_, running_, state>>
    BY DEF updateReadIndex, writers
  <1>3. next_read_index_ \in 0 .. Size - 1 /\ Len(file_) \in Nat /\ Size \in Nat
    BY <1>1, LoggerAssumption DEF LogTypes
  <1>4. next_read_index_' = (IF next_read_index_ + 1 = Size THEN 0 ELSE next_read_index_ + 1)
        /\ next_read_index_' \in 0 .. Size - 1
    BY <1>2, <1>3, SuccSlot
  <1>5. LogTypes'
    BY <1>1, <1>2, <1>4 DEF LogTypes
  <1>6. Taken = Len(file_) - 1 /\ Taken' = Taken + 1 /\ Uncounted' = Uncounted
    BY <1>2, <1>3 DEF Taken, Uncounted
  <1>7. Writing(t)' /\ Stored(t)' = Stored(t)
    BY <1>1, <1>2, <1>6, WritingStays
  <1>8. Taken < Stored(t)
    <2>1. Len(file_) <= pushed[t] /\ pushed[t] <= Stored(t)
      BY <1>1 DEF LogRing, Stored
    <2> QED BY <1>1, <1>3, <1>6, <2>1
  <1>9. \A i \in 0 .. Size - 2 : Behind(i)' = Behind(i + 1)
    BY <1>3, <1>4 DEF Behind
  <1> DEFINE d == Stored(t) - Taken - 1
  <1>10. d \in 0 .. Size - 2 /\ d + 1 = Stored(t) - Taken /\ Stored(t)' - Taken' = d
    BY <1>1, <1>3, <1>6, <1>7, <1>8
  <1> HIDE DEF d
  <1>11. next_write_index_' = Behind(Stored(t) - Taken)'
    <2>1. next_write_index_ = Behind(d + 1)
      BY <1>1, <1>10 DEF LogRing
    <2> QED BY <1>2, <1>9, <1>10, <2>1
  <1>12. ASSUME NEW i \in 0 .. Stored(t)' - Taken' - 1
         PROVE  store_'[Behind(i)'] = <<t, said'[t][Taken' + i + 1]>>
    <2>1. i \in 0 .. Size - 2 /\ i + 1 \in 0 .. Stored(t) - Taken - 1
          /\ Taken' + i + 1 = Taken + (i + 1) + 1
      BY <1>1, <1>3, <1>6, <1>10
    <2>2. store_[Behind(i + 1)] = <<t, said[t][Taken + (i + 1) + 1]>>
      BY <1>1, <2>1, Zenon DEF LogRing
    <2> QED BY <1>2, <1>9, <2>1, <2>2
  <1>13. LogRing(t)'
    <2>1. Taken' >= 0 /\ Taken' <= Stored(t)' /\ Stored(t)' - Taken' < Size
      BY <1>1, <1>3, <1>6, <1>7, <1>8, <1>10
    <2>2. num_elements_' = pushed'[t] - Uncounted' /\ Uncounted' >= 0 /\ Len(file_') <= pushed'[t]
      BY <1>1, <1>2, <1>6 DEF LogRing
    <2> QED BY <1>11, <1>12, <2>1, <2>2 DEF LogRing
  <1>14. Flushing(t)'
    BY <1>1, <1>2 DEF Flushing
  <1> QED BY <1>5, <1>7, <1>13, <1>14, ItsAll

(* The counter is behind both indices, so there is something to count down. *)
LEMMA UncountKeeps == ASSUME NEW t, Threads = {t}, LogInv, uncountElement PROVE LogInv'
  <1>1. /\ t \in Threads /\ LogTypes /\ LogRing(t) /\ Writing(t) /\ Flushing(t)
        /\ pushed[t] \in Nat /\ Stored(t) \in Nat /\ Taken \in Nat
    BY OneThread
  <1>2. /\ fpc = "count" /\ fpc' = "next" /\ num_elements_' = num_elements_ - 1
        /\ UNCHANGED <<store_, next_write_index_, next_read_index_, pc, fmt, args, out, said, index,
                       pushed, next, file_, running_, state>>
    BY DEF uncountElement, writers
  <1>3. LogTypes'
    BY <1>1, <1>2 DEF LogTypes
  <1>4. Taken' = Taken /\ Uncounted = Len(file_) - 1 /\ Uncounted' = Len(file_)
        /\ Len(file_) \in Nat /\ \A i : Behind(i)' = Behind(i)
    BY <1>1, <1>2 DEF Taken, Uncounted, Behind, LogTypes
  <1>5. Writing(t)' /\ Stored(t)' = Stored(t)
    BY <1>1, <1>2, <1>4, WritingStays
  <1>6. num_elements_ = pushed[t] - (Len(file_) - 1) /\ Len(file_) <= pushed[t]
    BY <1>1, <1>4 DEF LogRing
  <1>7. num_elements_' = pushed'[t] - Uncounted' /\ Uncounted' >= 0 /\ num_elements_ # 0
    BY <1>1, <1>2, <1>4, <1>6
  <1>8. LogRing(t)'
    BY <1>1, <1>2, <1>4, <1>5, <1>7 DEF LogRing
  <1>9. Flushing(t)'
    BY <1>1, <1>2, <1>7 DEF Flushing
  <1> QED BY <1>3, <1>5, <1>8, <1>9, ItsAll

-----------------------------------------------------------------------------
(* The destructor: the queue it leaves is empty, and stays so. *)
LEMMA DestroyKeeps ==
    ASSUME NEW t, Threads = {t}, LogInv, DeleteLogger \/ drained \/ join \/ UNCHANGED logVars
    PROVE  LogInv'
  <1>1. /\ t \in Threads /\ LogTypes /\ LogRing(t) /\ Writing(t) /\ Flushing(t) /\ Taken \in Nat
    BY OneThread
  <1>2. /\ UNCHANGED <<store_, next_write_index_, next_read_index_, num_elements_, pc, fmt, args,
                       out, said, index, pushed, fpc, next, file_>>
        /\ \/ state' = state
           \/ state' \notin {"joining", "closed"}
           \/ num_elements_ = 0
           \/ state = "joining"
    BY DEF DeleteLogger, drained, join, logVars, writers, flusher
  <1>3. LogTypes'
    BY <1>1, <1>2 DEF LogTypes
  <1>4. Stored(t)' = Stored(t) /\ Taken' = Taken /\ Uncounted' = Uncounted
    BY <1>2 DEF Stored, Taken, Uncounted
  <1>5. LogRing(t)' /\ \A k \in 1 .. Len(file_') : file_'[k] = <<t, said'[t][k]>>
    BY <1>2, <1>4, RingStays
  <1>6. Writing(t)'
    BY <1>1, <1>2, <1>4, WritingStays
  <1>7. Flushing(t)'
    BY <1>1, <1>2, <1>4, <1>5 DEF Flushing
  <1> QED BY <1>3, <1>5, <1>6, <1>7, ItsAll

LEMMA LogInitInv == ASSUME NEW t, Threads = {t}, LogInit PROVE LogInv
  <1>1. Size \in Nat /\ Size >= 2
    BY LoggerAssumption
  <1>2. LogTypes
    BY <1>1 DEF LogInit, LogTypes
  <1>3. Stored(t) = 0 /\ Taken = 0 /\ Uncounted = 0 /\ Behind(0) = 0
    BY <1>1 DEF LogInit, Stored, Taken, Uncounted, Behind
  <1>4. LogRing(t)
    BY <1>1, <1>3 DEF LogRing, LogInit
  <1>5. Writing(t)
    <2>1. pc[t] = "idle" /\ fmt[t] = <<>> /\ args[t] = <<>> /\ out[t] = <<>> /\ said[t] = <<>>
          /\ pushed[t] = 0
      BY DEF LogInit
    <2>2. <<>> \in Seq(Chars) /\ Left(<<>>, <<>>, <<>>) /\ Len(<<>>) = 0
      BY DEF Left
    <2>3. <<>> \o <<>> = SubSeq(<<>>, 0 + 1, 0)
      OBVIOUS
    <2>4. \E r \in Seq(Chars) : /\ Left(fmt[t], args[t], r)
                                /\ out[t] \o r = SubSeq(said[t], pushed[t] + 1, Len(said[t]))
      BY <2>1, <2>2, <2>3, Zenon
    <2>5. pushed[t] <= Len(said[t])
      <3>1. 0 <= 0
        OBVIOUS
      <3> QED BY <2>1, <2>2, <3>1, Zenon
    <2>6. pc[t] \notin {"slot", "load", "store", "count"}
      BY <2>1
    <2> QED BY <2>1, <2>4, <2>5, <2>6, Zenon DEF Writing
  <1>6. Flushing(t)
    BY DEF Flushing, LogInit
  <1> QED BY <1>2, <1>4, <1>5, <1>6 DEF LogInv

LEMMA LogNextKeeps == ASSUME NEW t, Threads = {t}, LogInv, [LogNext]_logVars PROVE LogInv'
  <1>1. \A s \in Threads : s = t
    OBVIOUS
  <1>2. CASE \E s \in Threads, form \in Forms : log(s, form)
    <2>1. PICK form \in Forms : log(t, form)
      BY <1>1, <1>2
    <2> QED BY <2>1, LogKeeps
  <1>3. CASE Logging
    <2>1. scan(t) \/ return(t) \/ fatal(t) \/ fillSlot(t) \/ loadIndex(t) \/ storeIndex(t) \/ countElement(t)
      BY <1>1, <1>3 DEF Logging, pushValue
    <2> QED BY <2>1, ScanKeeps, ReturnKeeps, FatalKeeps, FillSlotKeeps, LoadIndexKeeps,
               StoreIndexKeeps, CountElementKeeps
  <1>4. CASE flushQueue
    BY <1>4, PeekKeeps, SleepKeepsLog, WriteKeeps, ReadIndexKeeps, UncountKeeps DEF flushQueue
  <1>5. CASE DeleteLogger \/ drained \/ join \/ UNCHANGED logVars
    BY <1>5, DestroyKeeps
  <1> QED BY <1>2, <1>3, <1>4, <1>5 DEF LogNext, Done

-----------------------------------------------------------------------------
(* What the file holds of the thread's calls, of a file that holds nothing  *)
(* but what is said.                                                        *)
LEMMA LoggedIs ==
    ASSUME NEW t, file_ \in Seq(LogElement), said[t] \in Seq(Chars), Len(file_) <= Len(said[t]),
           \A k \in 1 .. Len(file_) : file_[k] = <<t, said[t][k]>>
    PROVE  Logged(t) = SubSeq(said[t], 1, Len(file_))
  <1> DEFINE n == Len(file_)
             s == said[t]
             F(g) == [i \in 0 .. Len(file_) |->
                        IF i = 0 THEN <<>>
                        ELSE IF file_[i] # <<>> /\ file_[i][1] = t THEN Append(g[i - 1], file_[i][2])
                        ELSE g[i - 1]]
             mine == CHOOSE g : g = F(g)
             w == [i \in 0 .. n |-> SubSeq(s, 1, i)]
             T == {i \in 0 .. n : mine[i] = SubSeq(s, 1, i)}
  <1>1. n \in Nat /\ s \in Seq(Chars) /\ n <= Len(s) /\ Len(s) \in Nat
    OBVIOUS
  <1>2. ASSUME NEW i \in 1 .. n
        PROVE  /\ file_[i] # <<>> /\ file_[i][1] = t /\ file_[i][2] = s[i]
               /\ Append(SubSeq(s, 1, i - 1), s[i]) = SubSeq(s, 1, i)
    <2>1. file_[i] = <<t, s[i]>>
      OBVIOUS
    <2>2. i \in 1 .. Len(s) /\ 1 \in 1 .. Len(s) /\ i \in 1 .. i /\ i \in 1 .. Len(s)
      BY <1>1
    <2>3. SubSeq(s, 1, i) = SubSeq(s, 1, i - 1) \o <<s[i]>>
      <3>1. 1 \in 1 .. Len(s) /\ i \in 1 .. Len(s)
        BY <2>2
      <3> QED BY <1>1, <3>1, SubSeqRecursiveSecond, Zenon
    <2>4. SubSeq(s, 1, i - 1) \in Seq(Chars) /\ s[i] \in Chars
      <3>1. s[i] \in Chars /\ \A j \in 1 .. i - 1 : s[j] \in Chars
        BY <1>1, <2>2
      <3>2. 1 \in Int /\ i - 1 \in Int
        OBVIOUS
      <3> QED BY <3>1, <3>2, SubSeqProperties
    <2>5. Append(SubSeq(s, 1, i - 1), s[i]) = SubSeq(s, 1, i - 1) \o <<s[i]>>
      BY <2>4, AppendIsConcat
    <2> QED BY <2>1, <2>3, <2>5
  <1>3. SubSeq(s, 1, 0) = <<>>
    BY SubSeqEmpty
  <1>4. w = F(w)
    <2>1. ASSUME NEW i \in 0 .. n PROVE w[i] = F(w)[i]
      <3>1. CASE i = 0
        BY <1>3, <3>1
      <3>2. CASE i # 0
        <4>1. i \in 1 .. n /\ i - 1 \in 0 .. n
          BY <1>1, <3>2
        <4>2. F(w)[i] = Append(w[i - 1], file_[i][2])
          BY <1>2, <3>2, <4>1
        <4>3. w[i - 1] = SubSeq(s, 1, i - 1) /\ w[i] = SubSeq(s, 1, i)
          BY <4>1
        <4> HIDE DEF w, F
        <4> QED BY <1>2, <4>1, <4>2, <4>3
      <3> QED BY <3>1, <3>2
    <2>2. w = [i \in 0 .. n |-> w[i]] /\ F(w) = [i \in 0 .. n |-> F(w)[i]]
      OBVIOUS
    <2> HIDE DEF w, F
    <2> QED BY <2>1, <2>2
  <1>5. Logged(t) = mine[n]
    BY DEF Logged
  <1>6. mine = F(mine)
    <2> HIDE DEF F, w
    <2> QED BY <1>4
  <1> HIDE DEF mine
  <1>7. 0 \in T
    <2>1. mine[0] = <<>>
      BY <1>1, <1>6
    <2>2. mine[0] = SubSeq(s, 1, 0)
      BY <1>3, <2>1, Zenon
    <2>3. 0 \in 0 .. n
      BY <1>1
    <2> QED BY <2>2, <2>3, Zenon
  <1>8. ASSUME NEW k \in 1 .. n, k - 1 \in T PROVE k \in T
    <2>1. k \in 0 .. n /\ k # 0 /\ mine[k - 1] = SubSeq(s, 1, k - 1)
      BY <1>8
    <2>2. mine[k] = Append(mine[k - 1], file_[k][2])
      BY <1>2, <1>6, <2>1
    <2> HIDE DEF F
    <2> QED BY <1>2, <2>1, <2>2
  <1> HIDE DEF T, F
  <1>9. 0 .. n \subseteq T
    BY <1>1, <1>7, <1>8, UpTo
  <1>10. n \in T
    BY <1>1, <1>9
  <1> QED BY <1>5, <1>10 DEF T

LEMMA LogInvFileIsLog == ASSUME NEW t, Threads = {t}, LogInv PROVE FileIsLog
  <1>1. /\ t \in Threads /\ LogTypes /\ LogRing(t) /\ Writing(t) /\ Flushing(t)
        /\ out[t] \in Seq(Chars) /\ said[t] \in Seq(Chars) /\ pushed[t] \in 0 .. Len(said[t])
    BY OneThread
  <1>2. file_ \in Seq(LogElement) /\ Len(file_) \in Nat /\ Len(file_) <= pushed[t]
    BY <1>1 DEF LogTypes, LogRing
  <1>3. Logged(t) = SubSeq(said[t], 1, Len(file_))
    BY <1>1, <1>2, LoggedIs DEF Flushing
  <1>4. Len(Logged(t)) = Len(file_) /\ IsPrefix(Logged(t), said[t])
    <2>1. \A i \in 1 .. Len(file_) : said[t][i] \in Chars
      BY <1>1, <1>2
    <2>2. Logged(t) \in Seq(Chars) /\ Len(Logged(t)) = Len(file_)
      <3>1. /\ SubSeq(said[t], 1, Len(file_)) \in Seq(Chars)
            /\ Len(SubSeq(said[t], 1, Len(file_))) = IF 1 <= Len(file_) THEN Len(file_) - 1 + 1 ELSE 0
        <4>1. 1 \in Int /\ Len(file_) \in Int
          BY <1>2
        <4> QED BY <2>1, <4>1, SubSeqProperties
      <3> QED BY <1>2, <1>3, <3>1
    <2>3. SubSeq(Logged(t), 1, Len(Logged(t))) = Logged(t)
      BY <2>2, SubSeqFull
    <2> QED BY <1>1, <1>2, <1>3, <2>2, <2>3 DEF IsPrefix
  <1>5. state = "closed" => Len(file_) >= pushed[t]
    BY <1>1, <1>2 DEF LogRing, Flushing, Uncounted
  <1>6. pc[t] = "idle" => pushed[t] = Len(said[t])
    <2> SUFFICES ASSUME pc[t] = "idle" PROVE pushed[t] = Len(said[t])
      OBVIOUS
    <2>1. out[t] = <<>> /\ fmt[t] = <<>>
      BY <1>1 DEF Writing
    <2>2. PICK r \in Seq(Chars) : /\ Left(fmt[t], args[t], r)
                                  /\ out[t] \o r = SubSeq(said[t], pushed[t] + 1, Len(said[t]))
      BY <1>1 DEF Writing
    <2>3. r = <<>>
      BY <2>1, <2>2 DEF Left
    <2>4. SubSeq(said[t], pushed[t] + 1, Len(said[t])) = <<>>
      BY <2>1, <2>2, <2>3
    <2> QED BY <1>1, <2>4, NothingBehind
  <1>7. state = "closed" /\ pc[t] = "idle" => Logged(t) = said[t]
    <2> SUFFICES ASSUME state = "closed", pc[t] = "idle" PROVE Logged(t) = said[t]
      OBVIOUS
    <2>1. Len(file_) = Len(said[t])
      BY <1>1, <1>2, <1>5, <1>6
    <2> QED BY <1>1, <1>3, <2>1, SubSeqFull
  <1>8. \A i \in DOMAIN file_ : file_[i] \in LogElement
    BY <1>2
  <1> QED BY <1>2, <1>4, <1>5, <1>7, <1>8 DEF FileIsLog

(* LogInv holds of a logger that one thread writes to, whatever its size,   *)
(* the calls and how many, and whether a signal deletes it inside one.      *)
THEOREM LogInvAlways == Cardinality(Threads) = 1 /\ IsFiniteSet(Threads) => (LogSpec => []LogInv)
  <1> SUFFICES ASSUME Cardinality(Threads) = 1, IsFiniteSet(Threads) PROVE LogSpec => []LogInv
    OBVIOUS
  <1>1. PICK t : Threads = {t}
    BY FS_Singleton
  <1>2. LogInit => LogInv
    BY <1>1, LogInitInv
  <1>3. LogInv /\ [LogNext]_logVars => LogInv'
    BY <1>1, LogNextKeeps
  <1> QED BY <1>2, <1>3, PTL DEF LogSpec

(* The file of such a logger holds what the calls print, in order (FileIsLog, *)
(* logging.h:60-80 and 131-168).                                            *)
THEOREM LoggerSafe == Cardinality(Threads) = 1 /\ IsFiniteSet(Threads) => (LogSpec => []FileIsLog)
  <1> SUFFICES ASSUME Cardinality(Threads) = 1, IsFiniteSet(Threads) PROVE LogSpec => []FileIsLog
    OBVIOUS
  <1>1. PICK t : Threads = {t}
    BY FS_Singleton
  <1>2. LogInv => FileIsLog
    BY <1>1, LogInvFileIsLog
  <1>3. LogSpec => []LogInv
    BY LogInvAlways
  <1> QED BY <1>2, <1>3, PTL
=============================================================================
