------------------------------- MODULE Programs -------------------------------
(***************************************************************************)
(* The two programs from start to end: exchange_main.cpp with its handler  *)
(* of SIGINT, trading_main.cpp, the start, stop and destructor of every    *)
(* component, and createAndStartThread (thread_utils.h).                   *)
(*                                                                         *)
(* A component is an object and a thread that loops while (run_).  Nobody  *)
(* joins these threads: a destructor clears run_, sleeps, and lets the     *)
(* object go.  That a thread told to end ends during such a sleep, and one *)
(* that was started gets to its loop, is the assumption Prompt.            *)
(*                                                                         *)
(* What a program does is a sequence of steps [op, c], the bodies of start *)
(* and of the destructors written out at the place of the call.            *)
(***************************************************************************)
EXTENDS Integers, FiniteSets, SequencesExt

CONSTANTS Prompt,       \* threads keep up with the sleeps
          MaxSignals,   \* bound on the SIGINTs the exchange is sent
          MaxArrivals,  \* bound on what the exchange sends to the client
          MaxRequests   \* bound on the requests of the RANDOM algorithm

ASSUME ProgramAssumption == /\ Prompt \in BOOLEAN /\ MaxSignals \in Nat
                            /\ MaxArrivals \in Nat /\ MaxRequests \in Nat

Exchange == {"matching_engine", "publisher", "synthesizer", "order_server"}
Trading == {"trade_engine", "order_gateway", "consumer"}
Components == Exchange \cup Trading

VARIABLES program,   \* "exchange" or "trading"
          at,        \* activity -> its position in what it does: main and the handlers
          object,    \* component or "logger" -> "none", "alive", "deleted"
          run_,      \* component -> its flag
          thread,    \* component -> "none", "started", "announced", "test", "body",
                     \*   "ended", or "handler" when it runs a signal handler
          calling,   \* components whose start has not returned
          wild,      \* something was done to an object that is not there
          inbox,     \* what the gateway and the consumer have put for the engine
          requests,  \* the engine's and main's requests the gateway has not taken
          arrivals,  \* how much has come from the exchange
          random     \* requests of the RANDOM algorithm so far

queueVars == <<inbox, requests, arrivals, random>>
vars == <<program, at, object, run_, thread, calling, wild, queueVars>>

Handlers == 1 .. MaxSignals
main == 0

(* Objects a component's loop works with: the synthesizer reads a queue     *)
(* that is a member of the publisher.                                       *)
Uses(c) == IF c = "synthesizer" THEN {c, "publisher"} ELSE {c}

-----------------------------------------------------------------------------
(* What each activity does. *)
Do(op, c) == [op |-> op, c |-> c]

New(c) == <<Do("new", c)>>
(* run_ = true; the thread is created; start waits for its flag. *)
Start(c) == <<Do("run", c), Do("thread", c), Do("wait", c)>>

(* MarketDataPublisher::start *)
StartPublisher == Start("publisher") \o Start("synthesizer")

(* Faulty: the destructor does not sleep. *)
DeleteAtOnce(c) == <<Do("stop", c), Do("free", c)>>
(* ~MatchingEngine, ~OrderServer, ~TradeEngine, ~OrderGateway, ~MarketDataConsumer *)
Delete(c) == <<Do("stop", c), Do("sleep", c), Do("free", c)>>

(* ~SnapshotSynthesizer, which does not sleep: ~MarketDataPublisher has. *)
DeleteSynthesizer == <<Do("stop", "synthesizer"), Do("free", "synthesizer")>>
DeletePublisher == <<Do("stop", "publisher"), Do("stop", "synthesizer"),
                     Do("sleep", "publisher")>>
                   \o DeleteSynthesizer \o <<Do("free", "publisher")>>

exchange_main ==
    New("logger") \o New("matching_engine") \o Start("matching_engine")
    \o New("publisher") \o StartPublisher
    \o New("order_server") \o Start("order_server") \o <<Do("forever", "logger")>>

signal_handler ==
    <<Do("sleep", "logger"), Do("free", "logger")>>
    \o Delete("matching_engine") \o DeletePublisher \o Delete("order_server")
    \o <<Do("sleep", "none"), Do("exit", "none")>>

(* Faulty: the engine is told to end before it is waited for. *)
StopEngineThenDrain == <<Do("stop", "trade_engine"), Do("responses", "trade_engine"),
                         Do("updates", "trade_engine")>>
(* TradeEngine::stop: until both queues are seen to be empty, one after the *)
(* other.                                                                   *)
StopEngine == <<Do("responses", "trade_engine"), Do("updates", "trade_engine"),
                Do("stop", "trade_engine")>>

trading_main ==
    New("logger") \o New("trade_engine") \o Start("trade_engine")
    \o New("order_gateway") \o Start("order_gateway")
    \o New("consumer") \o Start("consumer")
    \o <<Do("sleep", "none"), Do("random", "trade_engine"), Do("silence", "trade_engine")>>
    \o StopEngine \o <<Do("stop", "consumer"), Do("stop", "order_gateway")>>
    \o <<Do("sleep", "none"), Do("free", "logger")>>
    \o Delete("trade_engine") \o Delete("consumer") \o Delete("order_gateway")
    \o <<Do("sleep", "none"), Do("exit", "none")>>

Script(a) == IF a # main THEN signal_handler
             ELSE IF program = "exchange" THEN exchange_main ELSE trading_main

Init == /\ program \in {"exchange", "trading"}
        /\ at = [a \in {main} \cup Handlers |-> IF a = main THEN 1 ELSE 0]
        /\ object = [c \in Components \cup {"logger"} |-> "none"]
        /\ run_ = [c \in Components |-> FALSE]
        /\ thread = [c \in Components |-> "none"]
        /\ calling = {} /\ wild = FALSE
        /\ inbox = [c \in {"order_gateway", "consumer"} |-> 0]
        /\ requests = 0 /\ arrivals = 0 /\ random = 0

-----------------------------------------------------------------------------
Begun(a) == at[a] > 0 /\ at[a] <= Len(Script(a))
Now(a) == Script(a)[at[a]]
Over == \E a \in DOMAIN at : at[a] > Len(Script(a))

(* The handler of the first signal runs on main's stack, and main does not  *)
(* go on: the handler ends the process.                                     *)
Running(a) == Begun(a) /\ ~Over /\ (a = main => \A h \in Handlers : at[h] = 0)
Advance(a) == at' = [at EXCEPT ![a] = @ + 1]

(* Everyone has had seconds to do what was asked of them. *)
CaughtUp == \A c \in Components :
              /\ thread[c] \notin {"started", "announced"}
              /\ thread[c] \in {"test", "body"} => run_[c]
              /\ c = "order_gateway" /\ thread[c] \in {"test", "body"} => requests = 0

Step(a, op) == Running(a) /\ Now(a).op = op /\ Advance(a)

(* MarketDataPublisher's constructor creates the synthesizer. *)
Create(a) ==
    /\ Step(a, "new")
    /\ LET created == {Now(a).c} \cup IF Now(a).c = "publisher" THEN {"synthesizer"} ELSE {}
       IN  object' = [c \in DOMAIN object |-> IF c \in created THEN "alive" ELSE object[c]]
    /\ UNCHANGED <<program, run_, thread, calling, wild, queueVars>>

SetRun(a) ==
    /\ Step(a, "run")
    /\ run_' = [run_ EXCEPT ![Now(a).c] = TRUE]
    /\ UNCHANGED <<program, object, thread, calling, wild, queueVars>>

(* createAndStartThread: the thread's body refers to variables of this call *)
(* and to the function object that is its argument.                         *)
CreateThread(a) ==
    /\ Step(a, "thread")
    /\ thread' = [thread EXCEPT ![Now(a).c] = "started"]
    /\ calling' = calling \cup {Now(a).c}
    /\ UNCHANGED <<program, object, run_, wild, queueVars>>

(* while (!running) sleep; the call returns. *)
ReturnThread(a) ==
    /\ Step(a, "wait") /\ thread[Now(a).c] # "started"
    /\ calling' = calling \ {Now(a).c}
    /\ UNCHANGED <<program, object, run_, thread, wild, queueVars>>

(* delete of a null pointer does nothing. *)
Skip(a) ==
    /\ Running(a) /\ a # main /\ Now(a).op \in {"stop", "sleep", "free"}
    /\ Now(a).c # "none" /\ object[Now(a).c] = "none"
    /\ Advance(a)
    /\ UNCHANGED <<program, object, run_, thread, calling, wild, queueVars>>

Stop(a) ==
    /\ Step(a, "stop") /\ object[Now(a).c] # "none"
    /\ run_' = [run_ EXCEPT ![Now(a).c] = FALSE]
    /\ wild' = (wild \/ object[Now(a).c] = "deleted")
    /\ UNCHANGED <<program, object, thread, calling, queueVars>>

Sleep(a) ==
    /\ Step(a, "sleep") /\ (Now(a).c # "none" => object[Now(a).c] # "none")
    /\ Prompt => CaughtUp
    /\ UNCHANGED <<program, object, run_, thread, calling, wild, queueVars>>

Free(a) ==
    /\ Step(a, "free") /\ object[Now(a).c] # "none"
    /\ object' = [object EXCEPT ![Now(a).c] = "deleted"]
    /\ wild' = (wild \/ object[Now(a).c] = "deleted")
    /\ UNCHANGED <<program, run_, thread, calling, queueVars>>

Exit(a) ==
    /\ Step(a, "exit")
    /\ UNCHANGED <<program, object, run_, thread, calling, wild, queueVars>>

(* The RANDOM algorithm: main itself writes requests, a NEW and a CANCEL of *)
(* any of them in turn, with a short sleep after each; it ends after so     *)
(* many, or early.                                                          *)
SendRandom ==
    /\ Running(main) /\ Now(main).op = "random" /\ random < MaxRequests
    /\ requests' = requests + 1
    /\ random' = random + 1
    /\ UNCHANGED <<program, at, object, run_, thread, calling, wild, inbox, arrivals>>

EndRandom ==
    /\ Step(main, "random")
    /\ UNCHANGED <<program, object, run_, thread, calling, wild, queueVars>>

(* while (silentSeconds() < 60) sleep: nothing has come for a while.  That  *)
(* does not keep anything from coming afterwards.                           *)
Silent ==
    /\ Step(main, "silence")
    /\ \A c \in DOMAIN inbox : inbox[c] = 0
    /\ Prompt => CaughtUp
    /\ UNCHANGED <<program, object, run_, thread, calling, wild, queueVars>>

(* while (responses->size() || updates->size()) sleep *)
SeeNoResponses ==
    /\ Step(main, "responses") /\ inbox["order_gateway"] = 0
    /\ UNCHANGED <<program, object, run_, thread, calling, wild, queueVars>>
SeeNoUpdates ==
    /\ Running(main) /\ Now(main).op = "updates"
    /\ at' = [at EXCEPT ![main] = IF inbox["consumer"] = 0 THEN @ + 1 ELSE @ - 1]
    /\ UNCHANGED <<program, object, run_, thread, calling, wild, queueVars>>

(* SIGINT, while its handler is installed: the first is handled on main,    *)
(* and while that handler runs the signal is blocked there, so that another *)
(* thread handles the next.                                                 *)
Signal(h) ==
    /\ program = "exchange" /\ ~Over /\ at[h] = 0 /\ object["logger"] # "none"
    /\ h > 1 => at[h - 1] > 0
    /\ at' = [at EXCEPT ![h] = 1]
    /\ IF h = 1 THEN UNCHANGED thread
       ELSE \E c \in Exchange : /\ thread[c] \in {"test", "body"}
                                /\ thread' = [thread EXCEPT ![c] = "handler"]
    /\ UNCHANGED <<program, object, run_, calling, wild, queueVars>>

-----------------------------------------------------------------------------
(* The threads.  thread_body sets running, then calls what it was given,    *)
(* which is run().                                                          *)
Announce(c) ==
    /\ ~Over /\ thread[c] = "started"
    /\ thread' = [thread EXCEPT ![c] = "announced"]
    /\ UNCHANGED <<program, at, object, run_, calling, wild, queueVars>>

EnterRun(c) ==
    /\ ~Over /\ thread[c] = "announced"
    /\ thread' = [thread EXCEPT ![c] = "test"]
    /\ UNCHANGED <<program, at, object, run_, calling, wild, queueVars>>

(* while (run_) *)
TestRun(c) ==
    /\ ~Over /\ thread[c] = "test"
    /\ thread' = [thread EXCEPT ![c] = IF run_[c] THEN "body" ELSE "ended"]
    /\ UNCHANGED <<program, at, object, run_, calling, wild, queueVars>>

(* One time through the loop.  The gateway and the consumer may have got    *)
(* something for the engine; the gateway takes all requests; the engine     *)
(* takes all there is for it, and may answer with a request.                *)
Body(c) ==
    /\ ~Over /\ thread[c] = "body"
    /\ thread' = [thread EXCEPT ![c] = "test"]
    /\ CASE c \in {"order_gateway", "consumer"} ->
              /\ \E n \in 0 .. 1 :
                   /\ arrivals + n <= MaxArrivals
                   /\ arrivals' = arrivals + n
                   /\ inbox' = [inbox EXCEPT ![c] = @ + n]
              /\ requests' = IF c = "order_gateway" THEN 0 ELSE requests
         [] c = "trade_engine" ->
              /\ inbox' = [k \in DOMAIN inbox |-> 0]
              /\ requests' = IF inbox = inbox' THEN requests ELSE requests + 1
              /\ UNCHANGED arrivals
         [] OTHER -> UNCHANGED <<inbox, requests, arrivals>>
    /\ UNCHANGED <<program, at, object, run_, calling, wild, random>>

Thread(c) == Announce(c) \/ EnterRun(c) \/ TestRun(c) \/ Body(c)
Activity(a) == \/ Create(a) \/ SetRun(a) \/ CreateThread(a) \/ ReturnThread(a)
               \/ Skip(a) \/ Stop(a) \/ Sleep(a) \/ Free(a) \/ Exit(a)
Main == EndRandom \/ Silent \/ SeeNoResponses \/ SeeNoUpdates
Ended == Over /\ UNCHANGED vars

Next == \/ \E a \in DOMAIN at : Activity(a)
        \/ Main \/ SendRandom
        \/ \E h \in Handlers : Signal(h)
        \/ \E c \in Components : Thread(c)
        \/ Ended

Spec == Init /\ [][Next]_vars

(* Every thread gets to run.  Nobody has to send a signal. *)
FairSpec == /\ Spec /\ WF_vars(Main)
            /\ \A a \in {main} \cup Handlers : WF_vars(Activity(a))
            /\ \A c \in Components : WF_vars(Thread(c))

-----------------------------------------------------------------------------
(* No thread works with an object that has been deleted, and none is        *)
(* deleted twice or told to stop after that, wherever in the start or the   *)
(* loops the end begins (matching_engine.cpp:17-29,                         *)
(* market_data_publisher.h:24-32).                                          *)
NoUseAfterFree ==
    /\ ~wild
    /\ \A c \in Components : thread[c] \in {"announced", "test", "body"} =>
         \A o \in Uses(c) : object[o] = "alive"

(* Once the signal has come, or main stops the trade engine, the program    *)
(* ends, whatever is in the queues (trade_engine.h:44, exchange_main.cpp:12)*)
EndBegun == IF program = "exchange" THEN \E h \in Handlers : at[h] > 0
            ELSE at[main] > 0 /\ ~Over /\ Now(main).op = "responses"
ProgramEnds == EndBegun ~> Over

(* The function object a new thread calls still exists when it does         *)
(* (thread_utils.h:35).                                                     *)
FunctionExists == \A c \in Components : thread[c] = "announced" => c \in calling

(* "Sleeping till all updates are consumed" (trade_engine.h:45): when the   *)
(* trade engine's thread has ended nothing is left for it.                  *)
AllConsumed == thread["trade_engine"] = "ended" => \A c \in DOMAIN inbox : inbox[c] = 0
=============================================================================
