-------------------------------- MODULE Future --------------------------------
(***************************************************************************)
(* core::Future<T>: contexts that several threads share through copies of  *)
(* a handle, resolved by one and awaited by another.                       *)
(*                                                                         *)
(* A call runs the continuation it finds, which resolves the next future,  *)
(* and so on down the chain on the same thread.  What a thread still has   *)
(* to do is a stack of frames.  What is done under the mutex is one step;  *)
(* the value is read or moved out of the context in a later one.           *)
(***************************************************************************)
EXTENDS Integers, SequencesExt

CONSTANTS
  Threads,
  Values,      \* what a future is resolved with, or fails with
  Rules,       \* the rules of use the user follows
  MaxFutures,  \* bound: contexts made
  MaxCalls     \* bound: calls of Resolve and ResolveError by the user

\* "oneContinuation": at most one Then or OnError on each future.
AllRules == {"oneContinuation"}

\* What is left in a context whose value or error was moved out.
Gone == "gone"

ASSUME FutureAssumption ==
  /\ Gone \notin Values
  /\ Rules \subseteq AllRules
  /\ MaxFutures \in Nat /\ MaxCalls \in Nat

VARIABLES
  made,     \* contexts are numbered, those up to `made` exist
  origin,   \* history: which call made a context, on which other one
  state,    \* FutureContext::state
  resolved, \* FutureContext::resolved: a value or an error
  then,     \* FutureContext::then, <<>> when it is not set
  stack,    \* of each thread, the innermost frame first
  thrown,   \* a continuation threw bad_any_cast through its thread
  calls,    \* how often the user resolved or failed a future
  first,    \* history: what a context was first resolved with
  given     \* history: what the continuation that made a context was given

contexts == <<made, origin, state, resolved, then>>
history  == <<first, given>>
vars     == <<contexts, stack, thrown, calls, history>>

Ids     == 1..MaxFutures
Futures == 1..made

Ok(v)  == [ok |-> TRUE, v |-> v]
Err(v) == [ok |-> FALSE, v |-> v]

Kinds == {"then", "thenFuture", "onError", "forward", "forwardError"}

\* A continuation resolves `next`; those Then makes for the future that a
\* callback returned resolve `to`, the future its caller got.
Continuation(kind, next, to) == [kind |-> kind, next |-> next, to |-> to]

\* The frames.
Resolving(f, r)  == [op |-> "resolve", f |-> f, r |-> r]
Delivering(f, c) == [op |-> "deliver", f |-> f, c |-> c]
Attaching(f, c)  == [op |-> "attach", f |-> f, c |-> c]
Late(f, c)       == [op |-> "late", f |-> f, c |-> c]
InCallback(c)    == [op |-> "user", c |-> c]

Runs(t, op) == stack[t] # <<>> /\ Head(stack[t]).op = op

Becomes(t, frames) == stack' = [stack EXCEPT ![t] = frames \o Tail(@)]

Calls(t, frame) == stack' = [stack EXCEPT ![t] = <<frame>> \o @]

-----------------------------------------------------------------------------
\* The user's calls, at rest or inside a callback.

UserActs(t) == stack[t] = <<>> \/ Runs(t, "user")

\* A future inside Then is nobody's to use.
Visible == {f \in Futures : origin[f].kind # "forward"}

\* The future a callback is going to return is kept for that.
Awaited(f) ==
  \/ origin[f].kind = "lazy"
  \/ \E g \in Futures : origin[g].of = f

From(kind, of) == [kind |-> kind, of |-> of]

Make(t) ==
  /\ UserActs(t) /\ made < MaxFutures
  /\ made' = made + 1
  /\ UNCHANGED <<origin, state, resolved, then, stack, thrown, calls, history>>

\* Resolve(v) and ResolveError(e).
UserResolves(t, f, r) ==
  /\ UserActs(t) /\ calls < MaxCalls
  /\ calls' = calls + 1
  /\ Calls(t, Resolving(f, r))
  /\ UNCHANGED <<contexts, thrown, history>>

\* Then with a callback that returns a value, and OnError.
UserAttaches(t, f, kind) ==
  /\ UserActs(t) /\ made < MaxFutures
  /\ "oneContinuation" \in Rules => ~Awaited(f)
  /\ made' = made + 1
  /\ origin' = [origin EXCEPT ![made+1] = From(kind, f)]
  /\ Calls(t, Attaching(f, Continuation(kind, made + 1, 0)))
  /\ UNCHANGED <<state, resolved, then, thrown, calls, history>>

\* Then with a callback that returns a future. Two contexts are set aside
\* now: that future, made by the user and resolved whenever the user likes,
\* and the one of the Then that will be called on it.
UserAttachesFuture(t, f) ==
  /\ UserActs(t) /\ made + 3 <= MaxFutures
  /\ "oneContinuation" \in Rules => ~Awaited(f)
  /\ made' = made + 3
  /\ origin' = [origin EXCEPT ![made+1] = From("thenFuture", f),
                              ![made+2] = From("lazy", 0),
                              ![made+3] = From("forward", 0)]
  /\ Calls(t, Attaching(f, Continuation("thenFuture", made + 1, 0)))
  /\ UNCHANGED <<state, resolved, then, thrown, calls, history>>

User(t) ==
  \/ Make(t)
  \/ \E f \in Visible :
       \/ \E v \in Values : UserResolves(t, f, Ok(v)) \/ UserResolves(t, f, Err(v))
       \/ \E kind \in {"then", "onError"} : UserAttaches(t, f, kind)
       \/ UserAttachesFuture(t, f)

-----------------------------------------------------------------------------
\* The frames' steps.

\* Mutant: a second result replaces the first.
Resolve_Again(t) ==
  /\ Runs(t, "resolve")
  /\ LET f == Head(stack[t]).f
         r == Head(stack[t]).r
     IN  /\ state' = [state EXCEPT ![f] = "finished"]
         /\ resolved' = [resolved EXCEPT ![f] = r]
         /\ first' = [first EXCEPT ![f] = IF @ = <<>> THEN <<r>> ELSE @]
         /\ then' = [then EXCEPT ![f] = <<>>]
         /\ Becomes(t, [i \in 1..Len(then[f]) |-> Delivering(f, then[f][i])])
  /\ UNCHANGED <<made, origin, thrown, calls, given>>

\* Mutant: a second result replaces the first and is delivered again.
Resolve_Twice(t) ==
  /\ Runs(t, "resolve")
  /\ LET f == Head(stack[t]).f
         r == Head(stack[t]).r
     IN  /\ state' = [state EXCEPT ![f] = "finished"]
         /\ resolved' = [resolved EXCEPT ![f] = r]
         /\ first' = [first EXCEPT ![f] = IF @ = <<>> THEN <<r>> ELSE @]
         /\ Becomes(t, [i \in 1..Len(then[f]) |-> Delivering(f, then[f][i])])
  /\ UNCHANGED <<made, origin, then, thrown, calls, given>>

\* Resolve, ResolveError: what they do under the mutex.
Resolve(t) ==
  /\ Runs(t, "resolve")
  /\ LET f == Head(stack[t]).f
         r == Head(stack[t]).r
     IN  IF state[f] = "finished"
         THEN Becomes(t, <<>>) /\ UNCHANGED <<state, resolved, then, first>>
         ELSE /\ state' = [state EXCEPT ![f] = "finished"]
              /\ resolved' = [resolved EXCEPT ![f] = r]
              /\ first' = [first EXCEPT ![f] = <<r>>]
              /\ then' = [then EXCEPT ![f] = <<>>]
              /\ Becomes(t, [i \in 1..Len(then[f]) |-> Delivering(f, then[f][i])])
  /\ UNCHANGED <<made, origin, thrown, calls, given>>

\* Mutant: does not see that the future is finished.
Attach_Blind(t) ==
  /\ Runs(t, "attach")
  /\ LET f == Head(stack[t]).f
         c == Head(stack[t]).c
     IN  then' = [then EXCEPT ![f] = <<c>>] /\ Becomes(t, <<>>)
  /\ UNCHANGED <<made, origin, state, resolved, thrown, calls, history>>

\* Then, OnError: what they do under the mutex. One continuation replaces
\* the other.
Attach(t) ==
  /\ Runs(t, "attach")
  /\ LET f == Head(stack[t]).f
         c == Head(stack[t]).c
     IN  IF state[f] = "finished"
         THEN Becomes(t, <<Late(f, c)>>) /\ UNCHANGED then
         ELSE then' = [then EXCEPT ![f] = <<c>>] /\ Becomes(t, <<>>)
  /\ UNCHANGED <<made, origin, state, resolved, thrown, calls, history>>

\* The cast to the error's type fails for an error that was moved away. The
\* one in the Then of a returned future casts to any, which no error is.
Throws(c, x) ==
  /\ ~x.ok
  /\ c.kind = "forwardError" \/ (c.kind = "onError" /\ x.v = Gone)

\* Mutant: an error is not passed on.
After_Drop(c, x) ==
  IF c.kind = "forward"
  THEN IF x.ok THEN <<Resolving(c.to, x), Resolving(c.next, x)>>
               ELSE <<Resolving(c.next, x)>>
  ELSE IF x.ok = (c.kind \in {"then", "thenFuture"})
       THEN <<InCallback(c)>>
       ELSE <<>>

\* What a continuation does with what it is given.
After(c, x) ==
  IF c.kind = "forward"
  THEN IF x.ok THEN <<Resolving(c.to, x), Resolving(c.next, x)>>
               ELSE <<Resolving(c.next, x)>>
  ELSE IF x.ok = (c.kind \in {"then", "thenFuture"})
       THEN <<InCallback(c)>>
       ELSE IF x.ok THEN <<>> ELSE <<Resolving(c.next, x)>>

\* The continuation runs. An exception unwinds all the thread was doing.
Continue(t, c, x) ==
  /\ given' = [given EXCEPT ![c.next] = Append(@, x)]
  /\ IF Throws(c, x)
     THEN thrown' = TRUE /\ stack' = [stack EXCEPT ![t] = <<>>]
     ELSE thrown' = thrown /\ Becomes(t, After(c, x))

\* then(std::move(d->resolved)), after the mutex is released.
Deliver(t) ==
  /\ Runs(t, "deliver")
  /\ LET f == Head(stack[t]).f
     IN  /\ Continue(t, Head(stack[t]).c, resolved[f])
         /\ resolved' = [resolved EXCEPT ![f].v = Gone]
  /\ UNCHANGED <<made, origin, state, then, calls, first>>

\* The continuation of a future that was finished already: Then copies the
\* value, OnError moves it.
RunLate(t) ==
  /\ Runs(t, "late")
  /\ LET f == Head(stack[t]).f
         c == Head(stack[t]).c
     IN  /\ Continue(t, c, resolved[f])
         /\ resolved' = IF c.kind \in {"onError", "forwardError"}
                        THEN [resolved EXCEPT ![f].v = Gone] ELSE resolved
  /\ UNCHANGED <<made, origin, state, then, calls, first>>

\* The callback returns a value, which resolves the next future: as an
\* error when the callback was OnError's.
ReturnValue(t, v) ==
  /\ Runs(t, "user")
  /\ LET c == Head(stack[t]).c
     IN  /\ c.kind \in {"then", "onError"}
         /\ Becomes(t, <<Resolving(c.next, IF c.kind = "then" THEN Ok(v) ELSE Err(v))>>)
  /\ UNCHANGED <<contexts, thrown, calls, history>>

\* The callback returns the future g: Then and OnError are called on it. The
\* future that OnError returns is never used, nor resolved: number 0.
ReturnFuture(t, g) ==
  /\ Runs(t, "user")
  /\ LET c == Head(stack[t]).c
         n == c.next + 2
     IN  /\ c.kind = "thenFuture"
         /\ "oneContinuation" \in Rules => g = c.next + 1 \/ ~Awaited(g)
         /\ origin' = [origin EXCEPT ![n].of = g]
         /\ Becomes(t, <<Attaching(g, Continuation("forward", n, c.next)),
                         Attaching(n, Continuation("forwardError", 0, c.next))>>)
  /\ UNCHANGED <<made, state, resolved, then, thrown, calls, history>>

Step(t) ==
  \/ Resolve(t)
  \/ Attach(t)
  \/ Deliver(t)
  \/ RunLate(t)
  \/ \E v \in Values : ReturnValue(t, v)
  \/ \E g \in Visible : ReturnFuture(t, g)

Init ==
  /\ made = 0
  /\ origin = [f \in Ids |-> From("made", 0)]
  /\ state = [f \in Ids |-> "pending"]
  /\ resolved = [f \in Ids |-> Err(Gone)]
  /\ then = [f \in Ids |-> <<>>]
  /\ stack = [t \in Threads |-> <<>>]
  /\ thrown = FALSE
  /\ calls = 0
  /\ first = [f \in Ids |-> <<>>]
  /\ given = [f \in Ids \cup {0} |-> <<>>]

Next == \E t \in Threads : User(t) \/ Step(t)

\* A thread that is inside a call goes on, and callbacks return.
Spec == Init /\ [][Next]_vars /\ \A t \in Threads : WF_vars(Step(t))

-----------------------------------------------------------------------------

Results == [ok : BOOLEAN, v : Values \cup {Gone}]

Finished(f) == f # 0 /\ state[f] = "finished"

Frames(t) == {stack[t][i] : i \in DOMAIN stack[t]}

\* Type invariant: a context holds a value once it is finished and not
\* before, and only then calls its continuation.
TypeOK ==
  /\ made \in 0..MaxFutures
  /\ \A f \in Ids :
       /\ origin[f].kind \in Kinds \cup {"made", "lazy"}
       /\ origin[f].of \in 0..made
       /\ state[f] \in {"pending", "finished"}
       /\ resolved[f] \in Results
       /\ (state[f] = "finished") = (first[f] # <<>>)
       /\ state[f] = "pending" \/ then[f] = <<>>
  /\ \A t \in Threads : \A frame \in Frames(t) :
       frame.op \in {"deliver", "late"} => state[frame.f] = "finished"

\* A continuation runs once at most, however the threads that resolve and
\* the one that attaches it race, and is given what the future was first
\* resolved with: not what a later call brought, not what is left after
\* another continuation moved it away.
RunsOnce ==
  TypeOK /\ \A f \in Futures :
    given[f] # <<>> => given[f] = first[origin[f].of]

\* No thread changes the value of a context while another is about to read
\* or move it, which no mutex guards.
NoRace ==
  [][\A f \in Ids : resolved'[f] # resolved[f] =>
       \A t \in Threads :
         (Runs(t, "deliver") \/ Runs(t, "late")) /\ Head(stack[t]).f = f
           => stack'[t] # stack[t]]_vars

\* A continuation of a finished future ran, or a thread is about to run it:
\* none falls between the call that attaches and the one that resolves.
NoneLost ==
  \A n \in Futures :
    Finished(origin[n].of) /\ ~thrown
      => \/ given[n] # <<>>
         \/ \E t \in Threads : \E frame \in Frames(t) :
              frame.op \in {"attach", "late", "deliver"} /\ frame.c.next = n

\* A continuation is called once at most, and none is lost.
Continuations == TypeOK /\ RunsOnce /\ NoneLost

\* A result reaches the end of a chain of Thens: once a future is finished,
\* so is in the end the one its Then returned.
Propagates ==
  \A n \in Ids :
    origin[n].kind = "then" /\ Finished(origin[n].of)
      ~> state[n] = "finished" \/ thrown

\* Also when a callback returned a future: its result, value or error,
\* becomes the result of the one that Then returned.
ForwardsResult ==
  \A n \in Ids \ {1, 2} :
    origin[n].kind = "forward" /\ Finished(origin[n].of)
      ~> state[n-2] = "finished"

=============================================================================
