---------------------------- MODULE Interpreter ----------------------------
(***************************************************************************)
(* The bytecode interpreter: the frames of the virtual machine, the chain  *)
(* of Python frames, handlers, the exception stack, and generators.        *)
(*                                                                         *)
(* The program that runs is any structured program.  An address in a       *)
(* function is its syntactic path: the blocks (try, with, loop) that       *)
(* enclose it, each with the region of the block that is being run.  The   *)
(* regions and the instructions that end them are those the lowering to    *)
(* bytecode emits.  Statements are chosen freely, so every program whose   *)
(* nesting fits the bounds is a behaviour.                                 *)
(***************************************************************************)
EXTENDS Integers, Sequences, FiniteSets, SequencesExt, FiniteSetsExt

CONSTANTS
    FrameIds,     \* identities of Python frames; a number is used again when nothing refers to it
    Gens,         \* generator objects
    LocalCounts,  \* numbers of locals a function may have
    GenLocals,    \* and a generator function
    Pushes,       \* numbers of values that are pushed around an instruction: arguments, register 0
    StackSize,    \* slots of the value stack, m_stack
    MaxFrames,    \* bound: frames on the stack of the virtual machine
    MaxBlocks,    \* bound: compound statements begun, over all frames
    MaxExc        \* bound: items on the exception stack

ASSUME FramesAssumption == FrameIds \subseteq Nat \ {0} /\ 1 \in FrameIds
ASSUME BoundsAssumption ==
    /\ LocalCounts \cup GenLocals \cup Pushes \subseteq Nat
    /\ {StackSize, MaxFrames, MaxBlocks, MaxExc} \subseteq Nat \ {0}

VARIABLES
    vm,       \* m_stack_frames, the last one is running
    current,  \* Interpreter::m_current_frame
    exc,      \* the exception stack that all Python frames share
    gens,     \* the generator objects
    pending,  \* the exception that the instruction just run returned, if any
    abort,    \* the assertion that ended the process, if any
    entered   \* compound statements begun so far

vars == <<vm, current, exc, gens, pending, abort, entered>>

NoFrame == 0
NoGen == "no generator"
None == "none"
Ok == "ok"

ASSUME GensAssumption == NoGen \notin Gens

\* An ordinary exception, and the one that ends an iteration.
Excs == {"Error", "StopIteration"}

-----------------------------------------------------------------------------
(* Blocks and paths *)

TryKinds == {"except", "finally", "both"}
HasHandlers(kind) == kind \in {"except", "both"}
HasFinally(kind) == kind \in {"finally", "both"}

\* A statement of the program may stand here; elsewhere the lowering has put code of its own.
StatementRegions == {"body", "handler", "orelse", "finally", "finallyX", "finallyR"}
Regions == StatementRegions
           \cup {"cond", "exit", "exited", "exitR", "exitedR", "exitX", "suppress", "reraise"}

Blocks == [kind : TryKinds \cup {"with", "loop"}, region : Regions]

Block(kind, region) == [kind |-> kind, region |-> region]
In(path, region) == Append(Front(path), Block(Last(path).kind, region))

\* The places of the try and with bodies around a path, and the addresses of their handlers.
BodiesOf(path) == {i \in DOMAIN path : path[i].region = "body" /\ path[i].kind # "loop"}
EnclosingBodies(path) == {SubSeq(path, 1, i) : i \in BodiesOf(path)}

-----------------------------------------------------------------------------
(* Frames.  The stack frame of the virtual machine and the Python frame of one *)
(* activation are one record; `back` is m_f_back, `base` and `sp` the base     *)
(* and stack pointers, and `pushed` what the instruction that is being run     *)
(* will pop.  History: the frame that made a generator (`maker`), whether      *)
(* values were left on the stack (`leaked`), and what the properties about     *)
(* handlers and finally blocks need (`due`, `jumped`, `escaped`).              *)

NewFrame(id, gen, how, at) ==
    [id |-> id, gen |-> gen, how |-> how, back |-> current, maker |-> NoFrame,
     base |-> at, sp |-> at, pushed |-> 0, leaked |-> FALSE,
     path |-> <<>>, cleanup |-> <<>>, due |-> 0, jumped |-> FALSE, escaped |-> FALSE]

\* The Push instructions in front of an instruction, and the Pops behind it.  The Pops are not
\* reached when it fails: what was pushed stays on the stack as long as the frame does.
Pushed(f, k) == [f EXCEPT !.sp = @ + k, !.pushed = @ + k]
MPopNone(f) == [f EXCEPT !.pushed = 0]
MPopOneMore(f) == [f EXCEPT !.sp = IF f.pushed = 0 THEN @ ELSE @ - f.pushed - 1, !.pushed = 0]
Popped(f) == [f EXCEPT !.sp = @ - f.pushed, !.pushed = 0]
Abandoned(f) == [f EXCEPT !.pushed = 0, !.leaked = @ \/ f.pushed > 0]

Top == Last(vm)
WithTop(f) == Append(Front(vm), f)

Running == abort = None /\ pending = None /\ vm # <<>>
RegionOf(path) == IF path = <<>> THEN "body" ELSE Last(path).region
AtStatement == Running /\ RegionOf(Top.path) \in StatementRegions
At(region) == Running /\ Top.path # <<>> /\ Last(Top.path).region = region

SavedFrames == {gens[g].frame : g \in {h \in Gens : gens[h].state = "suspended"}}
LiveFrames == ToSet(vm) \cup SavedFrames

\* Python frames are kept alive by the stack, by generators and by tracebacks; the number of a
\* frame that made a generator is not used again as long as there is the generator.
FreeIds ==
    FrameIds \ ({f.id : f \in LiveFrames} \cup {f.maker : f \in LiveFrames}
                   \cup {x.frame : x \in ToSet(exc)})
FreshId == CHOOSE id \in FreeIds : \A other \in FreeIds : id <= other

\* A compound statement begins.
Enter ==
    /\ AtStatement
    /\ entered < MaxBlocks
    /\ entered' = entered + 1

-----------------------------------------------------------------------------
(* The exception stack *)

\* ClearExceptionState pops while the innermost item was raised in the running frame.
Cleared(items, id) ==
    LET keep == {i \in DOMAIN items : items[i].frame # id}
    IN  SubSeq(items, 1, IF keep = {} THEN 0 ELSE CHOOSE i \in keep : \A j \in keep : j <= i)

\* ReRaise takes the innermost item, whoever raised it.
ReRaise(blame) ==
    IF exc = <<>>
    THEN /\ abort' = blame
         /\ UNCHANGED <<exc, pending>>
    ELSE /\ pending' = Last(exc).exc
         /\ exc' = Front(exc)
         /\ UNCHANGED abort

-----------------------------------------------------------------------------
(* Calls and the ways a frame is left *)

\* An instruction fails, with k values pushed in front of it.  Push does not test the end of the
\* stack: what a program does that pushes beyond it is not followed.
Fail(f, k, e) ==
    IF f.sp + k > StackSize
    THEN abort' = "beyond" /\ UNCHANGED <<vm, pending>>
    ELSE /\ vm' = WithTop(Abandoned(Pushed(f, k)))
         /\ pending' = e
         /\ UNCHANGED abort

\* VirtualMachine::push_frame, with the assertions it makes on the way: the new frame does not
\* begin below the caller.  A frame that yielded pops what it had pushed when it goes on.
PushFrame(caller, f) ==
    /\ Len(vm) < MaxFrames
    /\ IF caller.sp > StackSize THEN abort' = "beyond" /\ UNCHANGED <<vm, current>>
       ELSE IF f.sp < caller.sp \/ f.base < caller.base
       THEN abort' = "resume" /\ UNCHANGED <<vm, current>>
       ELSE IF f.sp >= StackSize THEN abort' = "overflow" /\ UNCHANGED <<vm, current>>
       ELSE /\ vm' = Append(WithTop(caller), Popped(f))
            /\ current' = f.id
            /\ UNCHANGED abort

\* What GeneratorInterface::send makes of the result of the generator's frame.
SendResult(g, result) ==
    IF result = "StopIteration" /\ ~gens[g].invalid_return THEN "Error" ELSE result

\* The instruction of the caller that was waiting goes on with the result: ForIter ends its
\* loop at StopIteration, WithExceptStart swallows what __exit__ raises, a call raises it.
Continue(caller, how, result) ==
    CASE how = "iter" /\ result = "StopIteration" ->
             /\ vm' = Append(Front(Front(vm)), [Popped(caller) EXCEPT !.path = Front(@)])
             /\ pending' = None
      [] how = "exit" ->
             /\ \E truthy \in BOOLEAN :
                    LET suppressed == result = Ok /\ (truthy \/ exc' = <<>>)
                    IN  vm' = Append(Front(Front(vm)),
                            [Popped(caller) EXCEPT !.path = In(@, IF suppressed THEN "suppress" ELSE "reraise")])
             /\ pending' = None
      [] OTHER ->
             /\ vm' = Append(Front(Front(vm)),
                             IF result = Ok THEN Popped(caller) ELSE Abandoned(caller))
             /\ pending' = IF result = Ok THEN None ELSE result

\* pop_frame, the end of eval_loop and of Interpreter::call, and for a generator the end of
\* send: a frame that yields is kept, one that fails is dropped for good.
GenAfter(f, result) ==
    IF result = Ok
    THEN [state |-> "suspended", frame |-> [f EXCEPT !.back = NoFrame], invalid_return |-> FALSE]
    ELSE [state |-> "finished", frame |-> NoFrame, invalid_return |-> FALSE]

\* The two tails the end of a frame may have in the chain of Python frames.
MExitToSelf(f) == f.id
ExitTo(f) == f.back

\* pop_frame asserts that the frame lies above the one it returns to.  With the last frame the
\* program ends, and the module's frame stays the current one.
Leave(f, result) ==
    LET passed == IF f.gen = NoGen THEN result ELSE SendResult(f.gen, result)
        caller == vm[Len(vm) - 1]
    IN  IF Len(vm) > 1 /\ (f.sp < caller.sp \/ f.base < caller.base)
        THEN abort' = "pop" /\ UNCHANGED <<vm, current, gens, pending>>
        ELSE /\ gens' = IF f.gen = NoGen THEN gens
                        ELSE [gens EXCEPT ![f.gen] = GenAfter(f, passed)]
             /\ IF Len(vm) = 1
                THEN vm' = <<>> /\ pending' = None /\ current' = current
                ELSE Continue(caller, f.how, passed) /\ current' = ExitTo(f)
             /\ UNCHANGED abort

Call(caller, n, how) ==
    /\ FreeIds # {}
    /\ PushFrame(caller, NewFrame(FreshId, NoGen, how, caller.sp + n))
    /\ UNCHANGED <<exc, gens, pending>>

\* FunctionCall of a Python function.
FunctionCall ==
    /\ AtStatement
    /\ \E k \in Pushes, n \in LocalCounts : Call(Pushed(Top, k), n, "call")
    /\ UNCHANGED entered

\* Calling a generator function: the frame is pushed, popped and cloned into the generator.
MakeGenerator ==
    /\ AtStatement
    /\ FreeIds # {}
    /\ \E g \in Gens, k \in Pushes, n \in GenLocals :
        /\ gens[g].state = "none"
        /\ Len(vm) < MaxFrames
        /\ IF Top.sp + k > StackSize THEN abort' = "beyond" /\ UNCHANGED gens
           ELSE IF Top.sp + k + n >= StackSize THEN abort' = "overflow" /\ UNCHANGED gens
           ELSE /\ gens' = [gens EXCEPT ![g] = [state |-> "suspended", invalid_return |-> FALSE,
                               frame |-> [NewFrame(FreshId, g, "call", Top.sp + k + n)
                                             EXCEPT !.back = NoFrame, !.maker = Top.id]]]
                /\ UNCHANGED abort
    /\ UNCHANGED <<vm, current, exc, pending, entered>>

\* GeneratorInterface::send: refused while it runs, StopIteration once it has finished.
MSendAnyway(g) == gens[g].state \in {"suspended", "running"}
MaySend(g) == gens[g].state = "suspended"

Send(g, how, k) ==
    \/ /\ gens[g].state = "running"
       /\ Fail(Top, k, "Error")
       /\ UNCHANGED <<current, exc, gens>>
    \/ /\ gens[g].state = "finished"
       /\ IF how = "iter"
          THEN vm' = WithTop([Top EXCEPT !.path = Front(@)]) /\ pending' = None /\ UNCHANGED abort
          ELSE Fail(Top, k, "StopIteration")
       /\ UNCHANGED <<current, exc, gens>>
    \/ /\ MaySend(g)
       /\ PushFrame(Pushed(Top, k), [gens[g].frame EXCEPT !.how = how, !.back = current])
       /\ gens' = IF abort' = None THEN [gens EXCEPT ![g].state = "running"] ELSE gens
       /\ UNCHANGED <<exc, pending>>

\* next(g), g.send(v) or g.__next__() as an expression.
SendToGenerator ==
    /\ AtStatement
    /\ \E g \in Gens, k \in Pushes : Send(g, "call", k)
    /\ UNCHANGED entered

\* ForIter at the head of a loop whose iterator is a generator: nothing is pushed.
ForIter ==
    /\ AtStatement
    /\ Top.path # <<>> /\ Last(Top.path).kind = "loop"
    /\ \E g \in Gens : Send(g, "iter", 0)
    /\ UNCHANGED entered

\* YieldValue: the frame leaves with its handlers, and with register 0 on the stack when that is
\* saved across the yield; it is resumed after this instruction.
YieldValue ==
    /\ AtStatement
    /\ Top.gen # NoGen
    /\ UNCHANGED exc
    /\ \E k \in Pushes :
         IF Top.sp + k > StackSize
         THEN abort' = "beyond" /\ UNCHANGED <<vm, current, gens, pending>>
         ELSE Leave(Pushed(Top, k), Ok)
    /\ UNCHANGED entered

-----------------------------------------------------------------------------
(* Raising, and the part of eval_loop that handles a failed instruction *)

\* RaiseVarargs with an exception, or any instruction that fails.
Raise ==
    /\ AtStatement
    /\ \E e \in Excs, k \in Pushes : Fail(Top, k, e)
    /\ UNCHANGED <<current, exc, gens, entered>>

\* A bare raise is lowered to ReRaise.
BareRaise ==
    /\ AtStatement
    /\ ReRaise("bare raise")
    /\ UNCHANGED <<vm, current, gens, entered>>

\* A handler of the kind of the block: the first condition, the copy of the finally block
\* that ends in ReRaise, or the cleanup of a with statement.
HandlerRegion(kind) ==
    IF kind = "with" THEN "exitX" ELSE IF HasHandlers(kind) THEN "cond" ELSE "finallyX"

\* Blocks whose finally runs nowhere when an exception leaves them from here.
EscapesFinally(path) ==
    \E b \in ToSet(path) : HasFinally(b.kind) /\ b.region \in {"cond", "handler", "orelse"}

\* eval_loop records the exception, then jumps to the innermost handler or leaves the frame.
MHandleInPlace(f) ==
    LET target == Last(f.cleanup) IN
    [f EXCEPT !.path = In(target.path, HandlerRegion(Last(target.path).kind)),
              !.escaped = @ \/ EscapesFinally(f.path),
              !.due = IF Last(target.path).kind = "finally" THEN @ - 1 ELSE @]
JumpToHandler(f) ==
    LET target == Last(f.cleanup) IN
    [f EXCEPT !.path = In(target.path, HandlerRegion(Last(target.path).kind)),
              !.cleanup = Front(@),
              !.escaped = @ \/ EscapesFinally(f.path),
              !.due = IF Last(target.path).kind = "finally" THEN @ - 1 ELSE @]

\* push_exception, with the traceback that names the frame where it was raised.
MPushAfterLeaving(f) ==
    exc' = Append(exc, [exc |-> pending, frame |-> IF f.cleanup = <<>> THEN ExitTo(f) ELSE current])
PushException(f) == exc' = Append(exc, [exc |-> pending, frame |-> current])

HandleError ==
    /\ abort = None /\ pending # None
    /\ Len(exc) < MaxExc
    /\ PushException(Top)
    /\ IF Top.cleanup = <<>>
       THEN Leave([Top EXCEPT !.escaped = @ \/ EscapesFinally(Top.path)], pending)
       ELSE /\ vm' = WithTop(JumpToHandler(Top))
            /\ pending' = None
            /\ UNCHANGED <<current, gens, abort>>
    /\ UNCHANGED entered

-----------------------------------------------------------------------------
(* Blocks: what TryOpLowering, WithOpLowering and the loop lowerings emit *)

\* SetupExceptionHandling and SetupWith install the handler at the address of the block.
Install(kind) ==
    LET p == Append(Top.path, Block(kind, "body"))
    IN  vm' = WithTop([Top EXCEPT !.path = p, !.cleanup = Append(@, [with |-> kind = "with", path |-> p]),
                                  !.due = IF HasFinally(kind) THEN @ + 1 ELSE @])

EnterTry ==
    /\ Enter
    /\ \E kind \in TryKinds : Install(kind)
    /\ UNCHANGED <<current, exc, gens, pending, abort>>

EnterWith ==
    /\ Enter
    /\ Install("with")
    /\ UNCHANGED <<current, exc, gens, pending, abort>>

EnterLoop ==
    /\ Enter
    /\ vm' = WithTop([Top EXCEPT !.path = Append(@, Block("loop", "body"))])
    /\ UNCHANGED <<current, exc, gens, pending, abort>>

\* Where control goes after the body, a handler or the else block of a try.
MSkipFinally(f) == [f EXCEPT !.path = Front(@)]
ToFinallyOrEnd(f) ==
    IF HasFinally(Last(f.path).kind)
    THEN [f EXCEPT !.path = In(@, "finally"), !.due = @ - 1]
    ELSE [f EXCEPT !.path = Front(@)]

\* LeaveExceptionHandling at the end of a body.
DropHandler(f) == [f EXCEPT !.cleanup = Front(@)]

EndBody ==
    /\ At("body")
    /\ LET f == Top
           kind == Last(f.path).kind
       IN  CASE kind = "loop" -> vm' = WithTop([f EXCEPT !.path = Front(@)]) /\ abort' = abort
             [] kind # "loop" /\ f.cleanup = <<>> -> abort' = "leave" /\ vm' = vm
             [] kind = "with" /\ f.cleanup # <<>> ->
                    vm' = WithTop([DropHandler(f) EXCEPT !.path = In(@, "exit")]) /\ abort' = abort
             [] kind \in TryKinds /\ f.cleanup # <<>> ->
                    /\ \/ vm' = WithTop(ToFinallyOrEnd(DropHandler(f)))
                       \/ /\ HasHandlers(kind)
                          /\ vm' = WithTop([DropHandler(f) EXCEPT !.path = In(@, "orelse")])
                    /\ abort' = abort
    /\ UNCHANGED <<current, exc, gens, pending, entered>>

\* The conditions of the handlers: one matches, or none does and the exception goes on,
\* through the finally block when there is one, or a condition fails.
MatchHandler ==
    /\ At("cond")
    /\ \/ /\ vm' = WithTop([Top EXCEPT !.path = In(@, "handler")])
          /\ UNCHANGED <<exc, pending, abort>>
       \/ /\ HasFinally(Last(Top.path).kind)
          /\ vm' = WithTop([Top EXCEPT !.path = In(@, "finallyX"), !.due = @ - 1])
          /\ UNCHANGED <<exc, pending, abort>>
       \/ /\ ~HasFinally(Last(Top.path).kind)
          /\ ReRaise("reraise")
          /\ vm' = vm
       \/ /\ \E k \in Pushes : Fail(Top, k, "Error")
          /\ UNCHANGED exc
    /\ UNCHANGED <<current, gens, entered>>

EndHandler ==
    /\ At("handler")
    /\ exc' = Cleared(exc, current)
    /\ vm' = WithTop(ToFinallyOrEnd(Top))
    /\ UNCHANGED <<current, gens, pending, abort, entered>>

EndOrelse ==
    /\ At("orelse")
    /\ vm' = WithTop(ToFinallyOrEnd(Top))
    /\ UNCHANGED <<current, exc, gens, pending, abort, entered>>

EndFinally ==
    /\ At("finally")
    /\ vm' = WithTop([Top EXCEPT !.path = Front(@)])
    /\ UNCHANGED <<current, exc, gens, pending, abort, entered>>

\* The other copy of the finally block, and a with statement whose __exit__ did not ask to
\* suppress the exception.
EndWithReRaise ==
    /\ At("finallyX") \/ At("reraise")
    /\ ReRaise("reraise")
    /\ UNCHANGED <<vm, current, gens, entered>>

\* __exit__ at the end of a with statement, native or a Python function.
CallExit ==
    /\ At("exit") \/ At("exitR")
    /\ LET after == IF Last(Top.path).region = "exit" THEN "exited" ELSE "exitedR"
           caller == [Top EXCEPT !.path = In(@, after)]
       IN  \/ /\ vm' = WithTop(caller)
              /\ UNCHANGED <<current, exc, gens, pending, abort>>
           \/ /\ \E k \in Pushes : Fail(caller, k, "Error")
              /\ UNCHANGED <<current, exc, gens>>
           \/ \E k \in Pushes, n \in LocalCounts : Call(Pushed(caller, k), n, "call")
    /\ UNCHANGED entered

\* WithExceptStart: __exit__ with the innermost exception; what it raises is swallowed here,
\* unlike the failure to find the method.
WithExceptStart ==
    /\ At("exitX")
    /\ \/ /\ \E region \in {"suppress", "reraise"} : vm' = WithTop([Top EXCEPT !.path = In(@, region)])
          /\ UNCHANGED <<current, exc, gens, pending, abort>>
       \/ \E k \in Pushes, n \in LocalCounts : Call(Pushed(Top, k), n, "exit")
       \/ /\ \E k \in Pushes : Fail(Top, k, "Error")
          /\ UNCHANGED <<current, exc, gens>>
    /\ UNCHANGED entered

EndWith ==
    /\ At("exited") \/ At("suppress")
    /\ exc' = Cleared(exc, current)
    /\ vm' = WithTop([Top EXCEPT !.path = Front(@)])
    /\ UNCHANGED <<current, gens, pending, abort, entered>>

\* break and continue are lowered to a plain branch: nothing is uninstalled and no finally
\* block is copied.
Jump ==
    /\ AtStatement
    /\ LET loops == {i \in DOMAIN Top.path : Top.path[i].kind = "loop"}
           inner == CHOOSE i \in loops : \A j \in loops : j <= i
       IN  /\ loops # {}
           /\ \E target \in {inner - 1, inner} :
                LET crossed == SubSeq(Top.path, inner + 1, Len(Top.path))
                IN  vm' = WithTop([Top EXCEPT !.path = SubSeq(@, 1, target),
                            !.jumped = @ \/ \E b \in ToSet(crossed) : b.region # "finally"])
    /\ UNCHANGED <<current, exc, gens, pending, abort, entered>>

-----------------------------------------------------------------------------
(* return *)

\* The blocks whose finally code return_value copies, innermost first.
Owed(path) ==
    {i \in DOMAIN path : /\ HasFinally(path[i].kind) \/ path[i].kind = "with"
                         /\ path[i].region \in {"body", "handler", "orelse"}}

\* VirtualMachine::ret drops the handlers of the frame and refuses to leave one that still
\* has handlers with an exception of its own innermost.
MayReturn(f, items) ==
    IF items = <<>> \/ \A h \in ToSet(f.cleanup) : h.with
    THEN TRUE ELSE Last(items).frame # current

\* The next copy, or the return itself: in a generator it raises StopIteration.
ReturnFrom(f) ==
    LET owed == Owed(f.path)
        next == CHOOSE i \in owed : \A j \in owed : j <= i
        kind == f.path[next].kind
        g == f.gen
    IN  CASE owed # {} ->
               /\ vm' = WithTop([f EXCEPT
                        !.path = In(SubSeq(@, 1, next), IF kind = "with" THEN "exitR" ELSE "finallyR"),
                        !.due = IF kind = "with" THEN @ ELSE @ - 1,
                        !.jumped = TRUE])
               /\ UNCHANGED <<current, gens, pending, abort>>
          [] owed = {} /\ g # NoGen ->
               /\ vm' = WithTop(f)
               /\ gens' = [gens EXCEPT ![g].invalid_return = TRUE]
               /\ pending' = "StopIteration"
               /\ UNCHANGED <<current, abort>>
          [] owed = {} /\ g = NoGen /\ MayReturn(f, exc') -> Leave(f, Ok)
          [] OTHER ->
               /\ abort' = "return"
               /\ UNCHANGED <<vm, current, gens, pending>>

\* The code of a module has no return statement, but ends in a return.
Return ==
    /\ AtStatement
    /\ Top.back = NoFrame => Top.path = <<>>
    /\ exc' = IF \E b \in ToSet(Top.path) : b.region = "handler" THEN Cleared(exc, current) ELSE exc
    /\ ReturnFrom(Top)
    /\ UNCHANGED entered

\* The end of a copy: of a finally block, or of the call of __exit__.
ReturnOn ==
    /\ At("finallyR") \/ At("exitedR")
    /\ exc' = IF At("exitedR") THEN Cleared(exc, current) ELSE exc
    /\ ReturnFrom([Top EXCEPT !.path = Front(@)])
    /\ UNCHANGED entered

-----------------------------------------------------------------------------

Init ==
    /\ current = 1
    /\ vm = <<[NewFrame(1, NoGen, "call", 0) EXCEPT !.back = NoFrame]>>
    /\ exc = <<>>
    /\ gens = [g \in Gens |-> [state |-> "none", frame |-> NoFrame, invalid_return |-> FALSE]]
    /\ pending = None
    /\ abort = None
    /\ entered = 0

Next ==
    \/ FunctionCall \/ MakeGenerator \/ SendToGenerator \/ ForIter \/ YieldValue
    \/ Raise \/ BareRaise \/ HandleError
    \/ EnterTry \/ EnterWith \/ EnterLoop
    \/ EndBody \/ MatchHandler \/ EndHandler \/ EndOrelse \/ EndFinally \/ EndWithReRaise
    \/ CallExit \/ WithExceptStart \/ EndWith
    \/ Jump \/ Return \/ ReturnOn

Spec == Init /\ [][Next]_vars

-----------------------------------------------------------------------------
(* Properties *)

Paths == Seq(Blocks)

Frames ==
    [id : FrameIds, gen : Gens \cup {NoGen}, how : {"call", "iter", "exit"},
     back : FrameIds \cup {NoFrame}, maker : FrameIds \cup {NoFrame},
     base : 0..StackSize, sp : 0..StackSize, pushed : Nat, leaked : BOOLEAN, path : Paths,
     cleanup : Seq([with : BOOLEAN, path : Paths]), due : Int,
     jumped : BOOLEAN, escaped : BOOLEAN]

\* Every variable has its type.
TypeOK ==
    /\ vm \in Seq(Frames)
    /\ current \in FrameIds \cup {NoFrame}
    /\ exc \in Seq([exc : Excs, frame : FrameIds])
    /\ \A g \in Gens :
         /\ gens[g].state \in {"none", "suspended", "running", "finished"}
         /\ gens[g].invalid_return \in BOOLEAN
    /\ SavedFrames \subseteq Frames
    /\ pending \in Excs \cup {None}
    /\ entered \in 0..MaxBlocks
    /\ abort \in {None, "beyond", "resume", "overflow", "pop", "leave",
                      "bare raise", "reraise", "return"}

\* Interpreter.cpp keeps the chain of Python frames, VM.cpp the stack of frames, and each is
\* left on its own on every way out of a function (return, exception, yield): they stay the
\* same list, so that execution_frame() is always the frame whose code is running.
FrameChainInSync ==
    /\ vm # <<>> => current = Top.id
    /\ \A i \in DOMAIN vm : vm[i].back = (IF i = 1 THEN NoFrame ELSE vm[i - 1].id)

\* m_is_running is set exactly while the frame of the generator is on the stack, where it is
\* at most once, and a generator that waits owns its frame alone.
GeneratorRunsOnce ==
    /\ \A g \in Gens :
         gens[g].state = "running" <=> \E i \in DOMAIN vm : vm[i].gen = g
    /\ \A i, j \in DOMAIN vm : i # j => vm[i].id # vm[j].id
    /\ \A f \in SavedFrames : \A i \in DOMAIN vm : vm[i].id # f.id

\* Until a frame has left a block by break, continue or return, its handlers are those of the
\* try and with bodies around the instruction that runs, innermost last: an exception goes to
\* the handler the program text says, also across calls, yields and re-raises.
HandlersMatchNesting ==
    \A f \in LiveFrames :
        ~f.jumped =>
            /\ {h.path : h \in ToSet(f.cleanup)} = EnclosingBodies(f.path)
            /\ \A i, j \in DOMAIN f.cleanup :
                   i < j => Len(f.cleanup[i].path) < Len(f.cleanup[j].path)

\* What pop_frame asserts, of every frame but those of generators: a function's frame lies above
\* its caller's at every moment, whatever either has pushed, popped and left on the stack.
CalleesAbove ==
    \A i \in 2..Len(vm) :
        vm[i].gen = NoGen => vm[i - 1].sp <= vm[i].sp /\ vm[i - 1].base <= vm[i].base

\* The assertions of push_frame let the function that made a generator iterate over it with a for
\* loop, which pushes nothing, at any time and whatever the generator did before, as long as no
\* exception has left values of that function on the stack.
MakerMayResume ==
    \A f \in SavedFrames : \A i \in DOMAIN vm :
        vm[i].id = f.maker /\ ~vm[i].leaked =>
            vm[i].base <= f.base /\ vm[i].sp - vm[i].pushed <= f.sp

\* The enclosing blocks whose finally code has not begun, and those a frame will never run:
\* it is outside them already, or is about to leave with an exception nothing handles.
OpenBlocks(path) ==
    {i \in DOMAIN path : /\ HasFinally(path[i].kind)
                         /\ path[i].region \in {"body", "cond", "handler", "orelse"}}
OpenFinally(path) == Cardinality(OpenBlocks(path))
WillRun(f) == IF pending # None /\ f = Top /\ f.cleanup = <<>> THEN 0 ELSE OpenFinally(f.path)

\* Unless break, continue or return left a block, or an exception left the handler or the else
\* of a try that has a finally, every finally block that was entered and has not yet run is
\* one that encloses the instruction that runs and is still to run, exactly once.
FinallyRunsOnceUnlessLeft ==
    \A f \in LiveFrames :
        f.jumped \/ f.escaped \/ EscapesFinally(f.path) \/ f.due = WillRun(f)

\* integration/tests/try.py: "Finally should always be reached".
FinallyAlwaysReached == \A f \in LiveFrames : f.due <= WillRun(f)

=============================================================================
