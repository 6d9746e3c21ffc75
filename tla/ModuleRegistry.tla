--------------------------- MODULE ModuleRegistry ---------------------------
(***************************************************************************)
(* The process-wide table of modules (runtime/ModuleRegistry.cpp), the     *)
(* modules dictionary of the interpreter behind it, and the calls that     *)
(* fill the two: a built-in module's own initialiser with its InitGuard    *)
(* (posix_module), create_builtin and register_all_builtins around such an *)
(* initialiser, the look-up of import_module_level_object, and             *)
(* import_add_module with the module's code that its callers run then: a   *)
(* frozen module (runtime/Import.cpp) or a compiled one (PyInit_...).      *)
(* Every operation of the registry holds m_mutex from start to end, so     *)
(* each is one step; what lies between two of them interleaves.            *)
(*                                                                         *)
(* Module objects are told apart by who created them: the thread, or       *)
(* Python code that put one into sys.modules.  clear(), which only tests   *)
(* call, is left out, and so is an exception in the code of a frozen or    *)
(* compiled module: it ends the process.                                   *)
(***************************************************************************)
EXTENDS Naturals

CONSTANTS Threads,
          Modules,     \* module names
          Builtins,    \* the names whose initialiser uses an InitGuard
          Null,        \* a null PyModule pointer
          NoEntry,     \* a name the table does not have
          FromPython,  \* a module object put into sys.modules by Python code
          Idle         \* a thread that is not importing

ASSUME ModuleRegistryAssumption ==
    /\ Builtins \subseteq Modules
    /\ Null \notin Threads \union {FromPython}
    /\ FromPython \notin Threads

VARIABLES reg,     \* reg[n]: m_modules[n]
          mirror,  \* mirror[n]: Interpreter::modules()[n], Null if absent
          call,    \* call[t]: the import thread t is in the middle of
          filled   \* filled[n]: the threads whose module object for n has got
                   \* all its names: its initialiser, or its code, is through

vars == <<reg, mirror, call, filled>>

-----------------------------------------------------------------------------
FreshEntry ==
    [module |-> Null, initialized |-> FALSE, failed |-> FALSE, owner |-> Null]

\* m_modules[name], creating the entry
EntryOf(n) == IF reg[n] = NoEntry THEN FreshEntry ELSE reg[n]

\* find
Find(n) == IF reg[n] = NoEntry THEN Null ELSE reg[n].module

\* Mutant of Registered: the name goes where the module belongs.
RegisteredName(t, n, mod) ==
    [reg EXCEPT ![n] = [EntryOf(n) EXCEPT !.module = n,
                                          !.initialized = TRUE,
                                          !.owner = t]]

\* register_module
Registered(t, n, mod) ==
    [reg EXCEPT ![n] = [EntryOf(n) EXCEPT !.module = mod,
                                          !.initialized = TRUE,
                                          !.owner = t]]

\* mark_initialized
MarkedInitialized(n) ==
    IF reg[n] = NoEntry THEN reg ELSE [reg EXCEPT ![n].initialized = TRUE]

\* Mutant of MarkedFailed: a failed initialiser takes the entry out.
MarkedFailedErase(n) == [reg EXCEPT ![n] = NoEntry]

\* mark_failed
MarkedFailed(n) ==
    IF reg[n] = NoEntry THEN reg ELSE [reg EXCEPT ![n].failed = TRUE]

-----------------------------------------------------------------------------
\* An import in progress: pc is the next thing it does, by who began it: the
\* initialiser itself, create_builtin or register_all_builtins around it,
\* import_module_level_object, or who wants to run the module's code.
Frame(n, at, who) == [name |-> n, pc |-> at, by |-> who, mod |-> Null]

Goto(t, at) == [call EXCEPT ![t].pc = at]
With(t, at, m) == [call EXCEPT ![t].pc = at, ![t].mod = m]
Return(t) == [call EXCEPT ![t] = Idle]
At(t, at) == call[t] # Idle /\ call[t].pc = at

Init ==
    /\ reg = [n \in Modules |-> NoEntry]
    /\ mirror = [n \in Modules |-> Null]
    /\ call = [t \in Threads |-> Idle]
    /\ filled = [n \in Modules |-> {}]

\* A thread calls the initialiser of a built-in module, create_builtin or
\* register_all_builtins for it, or import_module_level_object.
Import(t) ==
    /\ call[t] = Idle
    /\ \E frame \in {Frame(n, "get_or_register", "init") : n \in Builtins}
              \union {Frame(n, "find", "builtin") : n \in Builtins}
              \union {Frame(n, "import_get_module", "level") : n \in Modules} :
           call' = [call EXCEPT ![t] = frame]
    /\ UNCHANGED <<reg, mirror, filled>>

\* import_frozen_module, which sets up the interpreter, or the PyInit_ function
\* of the compiled program: one thread does either.
RunModule(t) ==
    /\ call[t] = Idle
    /\ \A u \in Threads : call[u] # Idle => call[u].by # "run"
    /\ \E n \in Modules \ Builtins :
           call' = [call EXCEPT ![t] = Frame(n, "import_get_module", "run")]
    /\ UNCHANGED <<reg, mirror, filled>>

\* sys.modules[n] = m and del sys.modules[n]; the second is remove_module too.
WriteMirror(n) ==
    /\ \E m \in {Null, FromPython} : mirror' = [mirror EXCEPT ![n] = m]
    /\ UNCHANGED <<reg, call, filled>>

\* create_builtin and register_all_builtins look before they create.
FindBuiltin(t) ==
    /\ At(t, "find")
    /\ call' = IF Find(call[t].name) # Null THEN Return(t)
               ELSE Goto(t, "get_or_register")
    /\ UNCHANGED <<reg, mirror, filled>>

\* What import_get_module and import_add_module hand their caller: a frozen
\* or compiled module goes on to run its code in the module.
Got(t, mod) == IF call[t].by = "run" THEN With(t, "run", mod) ELSE Return(t)

\* thread t creates a module object for n: it has nothing in it
Created(t, n) == [filled EXCEPT ![n] = @ \ {t}]

\* import_get_module: the registry, then the dictionary of the interpreter,
\* what is found there being registered in a step of its own.  What is found
\* in neither, import_add_module creates.
ImportGetModule(t) ==
    LET n == call[t].name
    IN  /\ At(t, "import_get_module")
        /\ \/ /\ Find(n) # Null
              /\ call' = Got(t, Find(n))
              /\ UNCHANGED filled
           \/ /\ Find(n) = Null /\ mirror[n] # Null
              /\ call' = With(t, "register", mirror[n])
              /\ UNCHANGED filled
           \/ /\ Find(n) = Null /\ mirror[n] = Null /\ call[t].by = "level"
              /\ call' = Return(t)
              /\ UNCHANGED filled
           \/ /\ Find(n) = Null /\ mirror[n] = Null /\ call[t].by = "run"
              /\ call' = With(t, "register", t)
              /\ filled' = Created(t, n)
        /\ UNCHANGED <<reg, mirror>>

\* What posix_module does with a module it was given by get_or_register:
\* return it, to create_builtin if that is the caller.
Given(t, mod) ==
    IF call[t].by = "builtin" /\ mod # Null
    THEN With(t, "register", mod)
    ELSE Return(t)

\* Mutant of GetOrRegister: failed is looked at before initialised.
GetOrRegisterFailedFirst(t) ==
    LET n == call[t].name
        e == EntryOf(n)
    IN  /\ At(t, "get_or_register")
        /\ IF e.module = Null
           THEN /\ reg' = [reg EXCEPT ![n] = [e EXCEPT !.owner = t]]
                /\ call' = Goto(t, "body") /\ filled' = Created(t, n)
           ELSE /\ IF e.failed
                   THEN reg' = [reg EXCEPT ![n] = NoEntry] /\ call' = Return(t)
                   ELSE reg' = reg /\ call' = Given(t, e.module)
                /\ UNCHANGED filled
        /\ UNCHANGED mirror

\* Mutant of GetOrRegister: the entry gets its module as soon as it has an
\* owner, so that the others find something to wait for.
GetOrRegisterPlaceholder(t) ==
    LET n == call[t].name
        e == EntryOf(n)
    IN  /\ At(t, "get_or_register")
        /\ e.module # Null => e.initialized \/ e.owner = t \/ e.failed
        /\ IF e.module = Null
           THEN /\ reg' = [reg EXCEPT ![n] = [e EXCEPT !.owner = t, !.module = t]]
                /\ call' = Goto(t, "body") /\ filled' = Created(t, n)
           ELSE reg' = reg /\ call' = Given(t, e.module) /\ UNCHANGED filled
        /\ UNCHANGED mirror

\* get_or_register waits only for an entry that has a module and is neither
\* initialised, failed nor the thread's own.  Without a module the caller
\* becomes the owner, whoever the owner was.
GetOrRegister(t) ==
    LET n == call[t].name
        e == EntryOf(n)
    IN  /\ At(t, "get_or_register")
        /\ e.module # Null => e.initialized \/ e.owner = t \/ e.failed
        /\ IF e.module = Null
           THEN /\ reg' = [reg EXCEPT ![n] = [e EXCEPT !.owner = t]]
                /\ call' = Goto(t, "body") /\ filled' = Created(t, n)
           ELSE /\ IF e.initialized \/ e.owner = t
                   THEN reg' = reg /\ call' = Given(t, e.module)
                   ELSE /\ reg' = [reg EXCEPT ![n] = NoEntry]
                        /\ call' = Given(t, Null)
                /\ UNCHANGED filled
        /\ UNCHANGED mirror

\* The last of the names goes into the new module object.
FillModule(t) ==
    /\ At(t, "body")
    /\ filled' = [filled EXCEPT ![call[t].name] = @ \union {t}]
    /\ call' = With(t, "filled", t)
    /\ UNCHANGED <<reg, mirror>>

\* The module object goes into the table.
RegisterModule(t) ==
    /\ At(t, "filled")
    /\ reg' = Registered(t, call[t].name, call[t].mod)
    /\ call' = Goto(t, "commit")
    /\ UNCHANGED <<mirror, filled>>

\* Mutant of FailInit: a failed initialiser is tried again.
FailInitRetry(t) ==
    /\ At(t, "body")
    /\ reg' = MarkedFailed(call[t].name)
    /\ call' = Goto(t, "get_or_register")
    /\ UNCHANGED <<mirror, filled>>

\* An exception leaves the initialiser before the module is complete:
\* ~InitGuard.
FailInit(t) ==
    /\ At(t, "body")
    /\ reg' = MarkedFailed(call[t].name)
    /\ call' = Return(t)
    /\ UNCHANGED <<mirror, filled>>

\* InitGuard::commit
Commit(t) ==
    /\ At(t, "commit")
    /\ reg' = MarkedInitialized(call[t].name)
    /\ call' = Given(t, call[t].mod)
    /\ UNCHANGED <<mirror, filled>>

\* register_module at the end of create_builtin, register_all_builtins,
\* import_get_module and import_add_module.
RegisterResult(t) ==
    /\ At(t, "register")
    /\ reg' = Registered(t, call[t].name, call[t].mod)
    /\ call' = Got(t, call[t].mod)
    /\ UNCHANGED <<mirror, filled>>

\* The code of a frozen or compiled module comes to its end.
RunCode(t) ==
    /\ At(t, "run")
    /\ filled' = [filled EXCEPT ![call[t].name] = @ \union ({call[t].mod} \intersect Threads)]
    /\ call' = Return(t)
    /\ UNCHANGED <<reg, mirror>>

\* One step of an import in progress.
Step(t) ==
    \/ FindBuiltin(t) \/ ImportGetModule(t) \/ GetOrRegister(t)
    \/ FillModule(t) \/ FailInit(t) \/ RegisterModule(t) \/ Commit(t)
    \/ RegisterResult(t) \/ RunCode(t)

Next ==
    \/ \E t \in Threads : Import(t) \/ RunModule(t) \/ Step(t)
    \/ \E n \in Modules : WriteMirror(n)

\* A thread that is importing is run by the scheduler sooner or later.
Fairness == \A t \in Threads : WF_vars(Step(t))

Spec == Init /\ [][Next]_vars /\ Fairness

-----------------------------------------------------------------------------
ModuleObjects == Threads \union {FromPython, Null}

EntryType ==
    [module : ModuleObjects, initialized : BOOLEAN, failed : BOOLEAN,
     owner : Threads \union {Null}]

Pcs == {"find", "import_get_module", "get_or_register", "body", "filled",
        "commit", "register", "run"}

Callers == {"init", "builtin", "level", "run"}

Frames ==
    [name : Modules, pc : Pcs, by : Callers, mod : ModuleObjects]

\* The absence of an entry is no entry, the absence of an import no import.
ASSUME AbsenceAssumption == NoEntry \notin EntryType /\ Idle \notin Frames

\* Every variable has its type.
TypeOK ==
    /\ reg \in [Modules -> EntryType \union {NoEntry}]
    /\ mirror \in [Modules -> {Null, FromPython}]
    /\ call \in [Threads -> Frames \union {Idle}]
    /\ filled \in [Modules -> SUBSET Threads]

\* What find answers, to any thread and at any moment, has all its names in
\* it, also while a second thread is in the middle of initialising the same
\* module and when that thread then fails.  A frozen or compiled module goes
\* into the table before its code has run; if it is found half filled, a thread
\* is running the code of that very module object, so that none stays half
\* filled behind an import that ended.  (A module that Python code put into
\* sys.modules is its own business.)
FoundIsFilled ==
    \A n \in Modules :
        Find(n) \in Threads /\ Find(n) \notin filled[n] =>
            /\ n \notin Builtins
            /\ \E t \in Threads :
                   At(t, "run") /\ call[t].name = n /\ call[t].mod = Find(n)

\* An initialiser that has registered its module finds the name taken until
\* it is done, whatever other threads did meanwhile: the failure of a second
\* initialiser of the same module does not take it out again.
RegisteredUntilCommit ==
    \A t \in Threads :
        At(t, "commit") => call[t].mod # Null /\ Find(call[t].name) # Null

\* A module that was found once is found ever after.
RegisteredStays ==
    [][\A n \in Modules : Find(n) # Null => Find(n)' # Null]_vars

\* Every import comes to an end, one way or the other: nobody waits for a
\* thread that waits for him.
ImportsTerminate ==
    \A t \in Threads : call[t] # Idle ~> call[t] = Idle

\* ModuleRegistry.hpp:18 and PosixModule.cpp:180: a thread that finds another
\* one initialising a module waits for it, so that a module is initialised by
\* one thread at a time.
SingleInitialiser ==
    \A t, u \in Threads :
        At(t, "body") /\ At(u, "body") /\ call[t].name = call[u].name => t = u
=============================================================================
