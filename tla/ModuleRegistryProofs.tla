------------------------ MODULE ModuleRegistryProofs ------------------------
(***************************************************************************)
(* Theorems about the table of modules, for every set of threads and of    *)
(* module names.                                                           *)
(***************************************************************************)
EXTENDS ModuleRegistry, TLAPS

\* An entry has a module if and only if it is marked as initialised: register_module sets both.
ModuleIffInitialized ==
    \A n \in Modules :
        reg[n] # NoEntry => (reg[n].module # Null <=> reg[n].initialized)

\* The table r has a module for n.
Has(r, n) == r[n] # NoEntry /\ r[n].module # Null

\* What thread t relies on at its place in the import f, with the table r and the filled modules F:
\* it has the module that it is about to register, and has filled it or found it in the table.
FrameOK(f, t, r, F) ==
    /\ f.pc \in {"commit", "register"} => f.mod # Null
    /\ f.pc = "commit" => Has(r, f.name)
    /\ f.pc = "filled" => f.mod = t /\ t \in F[f.name]
    /\ f.by = "run" => f.name \notin Builtins
    /\ f.pc \in {"commit", "register"} /\ f.name \in Builtins /\ f.mod \in Threads =>
           f.mod \in F[f.name] /\ Has(r, f.name)

FramesOK == \A t \in Threads : call[t] # Idle => FrameOK(call[t], t, reg, filled)

\* The two parts of FoundIsFilled: a built-in module is found filled, any other filled or running.
BuiltinFoundIsFilled ==
    \A n \in Builtins : Find(n) \in Threads => Find(n) \in filled[n]

UnfilledIsRunning ==
    \A n \in Modules \ Builtins :
        Find(n) \in Threads /\ Find(n) \notin filled[n] =>
            \E t \in Threads :
                At(t, "run") /\ call[t].name = n /\ call[t].mod = Find(n)

\* BuiltinFoundIsFilled is not inductive: what create_builtin registers behind an initialiser was
\* filled when the initialiser gave it, and must still be.  Nor is RegisteredUntilCommit: commit
\* marks an entry as initialised, so it has to have a module by then.
IInv == TypeOK /\ ModuleIffInitialized /\ FramesOK /\ BuiltinFoundIsFilled

-----------------------------------------------------------------------------

\* The entry that an operation works on, made when there is none, is a proper one.
LEMMA EntryOfType ==
    ASSUME TypeOK, ModuleIffInitialized, NEW n \in Modules
    PROVE  /\ EntryOf(n) \in EntryType
           /\ EntryOf(n).module # Null <=> EntryOf(n).initialized
<1>1. FreshEntry \in EntryType
  BY DEF FreshEntry, EntryType, ModuleObjects
<1>2. CASE reg[n] = NoEntry
  BY <1>1, <1>2 DEF EntryOf, FreshEntry
<1>3. CASE reg[n] # NoEntry
  BY <1>3 DEF EntryOf, TypeOK, ModuleIffInitialized
<1> QED BY <1>2, <1>3

\* The import of a thread that is at some place of it.
LEMMA FrameType ==
    ASSUME TypeOK, NEW t \in Threads, call[t] # Idle
    PROVE  call[t] \in Frames /\ call[t].name \in Modules
BY DEF TypeOK, Frames

LEMMA InitHolds == Init => IInv
BY ModuleRegistryAssumption
   DEF Init, IInv, TypeOK, ModuleIffInitialized, FramesOK, BuiltinFoundIsFilled, Find

-----------------------------------------------------------------------------
(* What a step does to the table: a name keeps its entry in a proper state and keeps its *)
(* module.                                                                               *)

Proper(r) ==
    /\ r \in [Modules -> EntryType \union {NoEntry}]
    /\ \A n \in Modules : r[n] # NoEntry => (r[n].module # Null <=> r[n].initialized)
    /\ \A n \in Modules : Find(n) # Null => Has(r, n)

\* register_module with a module.
LEMMA RegisteredProper ==
    ASSUME TypeOK, ModuleIffInitialized, NEW t \in Threads, NEW n \in Modules,
           NEW mod \in ModuleObjects, mod # Null
    PROVE  /\ Proper(Registered(t, n, mod))
           /\ Registered(t, n, mod)[n] # NoEntry
           /\ Registered(t, n, mod)[n].module = mod
           /\ \A k \in Modules : k # n => Registered(t, n, mod)[k] = reg[k]
<1> DEFINE e == [EntryOf(n) EXCEPT !.module = mod, !.initialized = TRUE, !.owner = t]
           r == Registered(t, n, mod)
<1>1. e \in EntryType /\ e.module = mod /\ e.initialized
  BY EntryOfType DEF EntryType
<1>2. r = [reg EXCEPT ![n] = e]
  BY DEF Registered
<1>3. e # NoEntry
  BY <1>1, AbsenceAssumption
<1> HIDE DEF e
<1>4. r[n] = e /\ \A k \in Modules : k # n => r[k] = reg[k]
  BY <1>2 DEF TypeOK
<1>5. r \in [Modules -> EntryType \union {NoEntry}]
  BY <1>1, <1>2 DEF TypeOK
<1>6. Proper(r)
  BY <1>1, <1>3, <1>4, <1>5 DEF Proper, Has, ModuleIffInitialized, Find
<1> QED BY <1>1, <1>3, <1>4, <1>6

\* mark_initialized of a name that has a module.
LEMMA MarkedInitializedProper ==
    ASSUME TypeOK, ModuleIffInitialized, NEW n \in Modules, Find(n) # Null
    PROVE  Proper(MarkedInitialized(n))
<1> DEFINE r == MarkedInitialized(n)
<1>1. reg[n] # NoEntry /\ reg[n] \in EntryType /\ reg[n].module # Null
  BY DEF Find, TypeOK
<1>2. r = [reg EXCEPT ![n].initialized = TRUE]
  BY <1>1 DEF MarkedInitialized
<1>3. /\ r[n] \in EntryType /\ r[n].module = reg[n].module /\ r[n].initialized
      /\ \A k \in Modules : k # n => r[k] = reg[k]
  BY <1>1, <1>2 DEF TypeOK, EntryType
<1>4. r \in [Modules -> EntryType \union {NoEntry}]
  BY <1>2, <1>3 DEF TypeOK
<1> HIDE DEF r
<1>5. Proper(r)
  BY <1>1, <1>3, <1>4, AbsenceAssumption DEF Proper, Has, ModuleIffInitialized, Find
<1> QED BY <1>5 DEF r

\* mark_failed.
LEMMA MarkedFailedProper ==
    ASSUME TypeOK, ModuleIffInitialized, NEW n \in Modules
    PROVE  Proper(MarkedFailed(n))
<1> DEFINE r == MarkedFailed(n)
<1>1. CASE reg[n] = NoEntry
  BY <1>1 DEF MarkedFailed, Proper, Has, TypeOK, ModuleIffInitialized, Find
<1>2. CASE reg[n] # NoEntry
  <2>1. reg[n] \in EntryType
    BY <1>2 DEF TypeOK
  <2>2. r = [reg EXCEPT ![n].failed = TRUE]
    BY <1>2 DEF MarkedFailed
  <2>3. /\ r[n] \in EntryType
        /\ r[n].module = reg[n].module /\ r[n].initialized = reg[n].initialized
        /\ \A k \in Modules : k # n => r[k] = reg[k]
    BY <2>1, <2>2 DEF TypeOK, EntryType
  <2>4. r \in [Modules -> EntryType \union {NoEntry}]
    BY <2>2, <2>3 DEF TypeOK
  <2> HIDE DEF r
  <2>5. Proper(r)
    BY <1>2, <2>3, <2>4, AbsenceAssumption DEF Proper, Has, ModuleIffInitialized, Find
  <2> QED BY <2>5 DEF r
<1> QED BY <1>1, <1>2

\* A caller of get_or_register becomes the owner of an entry without a module.
LEMMA OwnedProper ==
    ASSUME TypeOK, ModuleIffInitialized, NEW t \in Threads, NEW n \in Modules,
           EntryOf(n).module = Null
    PROVE  Proper([reg EXCEPT ![n] = [EntryOf(n) EXCEPT !.owner = t]])
<1> DEFINE e == [EntryOf(n) EXCEPT !.owner = t]
           r == [reg EXCEPT ![n] = e]
<1>1. e \in EntryType /\ e.module = Null /\ ~e.initialized
  BY EntryOfType DEF EntryType
<1>2. Find(n) = Null
  BY DEF Find, EntryOf
<1> HIDE DEF e
<1>3. r[n] = e /\ \A k \in Modules : k # n => r[k] = reg[k]
  BY DEF TypeOK
<1>4. r \in [Modules -> EntryType \union {NoEntry}]
  BY <1>1 DEF TypeOK
<1> HIDE DEF r
<1>5. Proper(r)
  BY <1>1, <1>2, <1>3, <1>4 DEF Proper, Has, ModuleIffInitialized, Find
<1> QED BY <1>5 DEF e, r

\* The table as it is.
LEMMA SameProper ==
    ASSUME TypeOK, ModuleIffInitialized
    PROVE  Proper(reg)
BY DEF Proper, Has, TypeOK, ModuleIffInitialized, Find

-----------------------------------------------------------------------------
(* Steps *)

Kept == \A n \in Modules : Find(n) # Null => Find(n)' # Null

\* A name's module is one that find answered before the step, or one that is filled.
Backed(r, F) ==
    \A n \in Builtins : Has(r, n) /\ r[n].module \in Threads =>
        r[n].module = Find(n) \/ r[n].module \in F[n]

\* Thread t may empty its own module object, when the name has no module.
Lasting(t, F) ==
    /\ F \in [Modules -> SUBSET Threads]
    /\ \A n \in Modules : \A u \in filled[n] : u # t => u \in F[n]
    /\ \A n \in Builtins : \A u \in filled[n] : Find(n) # Null => u \in F[n]

GoodFrame(f, t) ==
    f \in Frames \union {Idle} /\ (f # Idle => FrameOK(f, t, reg', filled'))

\* A step that leaves a proper table, keeps what is filled and moves one thread to a place it may be
\* at is safe: what another thread relies on stays.
LEMMA StepByFrame ==
    ASSUME IInv, Proper(reg'), mirror' \in [Modules -> {Null, FromPython}],
           NEW t \in Threads, Lasting(t, filled'), Backed(reg', filled'),
           NEW f, GoodFrame(f, t), call' = [call EXCEPT ![t] = f]
    PROVE  IInv' /\ Kept
<1>1. Kept
  BY DEF Kept, Find, Proper, Has
<1>2. TypeOK' /\ ModuleIffInitialized'
  BY DEF IInv, TypeOK, ModuleIffInitialized, Proper, GoodFrame, Lasting
<1>3. call'[t] = f /\ \A u \in Threads : u # t => call'[u] = call[u]
  BY DEF IInv, TypeOK
<1>4. ASSUME NEW u \in Threads, call'[u] # Idle
      PROVE  FrameOK(call'[u], u, reg', filled')
  <2>1. CASE u = t
    BY <1>3, <1>4, <2>1 DEF GoodFrame
  <2>2. CASE u # t
    <3> DEFINE g == call[u]
    <3>1. call'[u] = g /\ g # Idle /\ g \in Frames /\ g.name \in Modules
      BY <1>3, <1>4, <2>2, FrameType DEF IInv
    <3>2. FrameOK(g, u, reg, filled)
      BY <3>1 DEF IInv, FramesOK
    <3>3. Has(reg, g.name) => Has(reg', g.name)
      BY <3>1 DEF Proper, Has, Find
    <3>4. g.pc = "filled" => u \in filled'[g.name]
      BY <2>2, <3>1, <3>2 DEF FrameOK, Lasting
    <3>5. g.name \in Builtins /\ Has(reg, g.name) /\ g.mod \in filled[g.name] =>
              g.mod \in filled'[g.name]
      BY <3>1 DEF Lasting, Has, Find
    <3> HIDE DEF g
    <3>6. FrameOK(g, u, reg', filled')
      BY <3>2, <3>3, <3>4, <3>5 DEF FrameOK
    <3> QED BY <3>1, <3>6
  <2> QED BY <2>1, <2>2
<1>5. FramesOK'
  BY <1>4 DEF FramesOK
<1>6. ASSUME NEW n \in Builtins, Find(n)' \in Threads
      PROVE  Find(n)' \in filled'[n]
  <2>1. n \in Modules /\ Has(reg', n) /\ reg'[n].module = Find(n)'
    BY <1>6, ModuleRegistryAssumption DEF Find, Has
  <2>2. CASE Find(n)' = Find(n)
    <3>1. Find(n) \in filled[n] /\ Find(n) # Null
      BY <1>6, <2>2, ModuleRegistryAssumption DEF IInv, BuiltinFoundIsFilled
    <3> QED BY <2>2, <3>1 DEF Lasting
  <2>3. CASE Find(n)' # Find(n)
    BY <1>6, <2>1, <2>3 DEF Backed
  <2> QED BY <2>2, <2>3
<1>7. BuiltinFoundIsFilled'
  BY <1>6 DEF BuiltinFoundIsFilled
<1> QED BY <1>1, <1>2, <1>5, <1>7 DEF IInv

\* The table and the modules as they are.
LEMMA SameBacked ==
    ASSUME IInv, NEW t \in Threads
    PROVE  Backed(reg, filled) /\ Lasting(t, filled)
BY DEF IInv, TypeOK, Backed, Lasting, Has, Find

\* A new module object, for a name that has no module or is not a built-in one.
LEMMA CreatedLasting ==
    ASSUME IInv, NEW t \in Threads, NEW n \in Modules, n \in Builtins => Find(n) = Null
    PROVE  Lasting(t, Created(t, n))
<1>1. \A k \in Modules : Created(t, n)[k] = IF k = n THEN filled[k] \ {t} ELSE filled[k]
  BY DEF IInv, TypeOK, Created
<1>2. Created(t, n) \in [Modules -> SUBSET Threads]
  BY DEF IInv, TypeOK, Created
<1> QED BY <1>1, <1>2, ModuleRegistryAssumption DEF Lasting

\* A module object that gets all its names.
LEMMA FilledLasting ==
    ASSUME IInv, NEW t \in Threads, NEW n \in Modules, NEW S \in SUBSET Threads
    PROVE  /\ Lasting(t, [filled EXCEPT ![n] = @ \union S])
           /\ S \subseteq [filled EXCEPT ![n] = @ \union S][n]
<1> DEFINE F == [filled EXCEPT ![n] = @ \union S]
<1>1. \A k \in Modules : F[k] = IF k = n THEN filled[k] \union S ELSE filled[k]
  BY DEF IInv, TypeOK
<1>2. F \in [Modules -> SUBSET Threads]
  BY DEF IInv, TypeOK
<1> HIDE DEF F
<1>3. Lasting(t, F)
  BY <1>1, <1>2, ModuleRegistryAssumption DEF Lasting
<1> QED BY <1>1, <1>3 DEF F

\* A thread starts to import, or to run a module's code.
LEMMA ImportSafe ==
    ASSUME IInv, NEW t \in Threads, Import(t) \/ RunModule(t)
    PROVE  IInv' /\ Kept
<1>1. PICK n \in Modules, at \in {"get_or_register", "find", "import_get_module"}, who \in Callers :
        /\ call' = [call EXCEPT ![t] = Frame(n, at, who)]
        /\ who = "run" => n \notin Builtins
  BY ModuleRegistryAssumption DEF Import, RunModule, Callers
<1>2. Frame(n, at, who) \in Frames
  BY <1>1 DEF Frame, Frames, Pcs, ModuleObjects
<1>3. GoodFrame(Frame(n, at, who), t)
  BY <1>1, <1>2 DEF GoodFrame, FrameOK, Frame
<1>4. Proper(reg') /\ mirror' \in [Modules -> {Null, FromPython}]
  BY SameProper DEF Import, RunModule, IInv, TypeOK
<1>5. Lasting(t, filled') /\ Backed(reg', filled')
  BY SameBacked DEF Import, RunModule
<1> QED BY <1>1, <1>3, <1>4, <1>5, StepByFrame

\* create_builtin looks for a name.
LEMMA FindSafe ==
    ASSUME IInv, NEW t \in Threads, FindBuiltin(t)
    PROVE  IInv' /\ Kept
<1> DEFINE asked == [call[t] EXCEPT !.pc = "get_or_register"]
<1>1. call[t] \in Frames /\ call[t].name \in Modules /\ call[t] # Idle
  BY FrameType DEF IInv, FindBuiltin, At
<1>2. Proper(reg') /\ mirror' \in [Modules -> {Null, FromPython}]
  BY SameProper DEF FindBuiltin, IInv, TypeOK
<1>3. Lasting(t, filled') /\ Backed(reg', filled')
  BY SameBacked DEF FindBuiltin
<1>4. /\ asked \in Frames /\ asked.pc = "get_or_register"
      /\ asked.by = call[t].by /\ asked.name = call[t].name
  BY <1>1 DEF Frames, Pcs
<1>5. FrameOK(call[t], t, reg, filled)
  BY <1>1 DEF IInv, FramesOK
<1>6. call' = [call EXCEPT ![t] = Idle] \/ call' = [call EXCEPT ![t] = asked]
  BY <1>1 DEF FindBuiltin, Return, Goto, IInv, TypeOK
<1> HIDE DEF asked
<1>7. GoodFrame(Idle, t) /\ GoodFrame(asked, t)
  BY <1>4, <1>5 DEF GoodFrame, FrameOK
<1> QED BY <1>2, <1>3, <1>6, <1>7, StepByFrame

\* A thread that is given a place to go to and a module.
LEMMA WithFrame ==
    ASSUME TypeOK, NEW t \in Threads, call[t] # Idle, NEW at \in Pcs, NEW m \in ModuleObjects
    PROVE  \E f \in Frames :
             /\ f.pc = at /\ f.mod = m /\ f.name = call[t].name /\ f.by = call[t].by
             /\ With(t, at, m) = [call EXCEPT ![t] = f]
<1> DEFINE f == [call[t] EXCEPT !.pc = at, !.mod = m]
<1>1. call[t] \in Frames
  BY FrameType
<1>2. f \in Frames /\ f.pc = at /\ f.mod = m /\ f.name = call[t].name /\ f.by = call[t].by
  BY <1>1 DEF Frames
<1>3. With(t, at, m) = [call EXCEPT ![t] = f]
  BY <1>1 DEF With, TypeOK
<1> QED BY <1>2, <1>3

\* import_get_module: what it finds or creates for a built-in name is no thread's module.
LEMMA ImportGetModuleSafe ==
    ASSUME IInv, NEW t \in Threads, ImportGetModule(t)
    PROVE  IInv' /\ Kept
<1> DEFINE n == call[t].name
<1>1. call[t] \in Frames /\ n \in Modules /\ call[t] # Idle
  BY FrameType DEF IInv, ImportGetModule, At
<1>2. Proper(reg') /\ mirror' \in [Modules -> {Null, FromPython}] /\ reg' = reg
  BY SameProper DEF ImportGetModule, IInv, TypeOK
<1>3. FrameOK(call[t], t, reg, filled) /\ TypeOK
  BY <1>1 DEF IInv, FramesOK
<1>4. GoodFrame(Idle, t)
  BY DEF GoodFrame
<1>5. CASE UNCHANGED filled /\ (call' = Return(t) \/ \E m \in ModuleObjects : call' = With(t, "run", m))
  <2>1. Lasting(t, filled') /\ Backed(reg', filled')
    BY <1>2, <1>5, SameBacked
  <2>2. CASE call' = Return(t)
    BY <1>2, <1>4, <2>1, <2>2, StepByFrame DEF Return
  <2>3. ASSUME NEW m \in ModuleObjects, call' = With(t, "run", m) PROVE IInv' /\ Kept
    <3>1. PICK f \in Frames :
            /\ f.pc = "run" /\ f.mod = m /\ f.name = n /\ f.by = call[t].by
            /\ call' = [call EXCEPT ![t] = f]
      BY <1>1, <1>3, <2>3, WithFrame DEF Pcs
    <3>2. GoodFrame(f, t)
      BY <1>3, <3>1 DEF GoodFrame, FrameOK
    <3> QED BY <1>2, <2>1, <3>1, <3>2, StepByFrame
  <2> QED BY <1>5, <2>2, <2>3
<1>6. CASE UNCHANGED filled /\ mirror[n] # Null /\ call' = With(t, "register", mirror[n])
  <2>1. Lasting(t, filled') /\ Backed(reg', filled')
    BY <1>2, <1>6, SameBacked
  <2>2. mirror[n] \in ModuleObjects /\ mirror[n] \notin Threads
    BY <1>1, <1>6, ModuleRegistryAssumption DEF IInv, TypeOK, ModuleObjects
  <2> DEFINE m == mirror[n]
  <2> HIDE DEF m
  <2>0. call' = With(t, "register", m) /\ "register" \in Pcs /\ m \in ModuleObjects
    BY <1>6, <2>2 DEF Pcs, m
  <2>3. PICK f \in Frames :
          /\ f.pc = "register" /\ f.mod = m /\ f.name = n /\ f.by = call[t].by
          /\ call' = [call EXCEPT ![t] = f]
    BY <1>1, <1>3, <2>0, WithFrame
  <2>4. GoodFrame(f, t)
    BY <1>3, <1>6, <2>2, <2>3 DEF GoodFrame, FrameOK, m
  <2> QED BY <1>2, <2>1, <2>3, <2>4, StepByFrame
<1>7. CASE call[t].by = "run" /\ call' = With(t, "register", t) /\ filled' = Created(t, n)
  <2>1. n \notin Builtins
    BY <1>3, <1>7 DEF FrameOK
  <2>2. Lasting(t, filled')
    BY <1>1, <1>7, <2>1, CreatedLasting
  <2>3. Backed(reg', filled')
    BY <1>2 DEF Backed, Has, Find
  <2>4. t \in ModuleObjects /\ t # Null
    BY ModuleRegistryAssumption DEF ModuleObjects
  <2>5. PICK f \in Frames :
          /\ f.pc = "register" /\ f.mod = t /\ f.name = n /\ f.by = call[t].by
          /\ call' = [call EXCEPT ![t] = f]
    BY <1>1, <1>3, <1>7, <2>4, WithFrame DEF Pcs
  <2>6. GoodFrame(f, t)
    BY <2>1, <2>4, <2>5 DEF GoodFrame, FrameOK
  <2> QED BY <1>2, <2>2, <2>3, <2>5, <2>6, StepByFrame
<1>8. Find(n) # Null => Find(n) \in ModuleObjects
  BY <1>1 DEF IInv, TypeOK, Find, EntryType
<1> QED BY <1>5, <1>6, <1>7, <1>8 DEF ImportGetModule, Got

\* The frame of a thread that was given a module by an initialiser.
LEMMA GivenFrame ==
    ASSUME IInv, NEW t \in Threads, call[t] # Idle, NEW mod \in ModuleObjects,
           call[t].name \in Builtins /\ mod \in Threads =>
               mod \in filled'[call[t].name] /\ Has(reg', call[t].name)
    PROVE  \E f : GoodFrame(f, t) /\ Given(t, mod) = [call EXCEPT ![t] = f]
<1>1. FrameOK(call[t], t, reg, filled) /\ TypeOK
  BY DEF IInv, FramesOK
<1>2. CASE call[t].by = "builtin" /\ mod # Null
  <2>1. PICK f \in Frames :
          /\ f.pc = "register" /\ f.mod = mod /\ f.name = call[t].name /\ f.by = call[t].by
          /\ Given(t, mod) = [call EXCEPT ![t] = f]
    BY <1>1, <1>2, WithFrame DEF Given, Pcs
  <2>2. GoodFrame(f, t)
    BY <1>2, <2>1 DEF GoodFrame, FrameOK
  <2> QED BY <2>1, <2>2
<1>3. CASE ~(call[t].by = "builtin" /\ mod # Null)
  <2>1. GoodFrame(Idle, t)
    BY DEF GoodFrame
  <2>2. Given(t, mod) = [call EXCEPT ![t] = Idle]
    BY <1>3 DEF Given, Return
  <2> QED BY <2>1, <2>2
<1> QED BY <1>2, <1>3

\* get_or_register: the entry of a failed initialiser is never taken out, since an entry that
\* has a module is initialised.
LEMMA GetOrRegisterSafe ==
    ASSUME IInv, NEW t \in Threads, GetOrRegister(t)
    PROVE  IInv' /\ Kept
<1> DEFINE n == call[t].name
           e == EntryOf(n)
<1>1. call[t] \in Frames /\ n \in Modules /\ call[t] # Idle
  BY FrameType DEF IInv, GetOrRegister, At
<1>2. e \in EntryType /\ (e.module # Null <=> e.initialized)
  BY <1>1, EntryOfType DEF IInv
<1>3. mirror' \in [Modules -> {Null, FromPython}]
  BY DEF IInv, TypeOK, GetOrRegister
<1>4. CASE e.module = Null
  <2> DEFINE f == [call[t] EXCEPT !.pc = "body"]
             o == [e EXCEPT !.owner = t]
  <2>1. reg' = [reg EXCEPT ![n] = o] /\ filled' = Created(t, n)
    BY <1>4 DEF GetOrRegister
  <2>2. Proper(reg')
    BY <1>1, <1>4, <2>1, OwnedProper DEF IInv
  <2>3. call' = [call EXCEPT ![t] = f]
    BY <1>1, <1>4 DEF GetOrRegister, Goto, IInv, TypeOK
  <2>4. f \in Frames /\ f.pc = "body" /\ f.by = call[t].by /\ f.name = n
    BY <1>1 DEF Frames, Pcs
  <2>5. GoodFrame(f, t)
    <3>1. FrameOK(call[t], t, reg, filled)
      BY <1>1 DEF IInv, FramesOK
    <3> HIDE DEF f
    <3> QED BY <2>4, <3>1 DEF GoodFrame, FrameOK
  <2>6. Find(n) = Null /\ o.module = Null
    BY <1>2, <1>4 DEF Find, EntryOf, EntryType
  <2>7. Lasting(t, filled')
    BY <1>1, <2>1, <2>6, CreatedLasting
  <2>8. Backed(reg', filled')
    <3>1. reg'[n] = o /\ \A k \in Modules : k # n => reg'[k] = reg[k]
      BY <1>1, <2>1 DEF IInv, TypeOK
    <3> HIDE DEF o
    <3> QED BY <2>6, <3>1, ModuleRegistryAssumption DEF Backed, Has, Find
  <2> QED BY <1>3, <2>2, <2>3, <2>5, <2>7, <2>8, StepByFrame
<1>5. CASE e.module # Null
  <2>1. reg' = reg /\ call' = Given(t, e.module) /\ filled' = filled
    BY <1>2, <1>5 DEF GetOrRegister
  <2>2. Proper(reg') /\ Lasting(t, filled') /\ Backed(reg', filled')
    BY <2>1, SameProper, SameBacked DEF IInv
  <2>3. e.module \in ModuleObjects
    BY <1>2 DEF EntryType
  <2>4. reg[n] # NoEntry /\ e.module = Find(n) /\ Has(reg, n)
    BY <1>5 DEF EntryOf, FreshEntry, Find, Has
  <2>5. n \in Builtins /\ e.module \in Threads => e.module \in filled[n]
    BY <2>4 DEF IInv, BuiltinFoundIsFilled
  <2> HIDE DEF e
  <2>6. PICK f : GoodFrame(f, t) /\ Given(t, e.module) = [call EXCEPT ![t] = f]
    BY <1>1, <2>1, <2>3, <2>4, <2>5, GivenFrame
  <2> QED BY <1>3, <2>1, <2>2, <2>6, StepByFrame
<1> QED BY <1>4, <1>5

\* The initialiser completes its module object, or is left by an exception before that.
LEMMA BodySafe ==
    ASSUME IInv, NEW t \in Threads, FillModule(t) \/ FailInit(t)
    PROVE  IInv' /\ Kept
<1> DEFINE n == call[t].name
<1>1. call[t] \in Frames /\ n \in Modules /\ call[t] # Idle
  BY FrameType DEF IInv, FillModule, FailInit, At
<1>2. mirror' \in [Modules -> {Null, FromPython}]
  BY DEF IInv, TypeOK, FillModule, FailInit
<1>3. t \in ModuleObjects /\ TypeOK /\ FrameOK(call[t], t, reg, filled)
  BY <1>1 DEF ModuleObjects, IInv, FramesOK
<1>4. CASE FillModule(t)
  <2>1. Lasting(t, filled') /\ t \in filled'[n]
    BY <1>1, <1>4, FilledLasting DEF FillModule
  <2>2. Proper(reg') /\ Backed(reg', filled')
    BY <1>4, SameProper DEF FillModule, IInv, Backed, Has, Find
  <2>3. PICK f \in Frames :
          /\ f.pc = "filled" /\ f.mod = t /\ f.name = n /\ f.by = call[t].by
          /\ call' = [call EXCEPT ![t] = f]
    BY <1>1, <1>3, <1>4, WithFrame DEF FillModule, Pcs
  <2>4. GoodFrame(f, t)
    BY <1>3, <2>1, <2>3 DEF GoodFrame, FrameOK
  <2> QED BY <1>2, <2>1, <2>2, <2>3, <2>4, StepByFrame
<1>5. CASE FailInit(t)
  <2> DEFINE r == MarkedFailed(n)
  <2>1. Proper(r) /\ reg' = r /\ filled' = filled
    BY <1>1, <1>5, MarkedFailedProper DEF FailInit, IInv
  <2>2. call' = [call EXCEPT ![t] = Idle]
    BY <1>5 DEF FailInit, Return
  <2>3. GoodFrame(Idle, t)
    BY DEF GoodFrame
  <2>4. \A k \in Modules : Has(r, k) => r[k].module = Find(k)
    BY <1>1 DEF MarkedFailed, Has, Find, IInv, TypeOK, EntryType
  <2> HIDE DEF r
  <2>5. Lasting(t, filled') /\ Backed(reg', filled')
    BY <2>1, <2>4, SameBacked, ModuleRegistryAssumption DEF Backed
  <2> QED BY <1>2, <2>1, <2>2, <2>3, <2>5, StepByFrame
<1> QED BY <1>4, <1>5

\* register_module of a module that is filled, or of a name that is not a built-in one.
LEMMA RegisteredBacked ==
    ASSUME IInv, NEW t \in Threads, NEW n \in Modules, NEW mod \in ModuleObjects, mod # Null,
           n \in Builtins /\ mod \in Threads => mod \in filled[n]
    PROVE  /\ Proper(Registered(t, n, mod)) /\ Has(Registered(t, n, mod), n)
           /\ Backed(Registered(t, n, mod), filled)
<1> DEFINE r == Registered(t, n, mod)
<1>1. /\ Proper(r) /\ r[n] # NoEntry /\ r[n].module = mod
      /\ \A k \in Modules : k # n => r[k] = reg[k]
  BY RegisteredProper DEF IInv
<1> HIDE DEF r
<1>2. Has(r, n) /\ Backed(r, filled)
  BY <1>1, ModuleRegistryAssumption DEF Has, Backed, Find
<1> QED BY <1>1, <1>2 DEF r

\* The initialiser registers its module.
LEMMA RegisterModuleSafe ==
    ASSUME IInv, NEW t \in Threads, RegisterModule(t)
    PROVE  IInv' /\ Kept
<1> DEFINE n == call[t].name
           f == [call[t] EXCEPT !.pc = "commit"]
<1>1. call[t] \in Frames /\ n \in Modules /\ call[t] # Idle
  BY FrameType DEF IInv, RegisterModule, At
<1>2. mirror' \in [Modules -> {Null, FromPython}] /\ filled' = filled /\ reg' = Registered(t, n, call[t].mod)
  BY DEF IInv, TypeOK, RegisterModule
<1>3. FrameOK(call[t], t, reg, filled) /\ call[t].pc = "filled"
  BY <1>1 DEF IInv, FramesOK, RegisterModule, At
<1>4. call[t].mod = t /\ t \in filled[n] /\ t # Null /\ t \in ModuleObjects
  BY <1>3, ModuleRegistryAssumption DEF FrameOK, ModuleObjects
<1>5. Proper(reg') /\ Has(reg', n) /\ Backed(reg', filled')
  BY <1>1, <1>2, <1>4, RegisteredBacked
<1>6. call' = [call EXCEPT ![t] = f]
  BY <1>1 DEF RegisterModule, Goto, IInv, TypeOK
<1>7. f \in Frames /\ f.mod = t /\ f.name = n /\ f.pc = "commit" /\ f.by = call[t].by
  BY <1>1, <1>4 DEF Frames, Pcs
<1> HIDE DEF f
<1>8. GoodFrame(f, t)
  BY <1>2, <1>3, <1>4, <1>5, <1>7 DEF GoodFrame, FrameOK
<1>9. Lasting(t, filled')
  BY <1>2, SameBacked
<1> QED BY <1>2, <1>5, <1>6, <1>8, <1>9, StepByFrame

\* InitGuard::commit.
LEMMA CommitSafe ==
    ASSUME IInv, NEW t \in Threads, Commit(t)
    PROVE  IInv' /\ Kept
<1> DEFINE n == call[t].name
           r == MarkedInitialized(n)
<1>1. call[t] \in Frames /\ n \in Modules /\ call[t] # Idle /\ call[t].mod \in ModuleObjects
  BY FrameType DEF IInv, Commit, At, Frames
<1>2. FrameOK(call[t], t, reg, filled) /\ call[t].pc = "commit"
  BY <1>1 DEF IInv, FramesOK, Commit, At
<1>3. Has(reg, n) /\ Find(n) # Null
  BY <1>2 DEF FrameOK, Has, Find
<1>4. Proper(r) /\ reg' = r /\ filled' = filled
  BY <1>1, <1>3, MarkedInitializedProper DEF Commit, IInv
<1>5. \A k \in Modules : Has(r, k) => r[k].module = Find(k)
  BY <1>1 DEF MarkedInitialized, Has, Find, IInv, TypeOK, EntryType
<1> HIDE DEF r
<1>6. Lasting(t, filled') /\ Backed(reg', filled')
  BY <1>4, <1>5, SameBacked, ModuleRegistryAssumption DEF Backed
<1>7. Has(reg', n)
  BY <1>1, <1>3, <1>4 DEF Proper
<1>8. PICK f : GoodFrame(f, t) /\ Given(t, call[t].mod) = [call EXCEPT ![t] = f]
  BY <1>1, <1>2, <1>4, <1>7, GivenFrame DEF FrameOK
<1>9. mirror' \in [Modules -> {Null, FromPython}] /\ call' = [call EXCEPT ![t] = f]
  BY <1>8 DEF IInv, TypeOK, Commit
<1> QED BY <1>4, <1>6, <1>8, <1>9, StepByFrame

\* register_module behind the initialiser or the look-up.
LEMMA RegisterResultSafe ==
    ASSUME IInv, NEW t \in Threads, RegisterResult(t)
    PROVE  IInv' /\ Kept
<1> DEFINE n == call[t].name
<1>1. /\ call[t] \in Frames /\ n \in Modules /\ call[t] # Idle /\ call[t].mod \in ModuleObjects
      /\ TypeOK /\ FrameOK(call[t], t, reg, filled) /\ call[t].pc = "register"
  BY FrameType DEF IInv, RegisterResult, At, Frames, FramesOK
<1>2. call[t].mod # Null /\ (n \in Builtins /\ call[t].mod \in Threads => call[t].mod \in filled[n])
  BY <1>1 DEF FrameOK
<1>3. reg' = Registered(t, n, call[t].mod) /\ filled' = filled /\ mirror' \in [Modules -> {Null, FromPython}]
  BY DEF RegisterResult, IInv, TypeOK
<1>4. Proper(reg') /\ Backed(reg', filled') /\ Lasting(t, filled')
  BY <1>1, <1>2, <1>3, RegisteredBacked, SameBacked
<1>5. CASE call[t].by = "run"
  <2>0. call' = With(t, "run", call[t].mod) /\ "run" \in Pcs
    BY <1>5 DEF RegisterResult, Got, Pcs
  <2>1. PICK f \in Frames :
          /\ f.pc = "run" /\ f.mod = call[t].mod /\ f.name = n /\ f.by = call[t].by
          /\ call' = [call EXCEPT ![t] = f]
    BY <1>1, <2>0, WithFrame
  <2>2. GoodFrame(f, t)
    BY <1>1, <2>1 DEF GoodFrame, FrameOK
  <2> QED BY <1>3, <1>4, <2>1, <2>2, StepByFrame
<1>6. CASE call[t].by # "run"
  <2>1. call' = [call EXCEPT ![t] = Idle] /\ GoodFrame(Idle, t)
    BY <1>6 DEF RegisterResult, Got, Return, GoodFrame
  <2> QED BY <1>3, <1>4, <2>1, StepByFrame
<1> QED BY <1>5, <1>6

\* The code of a module ends.
LEMMA RunCodeSafe ==
    ASSUME IInv, NEW t \in Threads, RunCode(t)
    PROVE  IInv' /\ Kept
<1> DEFINE n == call[t].name
<1>1. n \in Modules
  BY FrameType DEF IInv, RunCode, At
<1>2. Lasting(t, filled')
  BY <1>1, FilledLasting DEF RunCode
<1>3. Proper(reg') /\ Backed(reg', filled') /\ mirror' \in [Modules -> {Null, FromPython}]
  BY SameProper DEF RunCode, IInv, TypeOK, Backed, Has, Find
<1>4. call' = [call EXCEPT ![t] = Idle] /\ GoodFrame(Idle, t)
  BY DEF RunCode, Return, GoodFrame
<1> QED BY <1>2, <1>3, <1>4, StepByFrame

\* Every step keeps the invariant and every module that can be found.
LEMMA StepHolds ==
    ASSUME IInv, [Next]_vars
    PROVE  IInv' /\ Kept
<1>1. CASE UNCHANGED vars
  BY <1>1 DEF vars, IInv, TypeOK, ModuleIffInitialized, FramesOK, BuiltinFoundIsFilled, FrameOK, Has, Find, Kept
<1>2. ASSUME NEW n \in Modules, WriteMirror(n) PROVE IInv' /\ Kept
  BY <1>2 DEF WriteMirror, IInv, TypeOK, ModuleIffInitialized, FramesOK, BuiltinFoundIsFilled, FrameOK, Has, Find, Kept
<1>3. ASSUME NEW t \in Threads, Import(t) \/ RunModule(t) \/ Step(t) PROVE IInv' /\ Kept
  BY <1>3, ImportSafe, FindSafe, ImportGetModuleSafe, GetOrRegisterSafe, BodySafe, RegisterModuleSafe,
     CommitSafe, RegisterResultSafe, RunCodeSafe DEF Step
<1> QED BY <1>1, <1>2, <1>3 DEF Next

\* The invariant holds for ever.
LEMMA Invariance == Spec => []IInv
<1>1. Init => IInv
  BY InitHolds
<1>2. IInv /\ [Next]_vars => IInv'
  BY StepHolds
<1> QED BY <1>1, <1>2, PTL DEF Spec

-----------------------------------------------------------------------------
(* Modules whose code is run: which steps touch them *)

\* An initialiser, and what is around it, is for a built-in module; what import_module_level_object
\* registers comes from sys.modules.
CallerOK(f) ==
    /\ f.by \in {"init", "builtin"} => f.name \in Builtins
    /\ f.pc \in {"find", "get_or_register", "body", "filled", "commit"} => f.by \in {"init", "builtin"}
    /\ f.pc = "register" /\ f.mod \in Threads => f.by # "level"

CallersOK == \A t \in Threads : call[t] # Idle => CallerOK(call[t])

\* UnfilledIsRunning needs to know that only the thread that will run its code registers an
\* unfilled module.
RunInv == IInv /\ CallersOK /\ UnfilledIsRunning

\* A module object that find answers before and after a step, for a name that is not built in.
Same(n) == Find(n)' = Find(n) /\ \A u \in Threads : u \in filled[n] /\ u = Find(n) => u \in filled'[n]

\* A step that moves one thread, which was not running code, and leaves what is found as it is.
LEMMA StepElsewhere ==
    ASSUME RunInv, NEW t \in Threads, ~At(t, "run"), NEW f, call' = [call EXCEPT ![t] = f],
           f # Idle => CallerOK(f), \A n \in Modules \ Builtins : Same(n)
    PROVE  CallersOK' /\ UnfilledIsRunning'
<1>1. call'[t] = f /\ \A u \in Threads : u # t => call'[u] = call[u]
  BY DEF RunInv, IInv, TypeOK
<1>2. CallersOK'
  BY <1>1 DEF RunInv, CallersOK
<1>3. ASSUME NEW n \in Modules \ Builtins, Find(n)' \in Threads, Find(n)' \notin filled'[n]
      PROVE  \E u \in Threads : At(u, "run")' /\ call'[u].name = n /\ call'[u].mod = Find(n)'
  <2>1. Find(n)' = Find(n) /\ Find(n) \notin filled[n]
    BY <1>3 DEF Same
  <2>2. PICK u \in Threads : At(u, "run") /\ call[u].name = n /\ call[u].mod = Find(n)
    BY <1>3, <2>1 DEF RunInv, UnfilledIsRunning
  <2>3. call'[u] = call[u]
    BY <1>1, <2>2
  <2> QED BY <2>1, <2>2, <2>3 DEF At
<1> QED BY <1>2, <1>3 DEF UnfilledIsRunning

\* The steps of built-in modules, and those that only look.
LEMMA BuiltinStep ==
    ASSUME RunInv, NEW t \in Threads,
           FindBuiltin(t) \/ GetOrRegister(t) \/ FillModule(t) \/ FailInit(t) \/ RegisterModule(t) \/ Commit(t)
    PROVE  CallersOK' /\ UnfilledIsRunning'
<1> DEFINE n == call[t].name
<1>1. /\ call[t] \in Frames /\ n \in Modules /\ call[t] # Idle /\ CallerOK(call[t])
      /\ call[t].pc \in {"find", "get_or_register", "body", "filled", "commit"}
  BY FrameType DEF RunInv, IInv, CallersOK, At, FindBuiltin, GetOrRegister, FillModule, FailInit,
                   RegisterModule, Commit
<1>2. n \in Builtins /\ call[t].by \in {"init", "builtin"} /\ ~At(t, "run")
  BY <1>1 DEF CallerOK, At
<1>3. \A k \in Modules \ Builtins : reg'[k] = reg[k] /\ filled'[k] = filled[k]
  BY <1>1, <1>2 DEF RunInv, IInv, TypeOK, FindBuiltin, GetOrRegister, FillModule, FailInit, RegisterModule,
                    Commit, MarkedFailed, MarkedInitialized, Registered, Created
<1>4. \A k \in Modules \ Builtins : Same(k)
  BY <1>3 DEF Same, Find
<1>5. \E f : call' = [call EXCEPT ![t] = f] /\ (f # Idle => CallerOK(f))
  <2>1. ASSUME NEW at \in Pcs, NEW m \in ModuleObjects
        PROVE  \E f : With(t, at, m) = [call EXCEPT ![t] = f] /\ CallerOK(f)
    <3>1. PICK f \in Frames :
            /\ f.pc = at /\ f.mod = m /\ f.name = n /\ f.by = call[t].by
            /\ With(t, at, m) = [call EXCEPT ![t] = f]
      BY <1>1, WithFrame DEF RunInv, IInv
    <3>2. CallerOK(f)
      BY <1>2, <3>1 DEF CallerOK
    <3> QED BY <3>1, <3>2
  <2>2. ASSUME NEW at \in Pcs
        PROVE  \E f : Goto(t, at) = [call EXCEPT ![t] = f] /\ CallerOK(f)
    <3> DEFINE f == [call[t] EXCEPT !.pc = at]
    <3>1. Goto(t, at) = [call EXCEPT ![t] = f]
      BY <1>1 DEF Goto, RunInv, IInv, TypeOK
    <3>2. f.by = call[t].by /\ f.name = n
      BY <1>1 DEF Frames
    <3> HIDE DEF f
    <3>3. CallerOK(f)
      BY <1>2, <3>2 DEF CallerOK
    <3> QED BY <3>1, <3>3
  <2>3. \E f : Return(t) = [call EXCEPT ![t] = f] /\ (f # Idle => CallerOK(f))
    BY DEF Return
  <2>4. ASSUME NEW m \in ModuleObjects
        PROVE  \E f : Given(t, m) = [call EXCEPT ![t] = f] /\ (f # Idle => CallerOK(f))
    BY <2>1, <2>3 DEF Given, Pcs
  <2>5. t \in ModuleObjects /\ Null \in ModuleObjects /\ call[t].mod \in ModuleObjects
    BY <1>1 DEF ModuleObjects, Frames
  <2>6. EntryOf(n).module \in ModuleObjects
    BY <1>1, EntryOfType DEF RunInv, IInv, EntryType
  <2>7. CASE FindBuiltin(t)
    BY <2>2, <2>3, <2>7 DEF FindBuiltin, Pcs
  <2>8. CASE GetOrRegister(t)
    BY <2>2, <2>4, <2>5, <2>6, <2>8 DEF GetOrRegister, Pcs
  <2>9. CASE FillModule(t)
    BY <2>1, <2>5, <2>9 DEF FillModule, Pcs
  <2>10. CASE FailInit(t)
    BY <2>3, <2>10 DEF FailInit
  <2>11. CASE RegisterModule(t)
    BY <2>2, <2>11 DEF RegisterModule, Pcs
  <2>12. CASE Commit(t)
    BY <2>4, <2>5, <2>12 DEF Commit
  <2> QED BY <2>7, <2>8, <2>9, <2>10, <2>11, <2>12
<1> QED BY <1>2, <1>4, <1>5, StepElsewhere

\* An import begins.
LEMMA BeginStep ==
    ASSUME RunInv, NEW t \in Threads, Import(t) \/ RunModule(t)
    PROVE  CallersOK' /\ UnfilledIsRunning'
<1>1. PICK n \in Modules, at \in {"get_or_register", "find", "import_get_module"}, who \in Callers :
        /\ call' = [call EXCEPT ![t] = Frame(n, at, who)]
        /\ at # "import_get_module" => n \in Builtins /\ who \in {"init", "builtin"}
        /\ at = "import_get_module" => who \in {"level", "run"}
  BY ModuleRegistryAssumption DEF Import, RunModule, Callers
<1>2. CallerOK(Frame(n, at, who))
  BY <1>1 DEF CallerOK, Frame
<1>3. ~At(t, "run")
  BY DEF Import, RunModule, At
<1>4. \A k \in Modules \ Builtins : Same(k)
  BY DEF Import, RunModule, Same, Find
<1> QED BY <1>1, <1>2, <1>3, <1>4, StepElsewhere

\* import_get_module registers nothing itself, and creates a module object only for a name that
\* has none.
LEMMA LookUpStep ==
    ASSUME RunInv, NEW t \in Threads, ImportGetModule(t)
    PROVE  CallersOK' /\ UnfilledIsRunning'
<1> DEFINE n == call[t].name
<1>1. /\ call[t] \in Frames /\ n \in Modules /\ call[t] # Idle /\ CallerOK(call[t]) /\ TypeOK
      /\ call[t].pc = "import_get_module" /\ ~At(t, "run")
  BY FrameType DEF RunInv, IInv, CallersOK, At, ImportGetModule
<1>2. \A k \in Modules \ Builtins : Same(k)
  <2>1. reg' = reg /\ (filled' = filled \/ (Find(n) = Null /\ filled' = Created(t, n)))
    BY DEF ImportGetModule
  <2>2. \A k \in Modules : filled'[k] = filled[k] \/ (k = n /\ Find(n) = Null)
    BY <1>1, <2>1 DEF TypeOK, Created
  <2> QED BY <2>1, <2>2, ModuleRegistryAssumption DEF Same, Find
<1>3. Find(n) \in ModuleObjects /\ mirror[n] \in ModuleObjects /\ mirror[n] \notin Threads /\ t \in ModuleObjects
  BY <1>1, ModuleRegistryAssumption DEF TypeOK, Find, EntryType, ModuleObjects
<1>4. ASSUME NEW at \in {"run", "register"}, NEW m \in ModuleObjects, m \in Threads => call[t].by = "run" \/ at = "run",
             call' = With(t, at, m)
      PROVE  CallersOK' /\ UnfilledIsRunning'
  <2>1. PICK f \in Frames :
          /\ f.pc = at /\ f.mod = m /\ f.name = n /\ f.by = call[t].by
          /\ call' = [call EXCEPT ![t] = f]
    BY <1>1, <1>4, WithFrame DEF Pcs
  <2>2. CallerOK(f)
    BY <1>1, <1>4, <2>1 DEF CallerOK
  <2> QED BY <1>1, <1>2, <2>1, <2>2, StepElsewhere
<1>5. CASE call' = Return(t)
  BY <1>1, <1>2, <1>5, StepElsewhere DEF Return
<1>6. \/ call' = Return(t) \/ call' = With(t, "run", Find(n)) \/ call' = With(t, "register", mirror[n])
      \/ (call' = With(t, "register", t) /\ call[t].by = "run")
  BY DEF ImportGetModule, Got
<1> QED BY <1>3, <1>4, <1>5, <1>6

\* register_module behind the look-up: whoever registers a module that is not filled goes on to run
\* its code.
LEMMA RegisterStep ==
    ASSUME RunInv, NEW t \in Threads, RegisterResult(t)
    PROVE  CallersOK' /\ UnfilledIsRunning'
<1> DEFINE n == call[t].name
           m == call[t].mod
<1>1. /\ call[t] \in Frames /\ n \in Modules /\ call[t] # Idle /\ CallerOK(call[t]) /\ TypeOK
      /\ call[t].pc = "register" /\ ~At(t, "run") /\ m \in ModuleObjects
      /\ FrameOK(call[t], t, reg, filled)
  BY FrameType DEF RunInv, IInv, CallersOK, FramesOK, At, RegisterResult, Frames
<1>2. m # Null
  BY <1>1 DEF FrameOK
<1>3. filled' = filled /\ \A k \in Modules : Find(k)' = IF k = n THEN m ELSE Find(k)
  <2>1. /\ reg'[n] # NoEntry /\ reg'[n].module = m
        /\ \A k \in Modules : k # n => reg'[k] = reg[k]
    <3>1. reg' = Registered(t, n, m) /\ ModuleIffInitialized
      BY DEF RegisterResult, RunInv, IInv
    <3> HIDE DEF n, m
    <3> QED BY <1>1, <1>2, <3>1, RegisteredProper
  <2> QED BY <2>1 DEF Find, RegisterResult
<1>4. PICK f : /\ call' = [call EXCEPT ![t] = f] /\ (f # Idle => CallerOK(f))
               /\ call[t].by = "run" => f # Idle /\ f.pc = "run" /\ f.name = n /\ f.mod = m
  <2>1. CASE call[t].by = "run"
    <3>1. call' = With(t, "run", m) /\ "run" \in Pcs
      BY <2>1 DEF RegisterResult, Got, Pcs
    <3>2. PICK f \in Frames :
            /\ f.pc = "run" /\ f.mod = m /\ f.name = n /\ f.by = call[t].by
            /\ call' = [call EXCEPT ![t] = f]
      BY <1>1, <3>1, WithFrame
    <3>3. CallerOK(f) /\ f # Idle
      BY <1>1, <3>2, AbsenceAssumption DEF CallerOK
    <3> QED BY <3>2, <3>3
  <2>2. CASE call[t].by # "run"
    BY <2>2 DEF RegisterResult, Got, Return
  <2> QED BY <2>1, <2>2
<1>5. call'[t] = f /\ \A u \in Threads : u # t => call'[u] = call[u]
  BY <1>1, <1>4 DEF TypeOK
<1>6. CallersOK'
  BY <1>4, <1>5 DEF RunInv, CallersOK
<1>7. ASSUME NEW k \in Modules \ Builtins, Find(k)' \in Threads, Find(k)' \notin filled'[k]
      PROVE  \E u \in Threads : At(u, "run")' /\ call'[u].name = k /\ call'[u].mod = Find(k)'
  <2>1. CASE k = n
    <3>1. call[t].by = "run"
      BY <1>1, <1>3, <1>7, <2>1 DEF CallerOK, Frames, Callers
    <3> QED BY <1>3, <1>4, <1>5, <2>1, <3>1 DEF At
  <2>2. CASE k # n
    <3>1. PICK u \in Threads : At(u, "run") /\ call[u].name = k /\ call[u].mod = Find(k)
      BY <1>3, <1>7, <2>2 DEF RunInv, UnfilledIsRunning
    <3> QED BY <1>1, <1>3, <1>5, <2>2, <3>1 DEF At
  <2> QED BY <2>1, <2>2
<1> QED BY <1>6, <1>7 DEF UnfilledIsRunning

\* The code of a module ends: that module is filled.
LEMMA RunStep ==
    ASSUME RunInv, NEW t \in Threads, RunCode(t)
    PROVE  CallersOK' /\ UnfilledIsRunning'
<1> DEFINE n == call[t].name
           m == call[t].mod
<1>1. n \in Modules /\ TypeOK /\ reg' = reg /\ call' = [call EXCEPT ![t] = Idle]
  BY FrameType DEF RunInv, IInv, RunCode, At, Return
<1>2. call'[t] = Idle /\ \A u \in Threads : u # t => call'[u] = call[u]
  BY <1>1 DEF TypeOK
<1>3. \A k \in Modules : filled[k] \subseteq filled'[k] /\ (k = n /\ m \in Threads => m \in filled'[k])
  BY <1>1 DEF RunCode, TypeOK
<1>4. CallersOK'
  BY <1>2 DEF RunInv, CallersOK
<1>5. ASSUME NEW k \in Modules \ Builtins, Find(k)' \in Threads, Find(k)' \notin filled'[k]
      PROVE  \E u \in Threads : At(u, "run")' /\ call'[u].name = k /\ call'[u].mod = Find(k)'
  <2>1. Find(k)' = Find(k) /\ Find(k) \notin filled[k]
    BY <1>1, <1>3, <1>5 DEF Find
  <2>2. PICK u \in Threads : At(u, "run") /\ call[u].name = k /\ call[u].mod = Find(k)
    BY <1>5, <2>1 DEF RunInv, UnfilledIsRunning
  <2>3. u # t
    BY <1>3, <1>5, <2>1, <2>2
  <2> QED BY <1>2, <2>1, <2>2, <2>3 DEF At
<1> QED BY <1>4, <1>5 DEF UnfilledIsRunning

\* Both invariants hold for ever.
LEMMA RunInvariance == Spec => []RunInv
<1>1. Init => RunInv
  BY InitHolds, ModuleRegistryAssumption DEF Init, RunInv, CallersOK, UnfilledIsRunning, Find
<1>2. ASSUME RunInv, [Next]_vars PROVE RunInv'
  <2>1. IInv'
    BY <1>2, StepHolds DEF RunInv
  <2>2. CASE UNCHANGED vars
    BY <1>2, <2>1, <2>2 DEF vars, RunInv, CallersOK, UnfilledIsRunning, Find, At
  <2>3. ASSUME NEW n \in Modules, WriteMirror(n) PROVE CallersOK' /\ UnfilledIsRunning'
    BY <1>2, <2>3 DEF WriteMirror, RunInv, CallersOK, UnfilledIsRunning, Find, At
  <2>4. ASSUME NEW t \in Threads, Import(t) \/ RunModule(t) \/ Step(t) PROVE CallersOK' /\ UnfilledIsRunning'
    BY <1>2, <2>4, BuiltinStep, BeginStep, LookUpStep, RegisterStep, RunStep DEF Step
  <2>5. CallersOK' /\ UnfilledIsRunning'
    BY <1>2, <2>2, <2>3, <2>4 DEF Next, RunInv
  <2> QED BY <2>1, <2>5 DEF RunInv
<1> QED BY <1>1, <1>2, PTL DEF Spec

-----------------------------------------------------------------------------
(* Theorems *)

\* Every variable of the registry and of the imports keeps its type: no null pointer or foreign
\* value gets into an entry.
THEOREM RegistryTypeCorrect == Spec => []TypeOK
<1>1. IInv => TypeOK
  BY DEF IInv
<1> QED BY Invariance, <1>1, PTL

\* find never answers, for a built-in module, with one that its initialiser has not filled, for any
\* number of threads that initialise it at once or fail to; and a frozen or compiled module that
\* find answers with before it is filled is one whose code a thread is running at that moment.
THEOREM FoundFilledOrRunning == Spec => []FoundIsFilled
<1>1. RunInv => FoundIsFilled
  BY DEF RunInv, IInv, BuiltinFoundIsFilled, UnfilledIsRunning, FoundIsFilled
<1> QED BY RunInvariance, <1>1, PTL

\* Between register_module and commit the name stays registered, whatever other initialisers of
\* the same module do.
THEOREM CommitFindsModule == Spec => []RegisteredUntilCommit
<1>1. IInv => RegisteredUntilCommit
  BY DEF IInv, FramesOK, FrameOK, RegisteredUntilCommit, At, Has, Find
<1> QED BY Invariance, <1>1, PTL

\* No operation of the registry takes a module out again.
THEOREM ModulesStay == Spec => RegisteredStays
<1>1. IInv /\ [Next]_vars => [\A n \in Modules : Find(n) # Null => Find(n)' # Null]_vars
  BY StepHolds DEF Kept
<1> QED BY Invariance, <1>1, PTL DEF Spec, RegisteredStays

\* The guard of the step of get_or_register is true wherever a thread is about to take it.
NeverWaits ==
    \A t \in Threads :
        At(t, "get_or_register") =>
            LET e == EntryOf(call[t].name)
            IN  e.module # Null => e.initialized \/ e.owner = t \/ e.failed

\* get_or_register never blocks, for any number of threads; what its comment says of waiting is
\* code that is not reached.
THEOREM WaitNeverEntered == Spec => []NeverWaits
<1>1. IInv => NeverWaits
  BY EntryOfType, FrameType DEF IInv, NeverWaits, At
<1> QED BY Invariance, <1>1, PTL

=============================================================================
