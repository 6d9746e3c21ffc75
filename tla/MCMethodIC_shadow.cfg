CONSTANTS
    base = base
    derived = derived
    o1 = o1
    o2 = o2
    f = f
    st = st
    p = p
    v = v
    m = m
    call = call
    Absent = Absent
    NoDict = NoDict
    Classes = {base, derived}
    Objs = {o1, o2}
    Names = {m}
    Functions = {f, st}
    Statics = {st}
    Properties = {}
    Plains = {v}
    TypeOf <- MCTypeOf
    Mro <- MCMro
    CustomGet = {}
    CustomSet = {}
    DictTypes = {}
    MaxVersion = 1
    CallSites = {call}
    MethodAt <- MCMethodAt
    PicSlots = 2
SPECIFICATION Spec
INVARIANTS InstanceShadowsMethodOnHit
