CONSTANTS
    base = base
    derived = derived
    o1 = o1
    o2 = o2
    f = f
    p = p
    v = v
    x = x
    y = y
    readX = readX
    writeX = writeX
    writeY = writeY
    Absent = Absent
    NoDict = NoDict
    Classes = {base, derived}
    Objs = {o1, o2}
    Names = {x}
    Functions = {f}
    Properties = {p}
    Plains = {v}
    TypeOf <- MCTypeOfMixed
    Mro <- MCMro
    CustomGet = {base}
    CustomSet = {base}
    DictTypes = {derived}
    MaxVersion = 3
    GetSites = {readX}
    SetSites = {writeX}
    NameAt <- MCNameAtX
SPECIFICATION Spec
INVARIANTS CachesValid HitAgreesWithGetattribute HitAgreesWithSetattribute
PROPERTY ImplementsAttrSpec
