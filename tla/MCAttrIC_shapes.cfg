CONSTANTS
    base = base
    derived = derived
    o1 = o1
    o2 = o2
    f = f
    p = p
    v = v
    x = x
    y = y
    readX = readX
    writeX = writeX
    writeY = writeY
    Absent = Absent
    NoDict = NoDict
    Classes = {derived}
    Objs = {o1, o2}
    Names = {x, y}
    Functions = {f}
    Properties = {}
    Plains = {v}
    TypeOf <- MCTypeOf
    Mro <- MCMroFlat
    CustomGet = {}
    CustomSet = {}
    DictTypes = {}
    MaxVersion = 1
    GetSites = {readX}
    SetSites = {writeX, writeY}
    NameAt <- MCNameAt
SYMMETRY MCSymmetry
SPECIFICATION Spec
INVARIANTS TypeOK SlotsMatchShape CachesValid HitAgreesWithGetattribute HitAgreesWithSetattribute
PROPERTIES ImplementsAttrSpec ShapesOnlyGrow
