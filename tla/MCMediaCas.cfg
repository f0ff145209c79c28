\* Three callers in two processes put and get two contents in two formats, at a
\* ceiling with room for one of them and an object more.
CONSTANTS
  a = a  b = b  p = p  q = q  c1 = c1  c2 = c2  c3 = c3  txt = txt  md = md
  Absent = Absent  Torn = Torn  Whole = Whole  Nobody = Nobody
  ProbeOrder <- Probe
  Size <- Sizes
  SidecarSize = 1
  MaxBytes = 3
  Digests = {a, b}
  Processes = {p, q}  Callers = {c1, c2, c3}
  ProcessOf <- TwoProcesses
SYMMETRY Symmetry
SPECIFICATION Spec
INVARIANTS
  StoredIsWhole
  CapHolds
PROPERTIES
  WriteOnce
  MemorySpec
