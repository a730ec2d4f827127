SPECIFICATION Spec
CONSTANTS
  Procs = {"deploy", "status"}
  Fields = {"password", "root_password"}
  Keys = {"old", "other", "k1", "k2"}
  OldKey = "old"
  OtherKey = "other"
  MaxFaults = 1
INVARIANTS
  TypeOK
  
  OneIdentity
  

  
