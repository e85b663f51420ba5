SPECIFICATION Spec
CONSTANTS
  Tabs = {t1, t2}
  MaxClients = 2
  MaxConnects = 1
  MaxOffs = 1
CHECK_DEADLOCK FALSE
   
PROPERTIES ReapedInTheEnd ClaimIsExclusive
