SPECIFICATION TenancySpec
CONSTANTS
  User = {u1, u2}
  Role = {"org_admin"}
  Activation = {t1, t2}
  Caller = {c1}
  Grant = {g1}
INVARIANT AnAdminRemains
CHECK_DEADLOCK FALSE
