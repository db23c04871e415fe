\* An administrator, one of a tenant and a newcomer, and two requests.
CONSTANTS
  root = root
  boss = boss
  user = user
  acme = acme
  r1 = r1
  r2 = r2
  Users = {root, boss, user}
  Tenants = {acme}
  NoTenant = NoTenant
  None = None
  Staff <- MCStaff
  Grants <- MCGrants
  Requests = {r1, r2}
SPECIFICATION LiveSpec
INVARIANTS
  TypeOK
  NoSelfMadeAdmin
  

  
