SPECIFICATION Spec
CONSTANTS
  v1 = v1
  v2 = v2
  s1 = s1
  s2 = s2
  s3 = s3
  g1 = g1
  g2 = g2
  Cluster = {c1, c2}
  Zone = {z1, z2}
  Vpc <- MCVpc
  Subnet <- MCSubnet
  Group <- MCGroup
  None = None
  Provider = {"aws", "alibaba", "tencent", "google"}
  MaxTries = 3
SYMMETRY Interchangeable
INVARIANTS PortsStayOpen NetworkReused SubnetInVpc
CHECK_DEADLOCK FALSE
