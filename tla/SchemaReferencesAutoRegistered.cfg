CONSTANTS
  t1 = t1
  t2 = t2
  u = u
  v = v
  w = w
  x = x
  y = y
  a = a
  a1 = a1
  a2 = a2
  a3 = a3
  a4 = a4
  a5 = a5
  b = b
  b1 = b1
  bb = bb
  bb1 = bb1
  c = c
  c1 = c1
  c2 = c2
  c3 = c3
  c4 = c4
  d = d
  d1 = d1
  d2 = d2
  d3 = d3
  d4 = d4
  e = e
  e1 = e1
  e2 = e2
  m = m
  m1 = m1
  NULL = NULL
  Threads = {t1, t2}
  Schemas <- MCOrderlySchemas
  Schema <- MCSchema
  Roots = {a}
  Instances <- MCInstances
  Uris = {u, v, w, x, y}
  Online <- MCOnline
  BuiltIn <- MCBuiltIn
  MayRemove = FALSE
  MaxCalls = 2
SPECIFICATION Spec
INVARIANT AutoRegistered
CHECK_DEADLOCK FALSE
