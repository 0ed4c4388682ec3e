SPECIFICATION Spec
CONSTANTS
  u1 = u1
  u2 = u2
  A = A
  B = B
  s1 = s1
  laptop = laptop
  Laptop = Laptop
  portatil = portatil
  c1 = c1
  c2 = c2
  unknown = unknown
  Null = Null
  Uploads = {u1, u2}
  Issuers = {A, B}
  SKUs = {s1}
  Descriptions = {laptop, Laptop, portatil}
  Keys = {laptop, portatil}
  Normal <- MCNormal
  Invoices <- MCInvoices
  Catalog = {c1, c2}
  Replies = {c1, c2, unknown}
INVARIANT CachedPerSupplier
