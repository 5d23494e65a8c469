SPECIFICATION MCSpec
CONSTANTS
  None = None
  Cid <- MCCid
  Object <- MCObject
  IdOrder <- MCIdOrder
  MaxRotations = 2
  Scale = 100
  x = x  y = y  z = z  xy = xy  yz = yz  zx = zx  judged = judged  sourced = sourced
  copy = copy  argued = argued  anchored = anchored  broken = broken
  k = k  d = d  e = e  k2 = k2  v1 = v1  v2 = v2  v3 = v3  v4 = v4  e1 = e1
  rev12 = rev12  rev23 = rev23  rev24 = rev24  prop = prop  del = del  undel = undel
  sigk = sigk  sigk2 = sigk2
  r = r  a = a  b = b  s = s  t = t  o = o  topic = topic  ra = ra  rb = rb
  rbTopic = rbTopic  st = st  ts = ts  isTopic = isTopic  yes = yes  no = no  noS = noS
  grounds = grounds  argue = argue  settle = settle  proof = proof
  m = m  f = f  g = g  h = h  yesM = yesM  agreeF = agreeF  agreeG = agreeG
  agreeH = agreeH  againstH = againstH  same = same  atF = atF  atG = atG
  word = word  d1 = d1  d1b = d1b  d2 = d2  c1 = c1  c2 = c2  c3 = c3  revd = revd
  claimd = claimd  eqv = eqv  leans = leans  deld = deld
  s1 = s1  s2 = s2  f1 = f1  f2 = f2  fe = fe  revs = revs  revf = revf  propf = propf
  keep = keep  denyF = denyF  unsureF = unsureF  argueF = argueF  dropK = dropK
  dropE = dropE  dropArgue = dropArgue  settleF = settleF
  undelE = undelE  hide = hide  loop = loop
  Implied <- MCImplied
  lab = lab  grant = grant  one = one  two = two  idle = idle
INVARIANTS LoadsAlike TrustEarned FloorMetByIndependent CopiesRead MovesShow
PROPERTIES LineageKept StandingsEarned OnlyAuthorsUnite AnswersStand DoubtsStand
CHECK_DEADLOCK FALSE
