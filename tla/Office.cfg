CONSTANTS
  Emails = {e1, e2}
  OrgEmail = e1
  MaxTries = 2
  MaxSessions = 1
  Clients = {c1, c2, c3}
  SpareClient = c3
  SpareVendor = v3
  Projects = {p1}
  WbsCodes = {w1}
  Requisitions = {r1}
  None = None
  MaxParentDepth = 20
  AddressIds = {a1, a2}
  ContactIds = {k1, k2}
  Staff = {s1, s2}
  Assigners = {x1, x2}
  Trackings = {t1, t2}
  Groups = {g1, g2}
  Members = {u1, u2}
  Tasks = {task1}
  Departments = {d1, d2}
  Disciplines = {x}
  Activities = {act1, act2}
  ActivityNames = {n1, n2}
  Masters = {m1, m2}
  MasterNames = {mn1, mn2}
  Categories = {mc1, mc2}
  People = {person}
  Steps = {step}
  Nobody = Nobody
  DocumentIds = {doc1, doc2, doc3}
  ExperienceIds = {exp1}
  Vendors = {v1, v2, v3}
  VendorNames = {vn1, vn2}
  Kinds = {kind1, kind2}
  NoParent = NoParent
  MaxFamilyDepth = 2
  Materials = {mat1}
  CategoryIds = {cat1, cat2}
  GroupIds = {grp1, grp2}
  Words = {word}
  Calls = {call1, call2}
  Missing = Missing
  Items = {i1, i2}
  Unlisted = Unlisted
  Sheets = {sh1, sh2}
  MaxEntries = 2
  Papers = {paper1, paper2}
  Urls = {url1, url2, url3}
  Companies = {co1, co2}
  TypeNames = {supplier, subcontractor}
  DefaultType = supplier
  Blank = Blank
  TypeRows = {ty1, ty2}
  Suppliers = {su1, su2}
  MaxRows = 2
  Persons = {o1, o2}
  Movable = {o2}
  Founder = o1
  Colleagues = {b1, b2}
  Petitions = {q1}
  Anyone = Anyone
SPECIFICATION OfficeSpec
CHECK_DEADLOCK FALSE
INVARIANTS
  OfficeTypeOK
  ClientsAreSound
  VendorsAreSound
  ImportsAreSound
  
  FilesAreKept
  
  
PROPERTIES
  
  
  OffStaysOff
  NobodyJoinsOff
  OnlySavesUndo
