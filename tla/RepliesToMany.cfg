SPECIFICATION Spec
CONSTANTS
  s1 = s1
  s2 = s2
  al = al
  p1 = p1
  p2 = p2
  p3 = p3
  Own = {s1, s2}
  Default = s1
  Others = {al}
  People = {p1, p2, p3}
  Forwarded = {p3}
  Mails <- ToMany
  None = None
INVARIANTS AuthorGetsReply
SYMMETRY Perms
