SPECIFICATION Spec
CONSTANTS
  Page = {"p1", "p2"}
  Token = {"t1"}
  Reader = {q1}
  Snap = {"s1", "s2", "s3"}
  Res <- MCRes
  Null = Null
  UrlOf <- MCUrlOf
  FileOf <- MCFileOf
  SubUrl <- MCSubUrl
  LinksOf <- MCLinksOf
  Asked <- MCAsked
  Like23 <- MCLike23
  LikeCase <- MCLikeCase
  Shared <- MCShared
  MaxSeen = 2
INVARIANTS
  Inv
  BestLinked
