\* Two strangers, one of which joins and may be expelled, as may the node itself; two
\* invitations; an expel call beside the reconciler.
SPECIFICATION FairSpec
CONSTANTS
  Local = me
  Peers = {p1, p2}
  Tokens = {1, 2}
  Callers = {c1}
  Joining = {p1}
  Expellable = {me, p1}
  OpenMax = 1
  InvitedMax = 1
  HandshakesMax = 2
INVARIANT BarredAreRefused TokenAdmitsOne
PROPERTY NewcomersAreKept ViewCatchesUp
