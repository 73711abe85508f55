SPECIFICATION FairSpec
CONSTANTS
  Replicas = {r1, r2}
  Main = r1
  Fragile = {r1}
  Backoffs = 2
  ConnectHonoursCtx = TRUE
  TokenTtl = 6
  Writers = {w1, w2}
  Uuids = {u1, u2}
INVARIANT TypeOK LoginNotRevoked BookkeepingTokenUsable ControllerInv
PROPERTY LeaderComesBack LoginRecovers PluginComesBack AgentEndsTheProcess WebhookComesBack SeriesFlushed LiveSeriesStay
