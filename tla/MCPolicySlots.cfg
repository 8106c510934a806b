CONSTANTS
  w1 = w1  w2 = w2  w3 = w3  p = p  q = q
  Workers <- ThreeWorkers
  Origins <- OneOrigin
  RobotsPath <- NoPath
  RespectRobots = TRUE
  Credentials = TRUE
  RequestDelay = 1
  CrawlDelay <- SlowOrigin
  RateWait = 0
  MaxRetryAfter = 2
  Chunk = 1
  Backoff = 1
  RetryAttempts = 1
  MaxRedirects = 0
SPECIFICATION Spec
SYMMETRY Symmetric
INVARIANTS CooldownBinds
PROPERTIES Paced PauseBinds
