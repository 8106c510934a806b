CONSTANTS
  w1 = w1  w2 = w2  w3 = w3  p = p  q = q
  Workers <- TwoWorkers
  Origins <- TwoOrigins
  RobotsPath <- Redirected
  RespectRobots = TRUE
  Credentials = FALSE
  RequestDelay = 0
  CrawlDelay <- Quick
  RateWait = 0
  MaxRetryAfter = 1
  Chunk = 1
  Backoff = 0
  RetryAttempts = 0
  MaxRedirects = 1
SPECIFICATION FairSpec

PROPERTIES RobotsFirst WorkersEnd
