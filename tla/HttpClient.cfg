\* Three requests and one worker, one cookie file.
SPECIFICATION Spec
CONSTANTS
  Requests = {get, put, odd}
  Kind <- SomeKinds
  Workers = {w1}
  get = get
  put = put
  odd = odd
  Names = {cookieFile}
  NoName = NoName
INVARIANTS PoolQuietWhenGone SuccessIsComplete CookiesKept
PROPERTY SentIsAnswered
CHECK_DEADLOCK FALSE
