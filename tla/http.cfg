CONSTANTS
  Requester = r
  Downloaders = {d1}
  Objects = {d1}
  Object <- OwnObject
  Handles = {h1, h2}
  NULL = NULL
  DEFAULT_DATA_SIZE = 2
  HTTP_DOWNLOAD_BUFFER_SIZE = 2
  MaxBody = 3
  MaxContent = 3
SPECIFICATION FairSpec
INVARIANTS BodyIsString ClientsAreOwned DownloadIsWhole
PROPERTIES DownloadsEnd
