SPECIFICATION Spec
CONSTANTS
  a = a
  b = b
  Writers <- OneWriter
  TTL = 1
  RequestTimeout = 1
  MaxTime = 0
  MaxDeletions = 0
  MaxOthers = 0
  MaxFailures = 0
  Shapes <- Apply
  Clusters <- ForCreates
  GVR <- Widgets
  Other = Other
  None = None
  Never = Never
CHECK_DEADLOCK FALSE
PROPERTY
  WebhooksFire
