CONSTANTS
    a = a  b = b  d = d  x = x  y = y  z = z  first = first  second = second
    Task = {a, b, d}
    Serial = {x, y, z}
    Plan = {first, second}
    SourceOf <- Sources
    Share <- Shares
    Uploaded <- Uploads
    Attempted = {x, y}
    MaxConversions = 1
    MaxStops = 1
SPECIFICATION LiveSpec
INVARIANTS ConverterKept BackupPrecedes
PROPERTIES Converges
CHECK_DEADLOCK FALSE
