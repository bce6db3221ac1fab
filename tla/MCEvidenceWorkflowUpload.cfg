CONSTANTS
    h1 = h1
    h2 = h2
    req = req
    fnd = fnd
    pen = pen
    doc = doc
    Tenant = acme
    Handlers <- MCHandlers
    Requests <- MCRequests
    Findings <- MCFindings
    PenTests <- MCPenTests
    Documents <- MCDocuments
    MaxStamp = 2
SPECIFICATION Spec
SYMMETRY MCSymmetry
PROPERTIES
    UploadCloses
