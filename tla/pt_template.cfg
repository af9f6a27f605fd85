SPECIFICATION Spec
CONSTANTS
    None = None
    Name = {"egress", "sidecar"}
    Volume = {"run"}
    Key = {k1}
    MaxLen = 2
INVARIANT Idempotent
INVARIANT OneGateway
