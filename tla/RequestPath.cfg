SPECIFICATION Spec
CHECK_DEADLOCK FALSE
CONSTANTS
    MaxHops <- MCMaxHops
INVARIANTS TypeOK NoProxyLoop VersionSurvives TunnelNotDowngraded
    RedirectedIsAccepted TunnelAnnouncedIsReal
