SPECIFICATION SpecLists
CONSTANTS
    Services = {"departments"}
    Tenants = {o1, o2}
    All = All
    ListContexts = {o1, All}
    Asked = {"search", "isActive"}
    Limit = 1
    Absent = Absent
    MaxChanges = 3
INVARIANTS
    OrgFilteringWorks
