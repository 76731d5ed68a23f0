\* All configurations of three instances and four tenants.
CONSTANT Configs <- MCConfigs
SPECIFICATION Spec
INVARIANT TypeOK ReadPathComplete AddressesExist WritePathSound
CHECK_DEADLOCK FALSE
